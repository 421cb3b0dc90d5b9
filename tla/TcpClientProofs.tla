--------------------------- MODULE TcpClientProofs ----------------------------
(***************************************************************************)
(* Proofs about TcpClient for every max_retry_, every initial time-out and *)
(* any number of Connects.                                                 *)
(***************************************************************************)
EXTENDS TcpClient, SequenceTheorems, TLAPS

Busy == loop \in {"setters", "enable", "connect"} /\ ~stale

(* A connect() that is bound to happen: the user's thread is in Connect,   *)
(* the timer is set, or the loop's thread is in Start.                     *)
Owed ==
    (IF user = "idle" THEN 0 ELSE 1) + (IF timer = "off" THEN 0 ELSE 1)
      + (IF Busy THEN 1 ELSE 0)

(* The first attempt, and one for each call of Retry within the limit. *)
Granted == 1 + (IF retry_ <= MaxRetry THEN retry_ ELSE MaxRetry)

CountTypes ==
    /\ retry_ \in Nat
    /\ attempts \in Nat
    /\ user \in {"idle", "register", "callbacks", "setters", "enable", "connect"}
    /\ loop \in {"poll", "handle", "setters", "enable", "connect"}
    /\ timer \in {"off", "armed", "expired"}

(* The inductive invariant: attempts made and owed are never more than     *)
(* those granted.  AttemptsBounded alone says nothing of a timer that is   *)
(* still set when the last attempt has been made.                          *)
AttemptsInv == CountTypes /\ attempts + Owed <= Granted

(* The initial state satisfies the invariant. *)
LEMMA AttemptsInit == Init => AttemptsInv
  BY ClientAssumption DEF Init, AttemptsInv, CountTypes, Owed, Granted, Busy

(* Every step of TcpClient preserves it. *)
LEMMA AttemptsStep == AttemptsInv /\ [Next]_vars => AttemptsInv'
<1> SUFFICES ASSUME AttemptsInv, [Next]_vars
             PROVE  AttemptsInv'
  OBVIOUS
<1> USE ClientAssumption DEF AttemptsInv, CountTypes, Owed, Granted, Busy
<1>1. CASE Connect
  <2>1. ~stale' => loop' = "poll"
    BY <1>1, Zenon DEF Connect
  <2>2. retry_' = 0 /\ attempts' = 0 /\ timer' = "off" /\ user' = "register" /\ loop' = loop
    BY <1>1 DEF Connect, NewConnector
  <2> QED
    BY <2>1, <2>2
<1>2. CASE UserConnect
  BY <1>2 DEF UserConnect, TryConnect, Retry, NoRetry, SetInterval, kernel
<1>3. CASE LoopConnect
  BY <1>3 DEF LoopConnect, TryConnect, Retry, NoRetry, SetInterval, kernel
<1>4. CASE OnTimer
  BY <1>4 DEF OnTimer, Turn, object, history, kernel
<1>5. CASE HandleHangUp
  BY <1>5 DEF HandleHangUp, Turn, Retry, NoRetry, SetInterval, history
<1>6. CASE HandleConnect
  BY <1>6 DEF HandleConnect, Turn, Retry, NoRetry, SetInterval, history
<1>7. CASE Register \/ SetChannelCallbacks \/ UserSetters \/ UserEnable \/ Disconnect
  BY <1>7 DEF Register, SetChannelCallbacks, UserSetters, UserEnable, Disconnect, object, history
<1>8. CASE Poll \/ Again \/ HandleStale \/ LoopSetters \/ LoopEnable
  BY <1>8, SMTT(20) DEF Poll, Again, HandleStale, LoopSetters, LoopEnable, object, history
<1>9. CASE Established \/ Refused \/ PeerResets \/ PeerEnds \/ Expires
  BY <1>9 DEF Established, Refused, PeerResets, PeerEnds, Expires, object, history
<1>10. CASE UNCHANGED vars
  BY <1>10 DEF vars, object, history
<1> QED
  BY <1>1, <1>2, <1>3, <1>4, <1>5, <1>6, <1>7, <1>8, <1>9, <1>10 DEF Next, UserStep, LoopStep

(* connect() is called at most max_retry_ + 1 times for a call of Connect, *)
(* however many hang-ups, errors and expiries Retry is called for.         *)
THEOREM ClientAttemptsBounded == SafeSpec => []AttemptsBounded
<1>1. AttemptsInv => AttemptsBounded
  BY ClientAssumption
     DEF AttemptsInv, CountTypes, Owed, Granted, AttemptsBounded
<1> QED
  BY <1>1, AttemptsInit, AttemptsStep, PTL DEF SafeSpec

-------------------------------------------------------------------------------
(* epoll reported the connection's channel in the batch at hand. *)
Reported == \E i \in 1 .. Len(batch) : batch[i] = "conn"

(* The inductive invariant: EPOLLOUT without EPOLLHUP was reported of an   *)
(* established socket only, unless the batch is older than the socket.     *)
EstablishedInv ==
    /\ batch \in Seq({"timer", "conn"})
    /\ tcp \in {"est", "fin"} => ever
    /\ Reported /\ ~HangUp /\ ~stale /\ loop # "poll" => ever
    /\ ConnectedIsEstablished

(* The initial state satisfies the invariant. *)
LEMMA EstablishedInit == Init => EstablishedInv
  BY DEF Init, EstablishedInv, Reported, ConnectedIsEstablished

(* What is left of the batch was reported with the rest. *)
LEMMA ReportedTail ==
    ASSUME batch \in Seq({"timer", "conn"}), batch # <<>>, batch' = Tail(batch)
    PROVE  /\ batch' \in Seq({"timer", "conn"})
           /\ Reported' => Reported
           /\ Head(batch) = "conn" => Reported
  BY DEF Reported

(* A batch of epoll_wait with the connection's channel in it has the       *)
(* events of that moment.                                                  *)
LEMMA PollReports ==
    ASSUME Poll, tcp \in {"est", "fin"} => ever
    PROVE  /\ batch' \in Seq({"timer", "conn"})
           /\ Reported' /\ ~HangUp' => ever
<1> DEFINE fired == (IF timer = "expired" THEN {"timer"} ELSE {})
                      \cup (IF reg /\ ready /\ Mask # {} THEN {"conn"} ELSE {})
<1>1. /\ batch' \in [1 .. 1 -> fired] \cup [1 .. 2 -> fired]
      /\ evts' = IF "conn" \in fired THEN Mask ELSE {}
  BY DEF Poll
<1>2. fired \subseteq {"timer", "conn"}
  OBVIOUS
<1>3. "conn" \in fired => Mask # {}
  OBVIOUS
<1> HIDE DEF fired
<1>4. batch' \in Seq(fired)
  BY <1>1, SeqDef, Zenon
<1>5. batch' \in Seq({"timer", "conn"})
  BY <1>2, <1>4, SeqMonotonic, Zenon
<1>6. ASSUME Reported', ~HangUp'
      PROVE  ever
  <2>1. "conn" \in fired
    BY <1>4, <1>6 DEF Reported
  <2>2. evts' = Mask /\ Mask # {}
    BY <1>1, <1>3, <2>1
  <2>3. Mask \cap {"Hup", "Err"} = {}
    BY <1>6, <2>2 DEF HangUp
  <2>4. tcp \in {"est", "fin"}
    BY <2>2, <2>3 DEF Mask
  <2> QED
    BY <2>4
<1> QED
  BY <1>5, <1>6

(* Every step of TcpClient preserves the invariant. *)
LEMMA EstablishedStep == EstablishedInv /\ [Next]_vars => EstablishedInv'
<1> SUFFICES ASSUME EstablishedInv, [Next]_vars
             PROVE  EstablishedInv'
  OBVIOUS
<1> USE DEF EstablishedInv
<1>1. CASE Connect
  <2>1. ~stale' => loop' = "poll"
    BY <1>1, Zenon DEF Connect
  <2> QED
    BY <1>1, <2>1 DEF Connect, ConnectedIsEstablished
<1>2. CASE Poll
  BY <1>2, PollReports, Zenon DEF Poll, kernel, object, history, ConnectedIsEstablished
<1>3. CASE HandleConnect
  <2>1. /\ batch' \in Seq({"timer", "conn"})
        /\ Reported' => Reported
        /\ Reported
    BY <1>3, ReportedTail DEF HandleConnect, Turn
  <2>2. ~HangUp /\ ~stale /\ loop = "handle"
    BY <1>3 DEF HandleConnect, Turn
  <2>3. ever
    BY <2>1, <2>2
  <2>4. ever' = ever
    BY <1>3 DEF HandleConnect, history
  <2> QED
    BY <2>1, <2>3, <2>4 DEF ConnectedIsEstablished
<1>4. CASE HandleHangUp
  <2>1. /\ batch' \in Seq({"timer", "conn"})
        /\ Reported' => Reported
    BY <1>4, ReportedTail DEF HandleHangUp, Turn
  <2>2. /\ UNCHANGED <<tcp, ever, evts, stale, loop>>
        /\ status_' = "kConnected" => status_ = "kConnected"
    BY <1>4 DEF HandleHangUp, Retry, NoRetry, OnConnectionFailure, kernel, history
  <2> QED
    BY <2>1, <2>2 DEF HangUp, ConnectedIsEstablished
<1>5. CASE OnTimer
  <2>1. /\ batch' \in Seq({"timer", "conn"})
        /\ Reported' => Reported
    BY <1>5, ReportedTail DEF OnTimer, Turn
  <2>2. UNCHANGED <<tcp, ever, evts, stale, status_>> /\ loop = "handle"
    BY <1>5 DEF OnTimer, Turn, kernel, object, history
  <2> QED
    BY <2>1, <2>2 DEF HangUp, ConnectedIsEstablished
<1>6. CASE UserConnect \/ LoopConnect
  <2>1. /\ UNCHANGED <<batch, evts, stale>>
        /\ loop' # "poll" => loop # "poll"
    BY <1>6 DEF UserConnect, LoopConnect
  <2>2. /\ ever => ever'
        /\ tcp' \in {"est", "fin"} => tcp \in {"est", "fin"} \/ ever'
        /\ status_' = "kConnected" => status_ = "kConnected"
    BY <1>6 DEF UserConnect, LoopConnect, TryConnect, Retry, NoRetry, OnConnectionFailure, kernel
  <2> QED
    BY <2>1, <2>2 DEF HangUp, Reported, ConnectedIsEstablished
<1>7. CASE \/ Register \/ SetChannelCallbacks \/ UserSetters \/ UserEnable \/ Disconnect
           \/ HandleStale \/ LoopSetters \/ LoopEnable \/ Expires \/ UNCHANGED vars
  <2>1. /\ UNCHANGED <<ever, evts, stale, batch>>
        /\ tcp' \in {"est", "fin"} => tcp \in {"est", "fin"}
        /\ loop' # "poll" => loop # "poll"
        /\ status_' = "kConnected" => status_ = "kConnected"
    BY <1>7 DEF Register, SetChannelCallbacks, UserSetters, UserEnable, Disconnect, HandleStale,
                LoopSetters, LoopEnable, Expires, vars, kernel, object, history
  <2> QED
    BY <2>1 DEF HangUp, Reported, ConnectedIsEstablished
<1>8. CASE Again
  BY <1>8 DEF Again, kernel, object, history, ConnectedIsEstablished
<1>9. CASE Established \/ Refused \/ PeerResets \/ PeerEnds
  BY <1>9 DEF Established, Refused, PeerResets, PeerEnds, object, history, HangUp, Reported,
              ConnectedIsEstablished
<1> QED
  BY <1>1, <1>2, <1>3, <1>4, <1>5, <1>6, <1>7, <1>8, <1>9 DEF Next, UserStep, LoopStep

(* The client counts as connected only if its socket was established:      *)
(* HandleEvents looks at EPOLLHUP before it calls HandleConnect.           *)
THEOREM ClientConnectedIsEstablished == SafeSpec => []ConnectedIsEstablished
<1>1. EstablishedInv => ConnectedIsEstablished
  BY DEF EstablishedInv
<1> QED
  BY <1>1, EstablishedInit, EstablishedStep, PTL DEF SafeSpec

-------------------------------------------------------------------------------
(* epoll reported the timer in the batch at hand. *)
TimerReported == \E i \in 1 .. Len(batch) : batch[i] = "timer"

(* The inductive invariant: only Retry sets the timer, only a Retry after  *)
(* the last leaves conn_ null, and a batch is older than a Connect only if *)
(* that is not the first.                                                  *)
EndsInv ==
    /\ CountTypes
    /\ connects \in Nat
    /\ batch \in Seq({"timer", "conn"})
    /\ connects = 0 => loop = "poll" /\ user = "idle" /\ ~reg /\ timer = "off"
    /\ timer # "off" => retry_ > 0
    /\ TimerReported /\ ~stale /\ loop # "poll" => retry_ > 0
    /\ Busy => retry_ > 0
    /\ conn_ \/ retry_ > MaxRetry \/ connects = 0
    /\ stale => connects > 1
    /\ EndsOnlyAfterHangUp

(* The initial state satisfies the invariant. *)
LEMMA EndsInit == Init => EndsInv
  BY DEF Init, EndsInv, CountTypes, TimerReported, Busy, EndsOnlyAfterHangUp

(* What is left of the batch was reported with the rest. *)
LEMMA TimerTail ==
    ASSUME batch \in Seq({"timer", "conn"}), batch # <<>>, batch' = Tail(batch)
    PROVE  /\ batch' \in Seq({"timer", "conn"})
           /\ TimerReported' => TimerReported
           /\ Head(batch) = "timer" => TimerReported
  BY DEF TimerReported

(* epoll_wait reports the timer only if it has expired. *)
LEMMA PollTimer ==
    ASSUME Poll
    PROVE  /\ batch' \in Seq({"timer", "conn"})
           /\ TimerReported' => timer = "expired"
<1> DEFINE fired == (IF timer = "expired" THEN {"timer"} ELSE {})
                      \cup (IF reg /\ ready /\ Mask # {} THEN {"conn"} ELSE {})
<1>1. batch' \in [1 .. 1 -> fired] \cup [1 .. 2 -> fired]
  BY DEF Poll
<1>2. fired \subseteq {"timer", "conn"}
  OBVIOUS
<1>3. "timer" \in fired => timer = "expired"
  OBVIOUS
<1> HIDE DEF fired
<1>4. batch' \in Seq(fired)
  BY <1>1, SeqDef, Zenon
<1>5. batch' \in Seq({"timer", "conn"})
  BY <1>2, <1>4, SeqMonotonic, Zenon
<1>6. TimerReported' => "timer" \in fired
  BY <1>4 DEF TimerReported
<1> QED
  BY <1>3, <1>5, <1>6

(* What Retry does to the state that the invariant is about. *)
LEMMA RetryEnds ==
    ASSUME CountTypes, Running, Retry
    PROVE  /\ retry_' = retry_ + 1
           /\ timer' \in {"off", "armed", "expired"}
           /\ conn_' = conn_ \/ retry_' > MaxRetry
           /\ end' = "no" \/ (end' = "null" /\ retry_' > MaxRetry)
  BY ClientAssumption DEF CountTypes, Running, Retry, OnConnectionFailure, SetInterval

(* Every step of TcpClient preserves the invariant. *)
LEMMA EndsStep == EndsInv /\ [Next]_vars => EndsInv'
<1> SUFFICES ASSUME EndsInv, [Next]_vars
             PROVE  EndsInv'
  OBVIOUS
<1> USE ClientAssumption DEF EndsInv, CountTypes
<1>1. CASE Connect
  <2>1. /\ ~stale' => loop' = "poll"
        /\ stale' => loop # "poll"
    BY <1>1, Zenon DEF Connect
  <2>2. /\ UNCHANGED <<loop, batch, end>> /\ end = "no"
        /\ retry_' = 0 /\ attempts' = 0 /\ timer' = "off" /\ user' = "register"
        /\ connects' = connects + 1
    BY <1>1 DEF Connect, NewConnector, Running
  <2>3. conn_'
    BY <1>1, Zenon DEF Connect
  <2> QED
    BY <2>1, <2>2, <2>3 DEF Busy, TimerReported, EndsOnlyAfterHangUp
<1>2. CASE Poll
  <2>1. /\ batch' \in Seq({"timer", "conn"})
        /\ TimerReported' => timer = "expired"
    BY <1>2, PollTimer
  <2>2. UNCHANGED <<retry_, attempts, timer, conn_, user, reg, stale, end, connects>>
    BY <1>2 DEF Poll, object, history
  <2>3. loop' = "handle" /\ (timer = "expired" \/ reg)
    BY <1>2 DEF Poll
  <2> QED
    BY <2>1, <2>2, <2>3 DEF Busy, EndsOnlyAfterHangUp
<1>3. CASE HandleHangUp
  <2>1. /\ batch' \in Seq({"timer", "conn"})
        /\ TimerReported' => TimerReported
        /\ Running /\ loop = "handle" /\ ~stale
    BY <1>3, TimerTail DEF HandleHangUp, Turn
  <2>2. UNCHANGED <<attempts, user, loop, stale, connects>>
    BY <1>3 DEF HandleHangUp, history
  <2>3. Retry \/ UNCHANGED <<retry_, timer, conn_, end>>
    BY <1>3 DEF HandleHangUp, NoRetry
  <2>4. connects # 0
    BY <2>1
  <2>5. CASE Retry
    <3>1. /\ retry_' = retry_ + 1
          /\ timer' \in {"off", "armed", "expired"}
          /\ conn_' = conn_ \/ retry_' > MaxRetry
          /\ end' = "no" \/ (end' = "null" /\ retry_' > MaxRetry)
      BY <2>1, <2>5, RetryEnds DEF CountTypes
    <3> QED
      BY <2>1, <2>2, <2>3, <2>4, <3>1 DEF Running, Busy, EndsOnlyAfterHangUp
  <2>6. CASE ~Retry
    BY <2>1, <2>2, <2>3, <2>4, <2>6 DEF Running, Busy, EndsOnlyAfterHangUp
  <2> QED
    BY <2>5, <2>6
<1>4. CASE HandleConnect
  <2>1. /\ batch' \in Seq({"timer", "conn"})
        /\ TimerReported' => TimerReported
        /\ Running /\ loop = "handle" /\ ~stale
    BY <1>4, TimerTail DEF HandleConnect, Turn
  <2>2. UNCHANGED <<attempts, user, loop, stale, connects>>
    BY <1>4 DEF HandleConnect, history
  <2>3. \/ Retry
        \/ UNCHANGED <<retry_, timer, conn_>> /\ end' = (IF conn_ THEN end ELSE "null")
        \/ UNCHANGED <<retry_, timer, conn_, end>>
    BY <1>4 DEF HandleConnect, NoRetry
  <2>4. connects # 0
    BY <2>1
  <2>5. CASE Retry
    <3>1. /\ retry_' = retry_ + 1
          /\ timer' \in {"off", "armed", "expired"}
          /\ conn_' = conn_ \/ retry_' > MaxRetry
          /\ end' = "no" \/ (end' = "null" /\ retry_' > MaxRetry)
      BY <2>1, <2>5, RetryEnds DEF CountTypes
    <3> QED
      BY <2>1, <2>2, <2>3, <2>4, <3>1 DEF Running, Busy, EndsOnlyAfterHangUp
  <2>6. CASE ~Retry
    BY <2>1, <2>2, <2>3, <2>4, <2>6 DEF Running, Busy, EndsOnlyAfterHangUp
  <2> QED
    BY <2>5, <2>6
<1>5. CASE OnTimer
  <2>1. /\ batch' \in Seq({"timer", "conn"})
        /\ TimerReported' => TimerReported
        /\ TimerReported
        /\ Running /\ loop = "handle" /\ ~stale
    BY <1>5, TimerTail DEF OnTimer, Turn
  <2>2. UNCHANGED <<retry_, attempts, conn_, user, reg, stale, connects>>
    BY <1>5 DEF OnTimer, object, history
  <2>3. /\ timer' \in {"off", timer}
        /\ loop' \in {"setters", "handle"}
        /\ end' \in {"no", "exit"}
    BY <1>5, <2>1 DEF OnTimer, Running
  <2>4. connects # 0 /\ retry_ > 0
    BY <2>1
  <2> QED
    BY <2>1, <2>2, <2>3, <2>4 DEF Busy, EndsOnlyAfterHangUp
<1>6. CASE UserConnect
  <2>1. /\ UNCHANGED <<batch, loop, stale, connects>>
        /\ user = "connect" /\ user' = "idle" /\ Running
        /\ attempts' = attempts + 1
    BY <1>6 DEF UserConnect, TryConnect
  <2>2. Retry \/ UNCHANGED <<retry_, timer, conn_, end>>
    BY <1>6 DEF UserConnect, TryConnect, NoRetry
  <2>3. connects # 0
    BY <2>1
  <2>4. CASE Retry
    <3>1. /\ retry_' = retry_ + 1
          /\ timer' \in {"off", "armed", "expired"}
          /\ conn_' = conn_ \/ retry_' > MaxRetry
          /\ end' = "no" \/ (end' = "null" /\ retry_' > MaxRetry)
      BY <2>1, <2>4, RetryEnds DEF CountTypes
    <3> QED
      BY <2>1, <2>2, <2>3, <3>1 DEF Running, Busy, TimerReported, EndsOnlyAfterHangUp
  <2>5. CASE ~Retry
    BY <2>1, <2>2, <2>3, <2>5 DEF Running, Busy, TimerReported, EndsOnlyAfterHangUp
  <2> QED
    BY <2>4, <2>5
<1>7. CASE LoopConnect
  <2>1. /\ UNCHANGED <<batch, user, stale, connects>>
        /\ loop = "connect" /\ ~stale /\ loop' = "handle" /\ Running
        /\ attempts' = attempts + 1
    BY <1>7 DEF LoopConnect, TryConnect
  <2>2. Retry \/ UNCHANGED <<retry_, timer, conn_, end>>
    BY <1>7 DEF LoopConnect, TryConnect, NoRetry
  <2>3. connects # 0
    BY <2>1
  <2>4. CASE Retry
    <3>1. /\ retry_' = retry_ + 1
          /\ timer' \in {"off", "armed", "expired"}
          /\ conn_' = conn_ \/ retry_' > MaxRetry
          /\ end' = "no" \/ (end' = "null" /\ retry_' > MaxRetry)
      BY <2>1, <2>4, RetryEnds DEF CountTypes
    <3> QED
      BY <2>1, <2>2, <2>3, <3>1 DEF Running, Busy, TimerReported, EndsOnlyAfterHangUp
  <2>5. CASE ~Retry
    BY <2>1, <2>2, <2>3, <2>5 DEF Running, Busy, TimerReported, EndsOnlyAfterHangUp
  <2> QED
    BY <2>4, <2>5
<1>8. CASE UserEnable \/ LoopEnable
  <2>1. UNCHANGED <<batch, stale, connects, attempts, retry_, timer, conn_, reg>> /\ Running
    BY <1>8 DEF UserEnable, LoopEnable, object, history
  <2>2. \/ user = "enable" /\ user' = "connect" /\ loop' = loop
        \/ loop = "enable" /\ ~stale /\ loop' = "connect" /\ user' = user
    BY <1>8 DEF UserEnable, LoopEnable
  <2>3. end' = IF reg THEN end ELSE "exit"
    BY <1>8 DEF UserEnable, LoopEnable, EnableWrite
  <2> QED
    BY <2>1, <2>2, <2>3 DEF Running, Busy, TimerReported, EndsOnlyAfterHangUp
<1>9. CASE HandleStale
  BY <1>9 DEF HandleStale, object, history, Busy, TimerReported, EndsOnlyAfterHangUp
<1>10. CASE Register \/ SetChannelCallbacks \/ UserSetters \/ Disconnect
  <2>1. /\ UNCHANGED <<batch, loop, stale, connects, attempts, retry_, timer, conn_, end>>
        /\ Running
    BY <1>10 DEF Register, SetChannelCallbacks, UserSetters, Disconnect, object, history
  <2>2. \/ user # "idle" /\ user' \in {"callbacks", "setters", "enable"}
        \/ UNCHANGED <<user, reg>>
    BY <1>10 DEF Register, SetChannelCallbacks, UserSetters, Disconnect
  <2> QED
    BY <2>1, <2>2 DEF Running, Busy, TimerReported, EndsOnlyAfterHangUp
<1>11. CASE Again \/ LoopSetters
  <2>1. /\ UNCHANGED <<batch, user, reg, connects, attempts, retry_, timer, conn_, end>>
        /\ loop # "poll" /\ Running
    BY <1>11 DEF Again, LoopSetters, object, history
  <2>2. \/ loop' = "poll" /\ ~stale'
        \/ loop = "setters" /\ ~stale /\ loop' = "enable" /\ stale' = stale
    BY <1>11 DEF Again, LoopSetters
  <2> QED
    BY <2>1, <2>2 DEF Running, Busy, TimerReported, EndsOnlyAfterHangUp
<1>12. CASE Established \/ Refused \/ PeerResets \/ PeerEnds \/ Expires \/ UNCHANGED vars
  <2>1. /\ UNCHANGED <<batch, user, loop, stale, reg, connects, attempts, retry_, conn_, end>>
        /\ timer' = timer \/ (timer = "armed" /\ timer' = "expired")
    BY <1>12 DEF Established, Refused, PeerResets, PeerEnds, Expires, vars, object, history
  <2> QED
    BY <2>1 DEF Busy, TimerReported, EndsOnlyAfterHangUp
<1> QED
  BY <1>1, <1>2, <1>3, <1>4, <1>5, <1>6, <1>7, <1>8, <1>9, <1>10, <1>11, <1>12, Zenon
     DEF Next, UserStep, LoopStep

(* The process ends only by a hang-up during Connect or after a Retry, at  *)
(* a null conn_ only after the last Retry, and in a destroyed object only  *)
(* after a second Connect, for every max_retry_ and number of Connects.    *)
THEOREM ClientEndsOnlyAfterHangUp == SafeSpec => []EndsOnlyAfterHangUp
<1>1. EndsInv => EndsOnlyAfterHangUp
  BY DEF EndsInv
<1> QED
  BY <1>1, EndsInit, EndsStep, PTL DEF SafeSpec

-------------------------------------------------------------------------------
(* The type invariant, the flags apart from the rest. *)
FlagTypes == {serr, open, reg, ready, conn_, stale, ever, disconnected} \subseteq BOOLEAN

DataTypes ==
    /\ CountTypes
    /\ tcp \in {"closed", "syn", "est", "fin"}
    /\ ss \in {"unconnected", "connecting", "connected"}
    /\ status_ \in {"kDisconnected", "kConnecting", "kConnected"}
    /\ cbs \in {"none", "connection", "connector"}
    /\ retry_timeout_ \in 0 .. Modulus - 1
    /\ batch \in Seq({"timer", "conn"})
    /\ evts \subseteq {"Hup", "Err", "Out"}
    /\ end \in {"no", "exit", "null", "freed"}
    /\ connects \in 0 .. MaxConnects

(* What the proofs need to know of 2^16. *)
LEMMA ModulusType == Modulus \in Nat /\ Modulus > 5
  BY SMT DEF Modulus

(* A doubled retry_timeout_ is cut to 16 bits. *)
LEMMA Doubled ==
    ASSUME NEW n \in 0 .. Modulus - 1
    PROVE  (2 * n) % Modulus \in 0 .. Modulus - 1
<1>1. \A m \in Nat : m > 5 => \A k \in Nat : (2 * k) % m \in 0 .. m - 1
  BY SMT
<1> QED BY <1>1, ModulusType

(* What Retry may change keeps its type. *)
LEMMA RetryTypes ==
    ASSUME FlagTypes, DataTypes, Retry \/ NoRetry
    PROVE  /\ {open', reg', conn_'} \subseteq BOOLEAN
           /\ retry_' \in Nat
           /\ retry_timeout_' \in 0 .. Modulus - 1
           /\ timer' \in {"off", "armed", "expired"}
           /\ status_' \in {"kDisconnected", "kConnecting", "kConnected"}
           /\ end' \in {"no", "exit", "null", "freed"}
<1> USE DEF Retry, NoRetry, OnConnectionFailure
<1>1. {open', reg', conn_'} \subseteq BOOLEAN
  BY Zenon DEF FlagTypes
<1>2. retry_' \in Nat
  BY DEF DataTypes, CountTypes
<1>3. retry_timeout_' \in 0 .. Modulus - 1
  <2>1. retry_timeout_' = retry_timeout_ \/ retry_timeout_' = (2 * retry_timeout_) % Modulus
    OBVIOUS
  <2>2. retry_timeout_ \in 0 .. Modulus - 1
    BY DEF DataTypes
  <2> QED BY <2>1, <2>2, Doubled, Zenon
<1>4. timer' \in {"off", "armed", "expired"}
  BY DEF SetInterval, DataTypes, CountTypes
<1>5. status_' \in {"kDisconnected", "kConnecting", "kConnected"}
  BY DEF DataTypes
<1>6. end' \in {"no", "exit", "null", "freed"}
  BY DEF DataTypes
<1> QED BY <1>1, <1>2, <1>3, <1>4, <1>5, <1>6

(* So does what connect() may change. *)
LEMMA TryConnectTypes ==
    ASSUME FlagTypes, DataTypes, TryConnect
    PROVE  /\ {serr', ready', ever'} \subseteq BOOLEAN
           /\ tcp' \in {"closed", "syn", "est", "fin"}
           /\ ss' \in {"unconnected", "connecting", "connected"}
           /\ attempts' \in Nat
           /\ Retry \/ NoRetry
<1>1. Retry \/ NoRetry
  BY DEF TryConnect
<1>2. {serr', ready', ever'} \subseteq BOOLEAN
  BY Zenon DEF TryConnect, FlagTypes, kernel
<1>3. tcp' \in {"closed", "syn", "est", "fin"} /\ ss' \in {"unconnected", "connecting", "connected"}
  BY DEF TryConnect, DataTypes, kernel
<1>4. attempts' \in Nat
  BY DEF TryConnect, DataTypes, CountTypes
<1> QED
  BY <1>1, <1>2, <1>3, <1>4

(* Every step of TcpClient keeps the flags Boolean, ... *)
LEMMA FlagStep == FlagTypes /\ DataTypes /\ [Next]_vars => FlagTypes'
<1> SUFFICES ASSUME FlagTypes, DataTypes, [Next]_vars
             PROVE  FlagTypes'
  OBVIOUS
<1> USE DEF FlagTypes, kernel, object, history
<1>1. CASE Connect
  <2>1. stale' \in BOOLEAN
    BY <1>1, Zenon DEF Connect
  <2> QED BY <1>1, <2>1, Zenon DEF Connect
<1>2. CASE UserConnect \/ LoopConnect
  <2>1. TryConnect /\ UNCHANGED <<stale, disconnected>>
    BY <1>2 DEF UserConnect, LoopConnect
  <2>2. Retry \/ NoRetry
    BY <2>1, TryConnectTypes
  <2> QED BY <2>1, <2>2, TryConnectTypes, RetryTypes
<1>3. CASE Register \/ SetChannelCallbacks \/ UserSetters \/ UserEnable \/ Disconnect
  BY <1>3, Zenon DEF Register, SetChannelCallbacks, UserSetters, UserEnable, Disconnect, EnableWrite
<1>4. CASE Poll \/ Again \/ HandleStale \/ LoopSetters \/ LoopEnable \/ OnTimer
  BY <1>4, Zenon DEF Poll, Again, HandleStale, LoopSetters, LoopEnable, OnTimer, EnableWrite
<1>5. CASE HandleHangUp
  <2>1. CASE cbs = "connection"
    BY <1>5, <2>1, Zenon DEF HandleHangUp
  <2>2. CASE cbs # "connection"
    <3>1. /\ Retry \/ NoRetry
          /\ UNCHANGED <<serr, stale, ever, disconnected>>
      BY <1>5, <2>2 DEF HandleHangUp
    <3>2. ready' = (ready /\ reg') \/ ready' = ready
      BY <1>5, <2>2, Zenon DEF HandleHangUp
    <3>3. {open', reg', conn_'} \subseteq BOOLEAN
      BY <3>1, RetryTypes
    <3>4. ready' \in BOOLEAN
      BY <3>2, <3>3, Zenon
    <3> QED BY <3>1, <3>3, <3>4
  <2> QED BY <2>1, <2>2
<1>6. CASE HandleConnect
  <2>1. CASE cbs = "connector" /\ ~serr
    BY <1>6, <2>1, Zenon DEF HandleConnect
  <2>2. CASE ~(cbs = "connector" /\ ~serr)
    <3>1. /\ Retry \/ NoRetry
          /\ serr' \in BOOLEAN
          /\ UNCHANGED <<ready, stale, ever, disconnected>>
      BY <1>6, <2>2, Zenon DEF HandleConnect
    <3> QED BY <3>1, RetryTypes
  <2> QED BY <2>1, <2>2
<1>7. CASE Established \/ Refused \/ PeerResets \/ PeerEnds \/ Expires
  BY <1>7, Zenon DEF Established, Refused, PeerResets, PeerEnds, Expires
<1>8. CASE UNCHANGED vars
  BY <1>8 DEF vars
<1> QED
  BY <1>1, <1>2, <1>3, <1>4, <1>5, <1>6, <1>7, <1>8 DEF Next, UserStep, LoopStep

(* ... and the rest within its type. *)
LEMMA DataStep == FlagTypes /\ DataTypes /\ [Next]_vars => DataTypes'
<1> SUFFICES ASSUME FlagTypes, DataTypes, [Next]_vars
             PROVE  DataTypes'
  OBVIOUS
<1> USE DEF DataTypes, CountTypes, kernel, object, history
<1>0. Mask \subseteq {"Hup", "Err", "Out"}
  BY DEF Mask
<1>1. CASE Connect
  <2>1. retry_timeout_' \in 0 .. Modulus - 1
    BY <1>1, ClientAssumption, ModulusType DEF Connect, NewConnector
  <2>2. connects' \in 0 .. MaxConnects
    BY <1>1, ClientAssumption DEF Connect
  <2> QED BY <1>1, <2>1, <2>2 DEF Connect, NewConnector
<1>2. CASE UserConnect \/ LoopConnect
  <2>1. /\ TryConnect /\ UNCHANGED <<cbs, batch, evts, connects>>
        /\ (user' = "idle" /\ loop' = loop) \/ (user' = user /\ loop' = "handle")
    BY <1>2 DEF UserConnect, LoopConnect
  <2>2. Retry \/ NoRetry
    BY <2>1, TryConnectTypes
  <2> QED BY <2>1, <2>2, TryConnectTypes, RetryTypes
<1>3. CASE Register \/ SetChannelCallbacks \/ UserSetters
  BY <1>3, Zenon DEF Register, SetChannelCallbacks, UserSetters, SetConnectorCallbacks
<1>4. CASE UserEnable \/ Disconnect
  <2>1. CASE UserEnable
    <3>1. user' = "connect" /\ (end' = end \/ end' = "exit")
      BY <2>1 DEF UserEnable, EnableWrite
    <3> QED BY <2>1, <3>1 DEF UserEnable
  <2>2. CASE Disconnect
    BY <2>2 DEF Disconnect
  <2> QED BY <1>4, <2>1, <2>2
<1>5. CASE Poll
  <2>1. batch' \in Seq({"timer", "conn"})
    BY <1>5, PollTimer
  <2>2. evts' \subseteq {"Hup", "Err", "Out"}
    BY <1>0, <1>5 DEF Poll
  <2>3. loop' = "handle" /\ UNCHANGED <<kernel, timer, object, user, end, history>>
    BY <1>5 DEF Poll
  <2> QED BY <2>1, <2>2, <2>3
<1>6. CASE Again \/ HandleStale \/ LoopSetters \/ LoopEnable
  BY <1>6, Zenon DEF Again, HandleStale, LoopSetters, LoopEnable, SetConnectorCallbacks, EnableWrite
<1>7. CASE OnTimer
  <2>1. batch' \in Seq({"timer", "conn"})
    BY <1>7, TimerTail DEF OnTimer, Turn
  <2> QED BY <1>7, <2>1 DEF OnTimer
<1>8. CASE HandleHangUp
  <2>1. batch' \in Seq({"timer", "conn"})
    BY <1>8, TimerTail DEF HandleHangUp, Turn
  <2>2. UNCHANGED <<tcp, ss, cbs, user, loop, evts, connects, attempts>>
    BY <1>8 DEF HandleHangUp
  <2>3. Retry \/ NoRetry \/ UNCHANGED <<retry_, timer, retry_timeout_, status_, end>>
    BY <1>8 DEF HandleHangUp
  <2> QED BY <2>1, <2>2, <2>3, RetryTypes
<1>9. CASE HandleConnect
  <2>1. batch' \in Seq({"timer", "conn"})
    BY <1>9, TimerTail DEF HandleConnect, Turn
  <2>2. UNCHANGED <<tcp, ss, user, loop, evts, connects, attempts>>
    BY <1>9 DEF HandleConnect
  <2>3. CASE cbs = "connector" /\ ~serr
    <3>1. /\ status_' = "kConnected" /\ cbs' = "connection"
          /\ end' = end \/ end' = "null"
          /\ UNCHANGED <<retry_, timer, retry_timeout_>>
      BY <1>9, <2>3 DEF HandleConnect
    <3> QED BY <2>1, <2>2, <3>1
  <2>4. CASE ~(cbs = "connector" /\ ~serr)
    <3>1. (Retry \/ NoRetry) /\ cbs' = cbs
      BY <1>9, <2>4 DEF HandleConnect
    <3> QED BY <2>1, <2>2, <3>1, RetryTypes
  <2> QED BY <2>3, <2>4
<1>10. CASE Established \/ Refused \/ PeerResets \/ PeerEnds \/ Expires
  BY <1>10, Zenon DEF Established, Refused, PeerResets, PeerEnds, Expires
<1>11. CASE UNCHANGED vars
  BY <1>11 DEF vars
<1> QED
  BY <1>1, <1>2, <1>3, <1>4, <1>5, <1>6, <1>7, <1>8, <1>9, <1>10, <1>11
     DEF Next, UserStep, LoopStep

(* Every variable keeps its type: retry_timeout_, doubled at every Retry,  *)
(* stays within 16 bits, and the process ends in one of the known ways.    *)
THEOREM ClientTypeOK == SafeSpec => []TypeOK
<1>1. Init => FlagTypes
  BY Zenon DEF Init, FlagTypes
<1>2. Init => DataTypes
  <2>1. InitialTimeout \in 0 .. Modulus - 1
    BY ClientAssumption, ModulusType
  <2>2. 0 \in 0 .. MaxConnects
    BY ClientAssumption
  <2> QED BY <2>1, <2>2 DEF Init, DataTypes, CountTypes
<1>3. FlagTypes /\ DataTypes => TypeOK
  BY DEF FlagTypes, DataTypes, CountTypes, TypeOK
<1> QED
  BY <1>1, <1>2, <1>3, FlagStep, DataStep, PTL DEF SafeSpec
===============================================================================
