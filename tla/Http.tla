--------------------------------- MODULE Http ---------------------------------
(***************************************************************************)
(* The HTTP example on a connection that sends files: HttpCodec parses the *)
(* requests in the read buffer, HttpServer and the GET handler of          *)
(* server.cpp choose the reply, and the reply goes to the FileBuffer.  The *)
(* loop's thread reads and queues a task; a worker, one at a time by the   *)
(* connection's callback lock, runs it and sends.                          *)
(*                                                                         *)
(* A request is known by where it fails: a header line without a colon, a  *)
(* start line without three fields, an unknown method, a target without a  *)
(* slash, a method without a callback, or a GET.  A status that a handler  *)
(* leaves uninitialised is any: kOk, another one (error), or one that is   *)
(* not in the table (none); a length it leaves uninitialised is -1.        *)
(***************************************************************************)
EXTENDS FileBuffer

CONSTANTS
    Requests,     \* [kind, head, http10, accepts, compressible, size, body]: head is the length
                  \* of the lines up to the empty one, size that of the file or -1, body the
                  \* Content-Length or -1
    Threshold,    \* kCompressibleFileSizeThreshold
    Scripts       \* bound: the sequences of requests that a client may send

ASSUME HttpAssumption ==
    /\ \A r \in Requests : /\ r.head \in Nat \ {0}
                           /\ r.size \in Nat \cup {-1} /\ r.body \in Nat \cup {-1}
                           /\ {r.http10, r.accepts, r.compressible} \subseteq BOOLEAN
    /\ SocketRoom \in Nat /\ Threshold \in Nat

VARIABLES
    requests,    \* history: the requests sent
    inbound,     \* bytes sent and not yet read from the socket
    httpBuffer,  \* the readable bytes of the read buffer
    readTasks,   \* queued read tasks of working_threads_
    owe10,       \* OnClientMessage is yet to call ShutDownWrite
    replies,     \* history: the request of each reply, and whether Send took it
    crowded      \* history: a request was sent before the one before it was answered

httpVars == <<requests, inbound, httpBuffer, readTasks, owe10, replies, crowded>>

HttpInit ==
    /\ FileBufferInit
    /\ requests = <<>> /\ inbound = <<>> /\ httpBuffer = <<>> /\ readTasks = 0 /\ owe10 = FALSE
    /\ replies = <<>> /\ crowded = FALSE

Bytes(i, n) == [j \in 1 .. n |-> <<i, j>>]

HttpClientSends(r) ==
    /\ ~fbExited /\ ~fbClosed /\ ~finIn /\ reset = "no"
    /\ requests' = Append(requests, r) /\ requests' \in Scripts
    /\ inbound' = inbound \o Bytes(Len(requests'), r.head + IF r.body > 0 THEN r.body ELSE 0)
    /\ crowded' = (crowded \/ Len(requests) > Len(replies))
    /\ UNCHANGED <<fbVars, httpBuffer, readTasks, owe10, replies>>

-------------------------------------------------------------------------------
(* HttpRequest::HandleMessage *)
HandleMessage(r) ==
    CASE r.kind \in {"badLine", "badTarget"} -> "kBadRequest"
      [] r.kind = "unknownMethod" -> "kMethodNotAllowed"
      [] OTHER -> "kOk"

(* HttpMessage::ParseMessage on a buffer that starts with request r.  A    *)
(* header line without a colon leaves the length at 0.                     *)
Mut_ParseIgnoresBody(r, n) ==
    CASE n < r.head -> [status |-> "incomplete", length |-> 0]
      [] OTHER -> [status |-> HandleMessage(r), length |-> r.head]
Mut_ParseWaitsForMore(r, n) ==
    IF n < r.head THEN [status |-> "incomplete", length |-> 0]
    ELSE IF r.kind = "noColon" THEN [status |-> "kBadRequest", length |-> 0]
    ELSE IF r.body >= n - r.head THEN [status |-> "incomplete", length |-> 0]
    ELSE [status |-> HandleMessage(r), length |-> r.head + IF r.body > 0 THEN r.body ELSE 0]
ParseMessage(r, n) ==
    CASE n < r.head -> [status |-> "incomplete", length |-> 0]
      [] n >= r.head /\ r.kind = "noColon" -> [status |-> "kBadRequest", length |-> 0]
      [] n >= r.head /\ r.kind # "noColon" /\ r.body > n - r.head ->
            [status |-> "incomplete", length |-> 0]
      [] OTHER -> [status |-> HandleMessage(r),
                   length |-> r.head + IF r.body > 0 THEN r.body ELSE 0]

(* HttpServer::OnMessage finds the callback by method_, which only a known *)
(* method sets; without a callback the length stays unset.                 *)
Registered(r) ==
    CASE r.kind = "get" -> {TRUE} [] r.kind = "notImplemented" -> {FALSE} [] OTHER -> BOOLEAN

(* HandleHttpGet: for a good request it sets status, length and encoding;  *)
(* for a bad one it leaves the response as it is (uri_ is empty, so that   *)
(* no file is found, and the encoding changes only the unset length).      *)
Compresses(r) == r.accepts /\ r.compressible /\ r.size > Threshold

Response(status, gzip, length, size) ==
    [status |-> status, gzip |-> gzip, length |-> length, size |-> size]

Responses(r, status) ==
    IF status # "kOk" THEN {Response(any, FALSE, -1, -1) : any \in {"kOk", "error", "none"}}
    ELSE IF r.size >= 0 THEN {Response("kOk", Compresses(r), r.size, r.size)}
    ELSE {Response("error", FALSE, 0, -1)}

HttpOnMessage(r, status) ==
    UNION {IF registered THEN Responses(r, status) ELSE {Response("error", FALSE, -1, -1)}
           : registered \in Registered(r)}

(* ComposeHeaders: nothing for a status that is not in the table. *)
PrepareMessage(status) == status # "none"
ComposeHeaders(i, status, length) ==
    IF PrepareMessage(status) THEN <<[reply |-> i, status |-> status, length |-> length]>> ELSE <<>>

Payload(i, what, n) == [j \in 1 .. n |-> [reply |-> i, status |-> what, length |-> j]]

(* The end of OnClientMessage: a compressed file follows its header in one *)
(* string (here one byte long), another file is sent by SendFile.          *)
Mut_ReplyFileLength(i, c) ==
    IF c.status = "kOk" /\ c.gzip
    THEN SendFile(ComposeHeaders(i, c.status, c.length) \o Payload(i, "gzip", 1), FALSE, <<>>)
    ELSE SendFile(ComposeHeaders(i, c.status, c.length), c.status = "kOk" /\ c.size >= 0,
                 Payload(i, "file", c.size))
Reply(i, c) ==
    LET deflated == IF c.size > 0 THEN 1 ELSE 0 IN
    IF c.status = "kOk" /\ c.gzip
    THEN SendFile(ComposeHeaders(i, c.status, deflated) \o Payload(i, "gzip", deflated), FALSE, <<>>)
    ELSE SendFile(ComposeHeaders(i, c.status, c.length), c.status = "kOk" /\ c.size >= 0,
                 Payload(i, "file", c.size))

(* Connection::OnReadCallback on the loop's thread: ReadBuffer takes n     *)
(* bytes and stops at EAGAIN, at the FIN, which sets shut_down_, or at a   *)
(* RST, which closes at once.  Whatever is in the read buffer, a task is   *)
(* queued for it, after shut_down_ was set.                                *)
OnReadCallback(n, end) ==
    /\ LoopIdle /\ ~fbShut
    /\ httpBuffer' = httpBuffer \o SubSeq(inbound, 1, n)
    /\ inbound' = SubSeq(inbound, n + 1, Len(inbound))
    /\ \/ /\ end = "again" /\ n > 0 /\ reset = "no" /\ readTasks' = readTasks + 1
          /\ UNCHANGED <<flushing, fbShut, fbClosed, shutWr, reset>>
       \/ /\ end = "fin" /\ finIn /\ n = Len(inbound) /\ reset = "no"
          /\ fbShut' = TRUE /\ Goto("loop", "fin")
          /\ readTasks' = readTasks + IF httpBuffer' = <<>> THEN 0 ELSE 1
          /\ UNCHANGED <<fbClosed, shutWr, reset>>
       \/ /\ end = "reset" /\ reset = "pending" /\ reset' = "told"
          /\ fbShut' = TRUE /\ fbClosed' = TRUE /\ shutWr' = TRUE
          /\ UNCHANGED <<flushing, readTasks>>
    /\ UNCHANGED <<fbObject, torn, ret, entry, armed, fbExited, wire, sockRoom, finIn, fbHistory>>
    /\ UNCHANGED <<requests, owe10, replies, crowded>>

(* A worker with the callback lock: OnClientMessage answers at most one    *)
(* request.  (A Peek that meets the loop's Write is in ReadPath.)          *)
OnClientMessage ==
    LET i == httpBuffer[1][1]
        parsed == IF httpBuffer = <<>> THEN [status |-> "incomplete", length |-> 0]
                  ELSE ParseMessage(requests[i], Len(httpBuffer))
    IN  /\ At("worker", "no") /\ ~owe10 /\ readTasks > 0
        /\ readTasks' = readTasks - 1
        /\ httpBuffer' = SubSeq(httpBuffer, parsed.length + 1, Len(httpBuffer))
        /\ IF parsed.status = "incomplete"
           THEN UNCHANGED <<fbVars, replies, owe10>>
           ELSE /\ \E c \in HttpOnMessage(requests[i], parsed.status) : Reply(i, c)
                /\ replies' = Append(replies, [request |-> i, sent |-> ~fbShut])
                /\ owe10' = (parsed.status = "kOk" /\ requests[i].http10)
        /\ UNCHANGED <<requests, inbound, crowded>>

(* HTTP/1.0: the write side is shut down once SendFile has returned. *)
HttpShutDownWrite ==
    /\ At("worker", "no") /\ owe10 /\ owe10' = FALSE /\ shutWr' = TRUE
    /\ UNCHANGED <<fbObject, torn, flushing, ret, entry, fbConn, wire, sockRoom, finIn, reset,
                   fbHistory, requests, inbound, httpBuffer, readTasks, replies, crowded>>

HttpWorker == OnClientMessage \/ HttpShutDownWrite \/ (SendStep /\ UNCHANGED httpVars)
HttpReads == \E n \in 0 .. Len(inbound), end \in {"again", "fin", "reset"} : OnReadCallback(n, end)
HttpLoop == FbLoopStep /\ UNCHANGED httpVars

HttpNext ==
    \/ \E r \in Requests : HttpClientSends(r)
    \/ HttpWorker \/ HttpReads \/ HttpLoop
    \/ (FbPeerReads \/ FbPeerStep) /\ UNCHANGED httpVars

HttpSpec == HttpInit /\ [][HttpNext]_<<fbVars, httpVars>>

(* The worker and the loop's thread run, epoll reports what it was asked   *)
(* for and the peer reads; nobody has to send, to leave or to change files. *)
HttpFairSpec ==
    /\ HttpSpec
    /\ WF_<<fbVars, httpVars>>(HttpWorker)
    /\ WF_<<fbVars, httpVars>>(HttpLoop) /\ WF_<<fbVars, httpVars>>(HttpReads)
    /\ WF_<<fbVars, httpVars>>(FbPeerReads /\ UNCHANGED httpVars)

-------------------------------------------------------------------------------
(* Requests are answered in order and once each, however they are cut,     *)
(* except one that ParseMessage rejects without consuming it: it is        *)
(* answered again at every read, and nothing behind it ever is.  A reply   *)
(* is dropped, and with it all that follow, only once the FIN was read:    *)
(* shut_down_ is set before the requests that came with the FIN are.       *)
OneReplyEach ==
    LET rest == httpBuffer \o inbound
        taken == IF rest = <<>> THEN Len(requests) ELSE rest[1][1] - 1
    IN  /\ rest # <<>> => rest[1][2] = 1
        /\ Len(replies) >= taken
        /\ \A j \in 1 .. Len(replies) : replies[j].request = IF j <= taken THEN j ELSE taken + 1
        /\ Len(replies) > taken => requests[taken + 1].kind = "noColon"
        /\ \A j \in 1 .. Len(replies) :
              ~replies[j].sent => fbShut /\ \A k \in j .. Len(replies) : ~replies[k].sent

(* The Content-Length of a GET's reply is the number of bytes after it: a  *)
(* client that counts finds the next reply where it is.                    *)
RepliesFramed ==
    \A p \in 1 .. Len(accepted) :
        LET h == accepted[p]
            IsHead(u) == u.status \notin {"file", "gzip"}
        IN  IsHead(h) /\ requests[h.reply].kind = "get" =>
              /\ p + h.length <= Len(accepted)
              /\ \A q \in p + 1 .. p + h.length : ~IsHead(accepted[q]) /\ accepted[q].reply = h.reply
              /\ p + h.length < Len(accepted) => IsHead(accepted[p + h.length + 1])

(* A client that waits for each reply before it asks again gets the head   *)
(* of every reply to a well-formed request, unless it leaves or the two    *)
(* threads meet in the FileBuffer or in EnableWrite.                       *)
Answered(i) == \E p \in 1 .. Len(wire) : wire[p].reply = i
RequestAnswered ==
    (\E i \in DOMAIN requests : ~Answered(i)) ~>
        \/ \A i \in DOMAIN requests : Answered(i)
        \/ crowded \/ \E i \in DOMAIN requests : requests[i].kind \notin {"get", "notImplemented"}
        \/ finIn \/ reset # "no" \/ shutWr \/ disk # "same" \/ torn \/ stale

===============================================================================
