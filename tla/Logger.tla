-------------------------------- MODULE Logger --------------------------------
(***************************************************************************)
(* ladder::Logger: threads queue lines, the logging thread writes them to  *)
(* the file, and release destroys it.  The logger is made by the first     *)
(* create or log line and is then the only one of the process.  release    *)
(* leaves instance_ set, so that a later log line uses a destroyed object: *)
(* the outcome is undefined, and the model stops there (wild).             *)
(***************************************************************************)
EXTENDS Naturals, Sequences, Functions

CONSTANTS
    LogWriters,  \* threads that log
    Lines,       \* the lines they log
    Loud         \* those whose severity is at least level_; each is logged once

ASSUME LoggerAssumption == Loud \subseteq Lines

VARIABLES
    logger,         \* what instance_ points to: "none", "alive" or "destroyed"
    logRunning,     \* running_
    message_queue,  \* message_queue_
    logThread,      \* ThreadFunc: "check" or "wait" on the condition, "write", "left"
    msg,            \* the line it has taken, as a sequence of at most one
    file,           \* the lines in the log file
    writer,         \* each thread's step in a log call, and its line
    releasing,      \* the step of the thread that calls release
    logged,         \* history: the lines queued, in order
    late,           \* history: a line was queued after running_ was cleared
    wild            \* history: a destroyed logger was used

logVars == <<logger, logRunning, message_queue, logThread, msg, file, writer,
             releasing, logged, late, wild>>

LogIdle == <<"idle">>

LogInit ==
    /\ logger = "none" /\ logRunning = FALSE /\ message_queue = <<>>
    /\ logThread = "left" /\ msg = <<>> /\ file = <<>>
    /\ writer = [w \in LogWriters |-> LogIdle]
    /\ releasing = "no" /\ logged = <<>> /\ late = FALSE /\ wild = FALSE

(* notify_one on condition_, which only ThreadFunc waits on. *)
Mut_NotifyNobody == logThread' = logThread
NotifyLogThread == logThread' = IF logThread = "wait" THEN "check" ELSE logThread

(* The constructor starts the thread. *)
NewLogger == logger' = "alive" /\ logRunning' = TRUE /\ logThread' = "check"

(* LOG_SEVERITY calls instance(), which returns instance_, or creates the  *)
(* one logger.                                                             *)
LogCall(w, l) ==
    /\ ~wild /\ writer[w] = LogIdle
    /\ l \notin Range(logged) /\ \A v \in LogWriters : writer[v] # <<"got", l>>
    /\ IF logger = "none" THEN NewLogger ELSE UNCHANGED <<logger, logRunning, logThread>>
    /\ writer' = [writer EXCEPT ![w] = <<"got", l>>]
    /\ UNCHANGED <<message_queue, msg, file, releasing, logged, late, wild>>

(* WriteLog and WriteLogFmt: a quiet line is dropped, a loud one queued. *)
WriteLog(w, l) ==
    /\ ~wild /\ writer[w] = <<"got", l>>
    /\ wild' = (logger = "destroyed")
    /\ IF logger = "alive" /\ l \in Loud
       THEN /\ message_queue' = Append(message_queue, l)
            /\ logged' = Append(logged, l)
            /\ late' = (late \/ ~logRunning)
            /\ writer' = [writer EXCEPT ![w] = <<"notify">>]
       ELSE /\ writer' = [writer EXCEPT ![w] = LogIdle]
            /\ UNCHANGED <<message_queue, logged, late>>
    /\ UNCHANGED <<logger, logRunning, logThread, msg, file, releasing>>

LogNotify(w) ==
    /\ ~wild /\ writer[w] = <<"notify">>
    /\ NotifyLogThread
    /\ writer' = [writer EXCEPT ![w] = LogIdle]
    /\ wild' = (logger = "destroyed")
    /\ UNCHANGED <<logger, logRunning, message_queue, msg, file, releasing, logged, late>>

(* ThreadFunc under the lock: wait, take a line, or leave.  It leaves only *)
(* when release has begun and the queue is empty.                          *)
Mut_LogTakeLeavesEarly ==
    /\ ~wild /\ logThread = "check"
    /\ logThread' = IF ~logRunning THEN "left"
                    ELSE IF message_queue = <<>> THEN "wait" ELSE "write"
    /\ msg' = IF logThread' = "write" THEN <<Head(message_queue)>> ELSE <<>>
    /\ message_queue' = IF logThread' = "write" THEN Tail(message_queue) ELSE message_queue
    /\ UNCHANGED <<logger, logRunning, file, writer, releasing, logged, late, wild>>
LogTake ==
    /\ ~wild /\ logThread = "check"
    /\ logThread' = IF message_queue # <<>> THEN "write" ELSE IF logRunning THEN "wait" ELSE "left"
    /\ msg' = IF message_queue # <<>> THEN <<Head(message_queue)>> ELSE <<>>
    /\ message_queue' = IF message_queue # <<>> THEN Tail(message_queue) ELSE <<>>
    /\ UNCHANGED <<logger, logRunning, file, writer, releasing, logged, late, wild>>

(* A condition variable may wake up by itself. *)
LogSpurious ==
    /\ ~wild /\ logThread = "wait" /\ logThread' = "check"
    /\ UNCHANGED <<logger, logRunning, message_queue, msg, file, writer, releasing, logged, late, wild>>

(* fprintf and fflush, outside the lock. *)
LogWrite ==
    /\ ~wild /\ logThread = "write"
    /\ file' = file \o msg /\ msg' = <<>> /\ logThread' = "check"
    /\ UNCHANGED <<logger, logRunning, message_queue, writer, releasing, logged, late, wild>>

(* release: the destructor clears running_, notifies, joins and closes.    *)
ReleaseStop ==
    /\ ~wild /\ releasing = "no" /\ logger = "alive"
    /\ logRunning' = FALSE /\ releasing' = "notify"
    /\ UNCHANGED <<logger, message_queue, logThread, msg, file, writer, logged, late, wild>>

ReleaseNotify ==
    /\ ~wild /\ releasing = "notify" /\ releasing' = "join"
    /\ NotifyLogThread
    /\ UNCHANGED <<logger, logRunning, message_queue, msg, file, writer, logged, late, wild>>

ReleaseJoin ==
    /\ ~wild /\ releasing = "join" /\ logThread = "left"
    /\ releasing' = "done" /\ logger' = "destroyed"
    /\ UNCHANGED <<logRunning, message_queue, logThread, msg, file, writer, logged, late, wild>>

LogThreadStep == LogTake \/ LogWrite
LogReleaseStep == ReleaseNotify \/ ReleaseJoin
LogWriterStep(w) == LogNotify(w) \/ \E l \in Lines : WriteLog(w, l)

LogNext ==
    \/ \E w \in LogWriters : LogWriterStep(w) \/ \E l \in Lines : LogCall(w, l)
    \/ LogThreadStep \/ LogSpurious \/ ReleaseStop \/ LogReleaseStep

LogSpec == LogInit /\ [][LogNext]_logVars

-------------------------------------------------------------------------------
(* The type invariant: a logger exists while its thread does. *)
LogTypeOK ==
    /\ logger \in {"none", "alive", "destroyed"}
    /\ {logRunning, late, wild} \subseteq BOOLEAN
    /\ {message_queue, msg, file, logged} \subseteq Seq(Loud)
    /\ logThread \in {"check", "wait", "write", "left"} /\ (logThread # "left" => logger = "alive")
    /\ writer \in [LogWriters -> {LogIdle, <<"notify">>} \cup ({"got"} \X Lines)]
    /\ releasing \in {"no", "notify", "join", "done"}

(* The logger is a FIFO executor of lines that closes only when each line  *)
(* is in the file: release drains the queue, unless a line came late.      *)
LineExecutor == INSTANCE TaskExecutor WITH
    Tasks <- Loud, submitted <- Range(logged), pending <- message_queue,
    running <- Range(msg), finished <- Range(file), closed <- (logger = "destroyed" /\ ~late)
LoggerDrains == LineExecutor!SafeSpec

(* The file holds the lines in the order in which they were queued. *)
FileInOrder == logged = file \o msg \o message_queue

(* The logger comes to rest: no notification is lost, so that every queued *)
(* line reaches the file, unless release overtook it, and release, whose   *)
(* thread waits for the logging thread, returns.                           *)
LoggerRests ==
    LET Resting == (logged = file \/ late) /\ releasing \in {"no", "done"}
    IN  ~Resting ~> Resting
===============================================================================
