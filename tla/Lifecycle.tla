----------------------------- MODULE Lifecycle ------------------------------
(***************************************************************************)
(* The server process from start to exit: run() of cmd/server/main.go, the *)
(* goroutine that runs HTTPAdapter.Run, the goroutine in it that listens,  *)
(* and the commands under way, which need the store and the database that  *)
(* run() closes on its way out.                                            *)
(*                                                                         *)
(* Each request is a command under an idempotency key of its own: acquire  *)
(* the key, insert the row, complete the key.  Each of the three may fail  *)
(* because the process has closed what it needs, or for reasons that have  *)
(* nothing to do with the process (those are the business of GameLog and   *)
(* HttpApi); fault tells the two apart.  The five seconds of the shutdown  *)
(* timeout are the fact that it may fire at any time while a connection is *)
(* open.                                                                   *)
(***************************************************************************)
CONSTANTS
    Nil,
    Requests    \* connections, each carrying one request at most

ASSUME LifecycleAssumption == Nil \notin {0, 1}

VARIABLES
    main,       \* run(): its place in the code
    opened,     \* what run() has opened and not closed again
    ctx,        \* the context of NotifyContext is cancelled
    notify,     \* signals are still diverted to the context
    adapter,    \* the goroutine around HTTPAdapter.Run: its place in the code
    result,     \* what HTTPAdapter.Run returns
    listener,   \* ListenAndServe, and once it has returned, with what
    reported,   \* errCh of run() holds an error
    request,    \* per request: its place in the code
    key,        \* per request: the status of its key in the store
    rows,       \* the requests whose row is stored
    fault,      \* history: per request, what made a call of it fail
    code        \* the exit code, once decided

vars == <<main, opened, ctx, notify, adapter, result, listener, reported,
          request, key, rows, fault, code>>

process == <<main, opened, ctx, notify, code>>
server == <<adapter, result, listener, reported>>
work == <<request, key, rows, fault>>

Running == {r \in Requests : request[r] \in {"acquire", "insert", "complete"}}

Open == Running \cup {r \in Requests : request[r] = "connected"}

(***************************************************************************)
(* Start-up.  Every error returns 1 and runs the deferred calls for what   *)
(* has been opened by then.                                                *)
(***************************************************************************)

\* Mutant: an error of start-up runs the deferred calls without a code.
MutStartFails ==
    /\ main \in {"config", "database", "store"}
    /\ main' = "closing"
    /\ UNCHANGED <<opened, ctx, notify, code>>
    /\ UNCHANGED <<server, work>>

\* config.Load, the ping of the database or the ping of the store fails, the
\* pings among other reasons because a signal has cancelled the context.
StartFails ==
    /\ main \in {"config", "database", "store"}
    /\ main' = "closing"
    /\ code' = 1
    /\ UNCHANGED <<opened, ctx, notify>>
    /\ UNCHANGED <<server, work>>

Load ==
    /\ main = "config"
    /\ main' = "database"
    /\ opened' = {"database"}
    /\ UNCHANGED <<ctx, notify, code>>
    /\ UNCHANGED <<server, work>>

PingDatabase ==
    /\ main = "database"
    /\ ~ ctx
    /\ main' = "store"
    /\ opened' = opened \cup {"store"}
    /\ UNCHANGED <<ctx, notify, code>>
    /\ UNCHANGED <<server, work>>

\* wg.Go: from here on the goroutine runs beside run(), which waits.
PingStore ==
    /\ main = "store"
    /\ ~ ctx
    /\ main' = "waiting"
    /\ adapter' = "serving"
    /\ listener' = "starting"
    /\ UNCHANGED <<opened, ctx, notify, code>>
    /\ UNCHANGED <<result, reported, work>>

(***************************************************************************)
(* The goroutine that listens.                                             *)
(***************************************************************************)

\* A listener that starts after Shutdown was called closes at once.
Listen ==
    /\ listener = "starting"
    /\ listener' = IF adapter = "serving" THEN "listening" ELSE "closed"
    /\ UNCHANGED <<adapter, result, reported, process, work>>

\* The address is taken, or Accept fails for good.
ListenFails ==
    /\ listener \in {"starting", "listening"}
    /\ listener' = "failed"
    /\ UNCHANGED <<adapter, result, reported, process, work>>

(***************************************************************************)
(* HTTPAdapter.Run and the goroutine around it.                            *)
(***************************************************************************)
Return(r) ==
    /\ adapter' = "returned"
    /\ result' = r

\* case err := <-errCh.  When both cases are ready, select takes either.
ReturnListenError ==
    /\ adapter = "serving"
    /\ listener = "failed"
    /\ Return("error")
    /\ UNCHANGED <<listener, reported, process, work>>

\* case <-ctx.Done(): Shutdown closes the listener, then waits.
BeginShutdown ==
    /\ adapter = "serving"
    /\ ctx
    /\ adapter' = "shutting"
    /\ listener' = IF listener = "listening" THEN "closed" ELSE listener
    /\ UNCHANGED <<result, reported, process, work>>

\* Closes the connections on which no request has begun.
Close == [r \in Requests |-> IF request[r] = "connected" THEN "closed" ELSE request[r]]

\* Shutdown returns once no request is running; no connection is left then.
Drained ==
    /\ adapter = "shutting"
    /\ Running = {}
    /\ adapter' = "drained"
    /\ request' = Close
    /\ UNCHANGED <<result, listener, reported, process, key, rows, fault>>

\* Mutants: Shutdown is given a context without a timeout; its error is
\* ignored.
MutShutdownNeverTimesOut == FALSE

MutShutdownTimesOut ==
    /\ adapter = "shutting"
    /\ Open # {}
    /\ adapter' = "drained"
    /\ UNCHANGED <<result, listener, reported, process, work>>

\* A connection without a request is closed only when it is old enough, so it
\* may keep Shutdown waiting as well.
ShutdownTimesOut ==
    /\ adapter = "shutting"
    /\ Open # {}
    /\ Return("error")
    /\ UNCHANGED <<listener, reported, process, work>>

\* return <-errCh
ReturnListenResult ==
    /\ adapter = "drained"
    /\ listener \in {"closed", "failed"}
    /\ Return(IF listener = "closed" THEN "ErrServerClosed" ELSE "error")
    /\ UNCHANGED <<listener, reported, process, work>>

\* errCh <- wrappedErr
Report ==
    /\ adapter = "returned"
    /\ result = "error"
    /\ reported' = TRUE
    /\ adapter' = "reported"
    /\ UNCHANGED <<result, listener, process, work>>

\* Mutant: the goroutine ends without stop().
MutStop ==
    /\ adapter = "reported"
    /\ adapter' = "done"
    /\ UNCHANGED <<result, listener, reported, process, work>>

\* stop() and the end of the goroutine.
Stop ==
    /\ adapter = "reported"
    /\ ctx' = TRUE
    /\ notify' = FALSE
    /\ adapter' = "done"
    /\ UNCHANGED <<main, opened, code, result, listener, reported, work>>

StoppedGracefully ==
    /\ adapter = "returned"
    /\ result = "ErrServerClosed"
    /\ adapter' = "done"
    /\ UNCHANGED <<result, listener, reported, process, work>>

(***************************************************************************)
(* run() once the goroutine has been started.                              *)
(***************************************************************************)
Done ==
    /\ main = "waiting"
    /\ ctx
    /\ main' = "joining"
    /\ UNCHANGED <<opened, ctx, notify, code, server, work>>

\* wg.Wait(), then the exit code is read off errCh.
Join ==
    /\ main = "joining"
    /\ adapter = "done"
    /\ main' = "closing"
    /\ code' = IF reported THEN 1 ELSE 0
    /\ UNCHANGED <<opened, ctx, notify, server, work>>

\* The deferred calls, last one first: the store, then the database.
CloseStore ==
    /\ main = "closing"
    /\ "store" \in opened
    /\ opened' = opened \ {"store"}
    /\ UNCHANGED <<main, ctx, notify, code, server, work>>

CloseDatabase ==
    /\ main = "closing"
    /\ opened = {"database"}
    /\ opened' = {}
    /\ UNCHANGED <<main, ctx, notify, code, server, work>>

\* The process is gone, with every request that is still running.
Cut == request' = [r \in Requests |-> IF r \in Running THEN "cut" ELSE Close[r]]

Exit ==
    /\ main = "closing"
    /\ opened = {}
    /\ main' = "exited"
    /\ Cut
    /\ UNCHANGED <<opened, ctx, notify, code, server, key, rows, fault>>

(***************************************************************************)
(* Signals.  Only os.Interrupt is diverted to the context, and only until  *)
(* stop(); any other one kills the process without a code of its own.      *)
(***************************************************************************)
Interrupt ==
    /\ main # "exited"
    /\ notify
    /\ ctx' = TRUE
    /\ UNCHANGED <<main, opened, notify, code, server, work>>

Kill ==
    /\ main # "exited"
    /\ main' = "exited"
    /\ code' = Nil
    /\ Cut
    /\ UNCHANGED <<opened, ctx, notify, server, key, rows, fault>>

(***************************************************************************)
(* Requests.                                                               *)
(***************************************************************************)
Goto(r, pc) == request' = [request EXCEPT ![r] = pc]

Cause(needed) == IF needed \in opened THEN "own" ELSE "closed"

Fail(r, cause) == fault' = [fault EXCEPT ![r] = IF @ = "closed" THEN @ ELSE cause]

Accept(r) ==
    /\ listener = "listening"
    /\ request[r] = "new"
    /\ main # "exited"
    /\ Goto(r, "connected")
    /\ UNCHANGED <<key, rows, fault, process, server>>

\* A connection once accepted may bring its request at any time until it is
\* closed, while Shutdown waits and after it has given up as well.
Arrive(r) ==
    /\ request[r] = "connected"
    /\ Goto(r, "acquire")
    /\ UNCHANGED <<key, rows, fault, process, server>>

Claim(r) == key' = [key EXCEPT ![r] = "IN_PROGRESS"]

Acquire(r) ==
    /\ request[r] = "acquire"
    /\ "store" \in opened
    /\ Claim(r)
    /\ Goto(r, "insert")
    /\ UNCHANGED <<rows, fault, process, server>>

\* The middleware answers 500.  A store that is open may have claimed the key
\* all the same.
AcquireFails(r) ==
    /\ request[r] = "acquire"
    /\ UNCHANGED key \/ ("store" \in opened /\ Claim(r))
    /\ Fail(r, Cause("store"))
    /\ Goto(r, "answered")
    /\ UNCHANGED <<rows, process, server>>

Insert(r) ==
    /\ request[r] = "insert"
    /\ "database" \in opened
    /\ rows' = rows \cup {r}
    /\ Goto(r, "complete")
    /\ UNCHANGED <<key, fault, process, server>>

\* The database is closed or busy, or the command is refused: the handler
\* answers with an error, which is cached like any other answer.
InsertFails(r) ==
    /\ request[r] = "insert"
    /\ Fail(r, Cause("database"))
    /\ Goto(r, "complete")
    /\ UNCHANGED <<key, rows, process, server>>

\* The handler panics or returns an error, before or after its insert, and
\* Complete is skipped.
HandlerFails(r) ==
    /\ request[r] \in {"insert", "complete"}
    /\ Fail(r, "own")
    /\ Goto(r, "answered")
    /\ UNCHANGED <<key, rows, process, server>>

Complete(r) ==
    /\ request[r] = "complete"
    /\ "store" \in opened
    /\ key' = [key EXCEPT ![r] = "COMPLETED"]
    /\ Goto(r, "answered")
    /\ UNCHANGED <<rows, fault, process, server>>

\* The store is closed or unreachable, or the client has hung up and the
\* context is cancelled: only logged, the key stays in progress.
CompleteFails(r) ==
    /\ request[r] = "complete"
    /\ Fail(r, Cause("store"))
    /\ Goto(r, "answered")
    /\ UNCHANGED <<key, rows, process, server>>

(***************************************************************************)
(* The specification.                                                      *)
(***************************************************************************)
Init ==
    /\ main = "config"
    /\ opened = {}
    /\ ctx = FALSE
    /\ notify = TRUE
    /\ adapter = "none"
    /\ result = "none"
    /\ listener = "none"
    /\ reported = FALSE
    /\ request = [r \in Requests |-> "new"]
    /\ key = [r \in Requests |-> ""]
    /\ rows = {}
    /\ fault = [r \in Requests |-> "none"]
    /\ code = Nil

MainStep ==
    /\ main # "exited"
    /\ StartFails \/ Load \/ PingDatabase \/ PingStore
        \/ Done \/ Join \/ CloseStore \/ CloseDatabase \/ Exit

ListenStep == main # "exited" /\ (Listen \/ ListenFails)

AdapterStep ==
    /\ main # "exited"
    /\ ReturnListenError \/ BeginShutdown \/ Drained \/ ShutdownTimesOut
        \/ ReturnListenResult \/ Report \/ Stop \/ StoppedGracefully

Next ==
    \/ MainStep
    \/ ListenStep
    \/ AdapterStep
    \/ Interrupt
    \/ Kill
    \/ \E r \in Requests :
        \/ Accept(r) \/ Arrive(r)
        \/ Acquire(r) \/ AcquireFails(r)
        \/ Insert(r) \/ InsertFails(r) \/ HandlerFails(r)
        \/ Complete(r) \/ CompleteFails(r)

Spec == Init /\ [][Next]_vars

\* The goroutines of the process move on: their calls return, Shutdown's at
\* the latest when its timeout fires.  Nothing is assumed of requests, which
\* may hang for ever, nor of signals.  A listener need not fail.
FairSpec ==
    /\ Spec
    /\ WF_vars(MainStep)
    /\ WF_vars(AdapterStep)
    /\ WF_vars(main # "exited" /\ Listen)

(***************************************************************************)
(* Properties.                                                             *)
(***************************************************************************)

\* Type correctness of the process, its goroutines and its requests; a
\* process that exits by itself has a code.
TypeOK ==
    /\ main \in {"config", "database", "store", "waiting", "joining", "closing", "exited"}
    /\ opened \subseteq {"database", "store"}
    /\ ctx \in BOOLEAN
    /\ notify \in BOOLEAN
    /\ adapter \in {"none", "serving", "shutting", "drained", "returned", "reported", "done"}
    /\ result \in {"none", "error", "ErrServerClosed"}
    /\ listener \in {"none", "starting", "listening", "closed", "failed"}
    /\ reported \in BOOLEAN
    /\ request \in [Requests -> {"new", "connected", "acquire", "insert", "complete",
                                 "answered", "closed", "cut"}]
    /\ key \in [Requests -> {"", "IN_PROGRESS", "COMPLETED"}]
    /\ rows \subseteq Requests
    /\ fault \in [Requests -> {"none", "own", "closed"}]
    /\ code \in {Nil, 0, 1}
    /\ main = "closing" => code # Nil

\* An exit code of 0 says that the shutdown was graceful: the listener did not
\* fail, no request was cut off, and none found the store or the database
\* closed by the process.  So a command that stored its row has completed its
\* key, unless the store or its handler failed it; then the key says in
\* progress, and the exit code does not tell.
ExitZeroMeansGraceful ==
    main = "exited" /\ code = 0 =>
        /\ listener = "closed"
        /\ \A r \in Requests :
            /\ request[r] \in {"new", "closed", "answered"}
            /\ fault[r] # "closed"
            /\ r \in rows /\ fault[r] = "none" => key[r] = "COMPLETED"

\* An interrupt ends the process, however long its requests hang.
InterruptEndsProcess == ctx ~> main = "exited"

\* A listener that fails ends the process: nobody waits for a signal with no
\* server running.
ListenFailureEndsProcess == listener = "failed" ~> main = "exited"
=============================================================================
