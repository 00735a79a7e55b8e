--------------------------- MODULE LifecycleProofs --------------------------
(***************************************************************************)
(* Proofs about Lifecycle: its types, and that an exit code of 0 means a   *)
(* graceful shutdown, for any number of requests.                          *)
(***************************************************************************)
EXTENDS Lifecycle, TLAPS

(***************************************************************************)
(* The strengthening.                                                      *)
(***************************************************************************)

\* Before the goroutine is started there is no server and no request; while
\* run() waits for it the store is open; after that it is done or never began.
Phases ==
    /\ main \in {"config", "database", "store"} => adapter = "none"
    /\ adapter = "none" =>
        /\ listener = "none"
        /\ \A r \in Requests :
            request[r] = "new" /\ r \notin rows /\ fault[r] = "none"
    /\ main = "store" => opened = {"database", "store"}
    /\ main = "database" => opened = {"database"}
    /\ main = "closing" => adapter \in {"none", "done"}

\* Only a server that is not shutting down accepts connections.
ListensWhileServing == listener = "listening" => adapter = "serving"

\* What HTTPAdapter.Run returned, and what has been made of it.
ResultKnown ==
    /\ result = "none" <=> adapter \in {"none", "serving", "shutting", "drained"}
    /\ reported => result = "error"
    /\ adapter = "reported" => reported
    /\ adapter = "done" /\ result = "error" => reported
    /\ result = "ErrServerClosed" => listener = "closed"

\* No request runs and no connection could bring one.
Quiet == \A r \in Requests : request[r] \in {"new", "closed", "answered", "cut"}

\* Once Shutdown has drained the server it stays so.
DrainedStays == adapter = "drained" \/ result = "ErrServerClosed" => Quiet

\* A request whose calls all succeed ends with its row and its key.
KeysFollowRows ==
    \A r \in Requests :
        /\ request[r] \in {"new", "connected", "acquire", "insert", "closed"} => r \notin rows
        /\ r \in rows /\ request[r] = "answered" /\ fault[r] = "none" => key[r] = "COMPLETED"

\* While run() waits, store and database are open; only after a shutdown that
\* was not graceful do requests run when they are closed.
NothingClosedEarly ==
    /\ main \in {"waiting", "joining"} => opened = {"database", "store"}
    /\ (\E r \in Requests : fault[r] = "closed") =>
        main \in {"closing", "exited"} /\ result # "ErrServerClosed"

\* Requests are cut off only by the end of the process, and not with code 0.
CutAtExit ==
    /\ main = "exited" => Quiet
    /\ main # "exited" \/ code = 0 => \A r \in Requests : request[r] # "cut"

\* The code is 0 only if the goroutine ended without an error.
ZeroIsClosed ==
    /\ main \in {"config", "database", "store", "waiting", "joining"} => code = Nil
    /\ main \in {"closing", "exited"} /\ code = 0 => result = "ErrServerClosed"

IInv ==
    /\ TypeOK
    /\ Phases
    /\ ListensWhileServing
    /\ ResultKnown
    /\ DrainedStays
    /\ KeysFollowRows
    /\ NothingClosedEarly
    /\ CutAtExit
    /\ ZeroIsClosed

(***************************************************************************)
(* The steps of run(), of the signals, of the two goroutines and of the    *)
(* requests.                                                               *)
(***************************************************************************)

LEMMA StartStep ==
    IInv /\ main # "exited" /\ (StartFails \/ Load \/ PingDatabase \/ PingStore) => IInv'
<1> USE LifecycleAssumption
    DEF LifecycleAssumption, IInv, TypeOK, Phases, ListensWhileServing, ResultKnown,
        DrainedStays, Quiet, KeysFollowRows, NothingClosedEarly, CutAtExit, ZeroIsClosed,
        Running, server, work
<1>1. ASSUME IInv, StartFails PROVE IInv'
  <2>1. TypeOK' /\ Phases'
    BY <1>1 DEF StartFails
  <2>2. ListensWhileServing' /\ ResultKnown' /\ DrainedStays'
    BY <1>1 DEF StartFails
  <2>3. KeysFollowRows' /\ NothingClosedEarly'
    BY <1>1 DEF StartFails
  <2>4. CutAtExit'
    BY <1>1 DEF StartFails
  <2>5. ZeroIsClosed'
    <3>1. main' = "closing" /\ code' = 1
      BY <1>1 DEF StartFails
    <3> QED
      BY <3>1
  <2> QED
    BY <2>1, <2>2, <2>3, <2>4, <2>5
<1>2. ASSUME IInv, Load PROVE IInv'
  BY <1>2 DEF Load
<1>3. ASSUME IInv, PingDatabase PROVE IInv'
  BY <1>3 DEF PingDatabase
<1>4. ASSUME IInv, PingStore PROVE IInv'
  <2>1. TypeOK'
    BY <1>4 DEF PingStore
  <2>2. Phases'
    BY <1>4 DEF PingStore
  <2>3. ListensWhileServing' /\ ResultKnown' /\ DrainedStays'
    BY <1>4 DEF PingStore
  <2>4. KeysFollowRows' /\ NothingClosedEarly' /\ CutAtExit' /\ ZeroIsClosed'
    BY <1>4 DEF PingStore
  <2> QED
    BY <2>1, <2>2, <2>3, <2>4
<1> QED
  BY <1>1, <1>2, <1>3, <1>4

LEMMA EndStep ==
    IInv /\ main # "exited" /\ (Done \/ Join \/ CloseStore \/ CloseDatabase) => IInv'
<1> USE LifecycleAssumption
    DEF LifecycleAssumption, IInv, TypeOK, Phases, ListensWhileServing, ResultKnown,
        DrainedStays, Quiet, KeysFollowRows, NothingClosedEarly, CutAtExit, ZeroIsClosed,
        Running, server, work
<1>1. ASSUME IInv, Done PROVE IInv'
  <2>1. TypeOK'
    BY <1>1 DEF Done
  <2>2. Phases' /\ ListensWhileServing' /\ ResultKnown'
    BY <1>1 DEF Done
  <2>3. DrainedStays' /\ KeysFollowRows'
    BY <1>1 DEF Done
  <2>4. NothingClosedEarly' /\ CutAtExit' /\ ZeroIsClosed'
    BY <1>1 DEF Done
  <2> QED
    BY <2>1, <2>2, <2>3, <2>4
<1>2. ASSUME IInv, Join PROVE IInv'
  <2>1. TypeOK' /\ Phases'
    BY <1>2 DEF Join
  <2>2. ListensWhileServing' /\ ResultKnown' /\ DrainedStays'
    BY <1>2 DEF Join
  <2>3. KeysFollowRows' /\ NothingClosedEarly'
    BY <1>2 DEF Join
  <2>4. CutAtExit'
    BY <1>2 DEF Join
  <2>5. ZeroIsClosed'
    <3>1. main' = "closing" /\ result' = result /\ code' = IF reported THEN 1 ELSE 0
      BY <1>2 DEF Join
    <3>2. ~ reported => result = "ErrServerClosed"
      BY <1>2 DEF Join
    <3> QED
      BY <3>1, <3>2
  <2> QED
    BY <2>1, <2>2, <2>3, <2>4, <2>5
<1>3. ASSUME IInv, CloseStore PROVE IInv'
  BY <1>3 DEF CloseStore
<1>4. ASSUME IInv, CloseDatabase PROVE IInv'
  BY <1>4 DEF CloseDatabase
<1> QED
  BY <1>1, <1>2, <1>3, <1>4

LEMMA ExitStep == IInv /\ (Exit \/ Interrupt \/ Kill) => IInv'
<1> USE LifecycleAssumption
    DEF LifecycleAssumption, IInv, TypeOK, Phases, ListensWhileServing, ResultKnown,
        DrainedStays, Quiet, KeysFollowRows, NothingClosedEarly, CutAtExit, ZeroIsClosed,
        Running, Cut, Close, server, work
<1>1. ASSUME IInv, Exit PROVE IInv'
  <2>1. TypeOK'
    BY <1>1 DEF Exit
  <2>2. Phases' /\ ListensWhileServing' /\ ResultKnown'
    BY <1>1 DEF Exit
  <2>3. DrainedStays' /\ KeysFollowRows'
    BY <1>1 DEF Exit
  <2>4. NothingClosedEarly' /\ CutAtExit' /\ ZeroIsClosed'
    BY <1>1 DEF Exit
  <2> QED
    BY <2>1, <2>2, <2>3, <2>4
<1>2. ASSUME IInv, Interrupt PROVE IInv'
  <2>1. TypeOK'
    BY <1>2 DEF Interrupt
  <2>2. Phases' /\ ListensWhileServing' /\ ResultKnown'
    BY <1>2 DEF Interrupt
  <2>3. DrainedStays' /\ KeysFollowRows'
    BY <1>2 DEF Interrupt
  <2>4. NothingClosedEarly' /\ CutAtExit' /\ ZeroIsClosed'
    BY <1>2 DEF Interrupt
  <2> QED
    BY <2>1, <2>2, <2>3, <2>4
<1>3. ASSUME IInv, Kill PROVE IInv'
  <2>1. TypeOK'
    BY <1>3 DEF Kill
  <2>2. Phases' /\ ListensWhileServing' /\ ResultKnown'
    BY <1>3 DEF Kill
  <2>3. DrainedStays' /\ KeysFollowRows'
    BY <1>3 DEF Kill
  <2>4. NothingClosedEarly' /\ CutAtExit' /\ ZeroIsClosed'
    BY <1>3 DEF Kill
  <2> QED
    BY <2>1, <2>2, <2>3, <2>4
<1> QED
  BY <1>1, <1>2, <1>3

LEMMA ListenerStep == IInv /\ ListenStep => IInv'
<1> USE DEF IInv, TypeOK, Phases, ListensWhileServing, ResultKnown, DrainedStays, Quiet,
            KeysFollowRows, NothingClosedEarly, CutAtExit, ZeroIsClosed, Running, process, work
<1>1. ASSUME IInv, Listen PROVE IInv'
  <2>1. TypeOK'
    BY <1>1 DEF Listen
  <2>2. Phases' /\ ListensWhileServing' /\ ResultKnown'
    BY <1>1 DEF Listen
  <2>3. DrainedStays' /\ KeysFollowRows'
    BY <1>1 DEF Listen
  <2>4. NothingClosedEarly' /\ CutAtExit' /\ ZeroIsClosed'
    BY <1>1 DEF Listen
  <2> QED
    BY <2>1, <2>2, <2>3, <2>4
<1>2. ASSUME IInv, ListenFails PROVE IInv'
  <2>1. TypeOK'
    BY <1>2 DEF ListenFails
  <2>2. Phases' /\ ListensWhileServing' /\ ResultKnown'
    BY <1>2 DEF ListenFails
  <2>3. DrainedStays' /\ KeysFollowRows'
    BY <1>2 DEF ListenFails
  <2>4. NothingClosedEarly' /\ CutAtExit' /\ ZeroIsClosed'
    BY <1>2 DEF ListenFails
  <2> QED
    BY <2>1, <2>2, <2>3, <2>4
<1> QED
  BY <1>1, <1>2 DEF ListenStep

LEMMA GoroutineStep == IInv /\ AdapterStep => IInv'
<1> USE LifecycleAssumption
    DEF LifecycleAssumption, IInv, TypeOK, Phases, ListensWhileServing, ResultKnown,
        DrainedStays, Quiet, KeysFollowRows, NothingClosedEarly, CutAtExit, ZeroIsClosed, Running,
        Return, process, work
<1>1. ASSUME IInv, main # "exited", ReturnListenError PROVE IInv'
  BY <1>1 DEF ReturnListenError
<1>2. ASSUME IInv, main # "exited", BeginShutdown PROVE IInv'
  <2>1. TypeOK'
    BY <1>2 DEF BeginShutdown
  <2>2. Phases' /\ ListensWhileServing' /\ ResultKnown'
    BY <1>2 DEF BeginShutdown
  <2>3. DrainedStays' /\ KeysFollowRows'
    BY <1>2 DEF BeginShutdown
  <2>4. NothingClosedEarly' /\ CutAtExit' /\ ZeroIsClosed'
    BY <1>2 DEF BeginShutdown
  <2> QED
    BY <2>1, <2>2, <2>3, <2>4
<1>3. ASSUME IInv, main # "exited", Drained PROVE IInv'
  <2>1. TypeOK'
    BY <1>3 DEF Drained, Close
  <2>2. Phases' /\ ListensWhileServing' /\ ResultKnown'
    BY <1>3 DEF Drained, Close
  <2>3. DrainedStays' /\ KeysFollowRows'
    <3>1. /\ Running = {} /\ UNCHANGED <<key, rows, fault>>
          /\ \A r \in Requests : request'[r] = IF request[r] = "connected"
                                             THEN "closed" ELSE request[r]
      BY ONLY <1>3 DEF Drained, Close
    <3>2. \A r \in Requests : request[r] \in {"new", "connected", "acquire", "insert",
                                             "complete", "answered", "closed", "cut"}
      BY ONLY <1>3 DEF IInv, TypeOK
    <3>3. Quiet'
      BY ONLY <3>1, <3>2 DEF Running, Quiet
    <3>4. KeysFollowRows
      BY ONLY <1>3 DEF IInv
    <3>5. KeysFollowRows'
      BY ONLY <3>1, <3>4 DEF KeysFollowRows
    <3> QED
      BY ONLY <3>3, <3>5 DEF DrainedStays
  <2>4. NothingClosedEarly' /\ CutAtExit' /\ ZeroIsClosed'
    BY <1>3 DEF Drained, Close
  <2> QED
    BY <2>1, <2>2, <2>3, <2>4
<1>4. ASSUME IInv, main # "exited", ShutdownTimesOut PROVE IInv'
  BY <1>4 DEF ShutdownTimesOut
<1>5. ASSUME IInv, main # "exited", ReturnListenResult PROVE IInv'
  BY <1>5 DEF ReturnListenResult
<1>6. ASSUME IInv, main # "exited", Report PROVE IInv'
  BY <1>6 DEF Report
<1>7. ASSUME IInv, main # "exited", Stop PROVE IInv'
  <2>1. TypeOK'
    BY <1>7 DEF Stop
  <2>2. Phases' /\ ListensWhileServing' /\ ResultKnown'
    BY <1>7 DEF Stop
  <2>3. DrainedStays' /\ KeysFollowRows'
    BY <1>7 DEF Stop
  <2>4. NothingClosedEarly' /\ CutAtExit' /\ ZeroIsClosed'
    BY <1>7 DEF Stop
  <2> QED
    BY <2>1, <2>2, <2>3, <2>4
<1>8. ASSUME IInv, main # "exited", StoppedGracefully PROVE IInv'
  BY <1>8 DEF StoppedGracefully
<1> QED
  BY <1>1, <1>2, <1>3, <1>4, <1>5, <1>6, <1>7, <1>8 DEF AdapterStep

LEMMA RequestStep ==
    ASSUME NEW r \in Requests, IInv,
           \/ Accept(r) \/ Arrive(r)
           \/ Acquire(r) \/ AcquireFails(r)
           \/ Insert(r) \/ InsertFails(r) \/ HandlerFails(r)
           \/ Complete(r) \/ CompleteFails(r)
    PROVE  IInv'
<1> USE DEF IInv, TypeOK, Phases, ListensWhileServing, ResultKnown, DrainedStays, Quiet,
            KeysFollowRows, NothingClosedEarly, CutAtExit, ZeroIsClosed, Running, Goto,
            process, server
<1>1. CASE Accept(r)
  <2>1. TypeOK'
    BY <1>1 DEF Accept
  <2>2. Phases' /\ ListensWhileServing' /\ ResultKnown'
    BY <1>1 DEF Accept
  <2>3. DrainedStays' /\ KeysFollowRows'
    BY <1>1 DEF Accept
  <2>4. NothingClosedEarly' /\ CutAtExit' /\ ZeroIsClosed'
    BY <1>1 DEF Accept
  <2> QED
    BY <2>1, <2>2, <2>3, <2>4
<1>a. request[r] \in {"connected", "acquire", "insert", "complete"} =>
        /\ adapter \notin {"none", "drained"}
        /\ result # "ErrServerClosed"
        /\ main \in {"waiting", "joining", "closing"}
  OBVIOUS
<1>b. ASSUME request[r] \in {"acquire", "insert", "complete"},
             NEW needed \in {"store", "database"}, Fail(r, Cause(needed)),
             UNCHANGED <<process, server>>
      PROVE  NothingClosedEarly'
  <2>1. Cause(needed) = "closed" => main = "closing"
    BY <1>a, <1>b DEF Cause
  <2> QED
    BY <1>a, <1>b, <2>1 DEF Fail, Cause
<1>2. CASE Arrive(r)
  <2>1. ~ Quiet /\ adapter # "none"
    BY <1>2 DEF Arrive
  <2>2. main # "exited" /\ adapter # "drained" /\ result # "ErrServerClosed"
    BY <2>1
  <2>3. request' = [request EXCEPT ![r] = "acquire"] /\ UNCHANGED <<key, rows, fault>>
        /\ UNCHANGED <<main, opened, ctx, notify, code>>
        /\ UNCHANGED <<adapter, result, listener, reported>>
    BY <1>2 DEF Arrive
  <2>4. TypeOK'
    BY <2>1, <2>3
  <2>5. Phases' /\ ListensWhileServing' /\ ResultKnown'
    BY <2>1, <2>3
  <2>6. DrainedStays' /\ KeysFollowRows'
    BY <1>2, <2>2, <2>3 DEF Arrive
  <2>7. NothingClosedEarly' /\ CutAtExit' /\ ZeroIsClosed'
    BY <1>2, <2>2, <2>3 DEF Arrive
  <2> QED
    BY <2>4, <2>5, <2>6, <2>7
<1>3. CASE Acquire(r)
  <2>1. TypeOK'
    BY <1>3, <1>a DEF Acquire, Claim
  <2>2. Phases' /\ ListensWhileServing' /\ ResultKnown'
    BY <1>3, <1>a DEF Acquire, Claim
  <2>3. DrainedStays' /\ KeysFollowRows'
    BY <1>3, <1>a DEF Acquire, Claim
  <2>4. NothingClosedEarly' /\ CutAtExit' /\ ZeroIsClosed'
    BY <1>3, <1>a DEF Acquire, Claim
  <2> QED
    BY <2>1, <2>2, <2>3, <2>4
<1>4. CASE AcquireFails(r)
  <2>1. NothingClosedEarly'
    BY <1>4, <1>b DEF AcquireFails
  <2>2. TypeOK'
    BY <1>4, <1>a DEF AcquireFails, Claim, Fail, Cause
  <2>3. Phases' /\ ListensWhileServing' /\ ResultKnown'
    BY <1>4, <1>a DEF AcquireFails, Claim, Fail, Cause
  <2>4. DrainedStays' /\ KeysFollowRows' /\ CutAtExit' /\ ZeroIsClosed'
    BY <1>4, <1>a DEF AcquireFails, Claim, Fail, Cause
  <2> QED
    BY <2>1, <2>2, <2>3, <2>4
<1>5. CASE Insert(r)
  <2>1. TypeOK'
    BY <1>5, <1>a DEF Insert
  <2>2. Phases' /\ ListensWhileServing' /\ ResultKnown'
    BY <1>5, <1>a DEF Insert
  <2>3. DrainedStays' /\ KeysFollowRows'
    BY <1>5, <1>a DEF Insert
  <2>4. NothingClosedEarly' /\ CutAtExit' /\ ZeroIsClosed'
    BY <1>5, <1>a DEF Insert
  <2> QED
    BY <2>1, <2>2, <2>3, <2>4
<1>6. CASE InsertFails(r)
  <2>1. NothingClosedEarly'
    BY <1>6, <1>b DEF InsertFails
  <2>2. TypeOK'
    BY <1>6, <1>a DEF InsertFails, Fail, Cause
  <2>3. Phases' /\ ListensWhileServing' /\ ResultKnown'
    BY <1>6, <1>a DEF InsertFails, Fail, Cause
  <2>4. DrainedStays' /\ KeysFollowRows' /\ CutAtExit' /\ ZeroIsClosed'
    BY <1>6, <1>a DEF InsertFails, Fail, Cause
  <2> QED
    BY <2>1, <2>2, <2>3, <2>4
<1>7. CASE HandlerFails(r)
  <2>1. TypeOK'
    BY <1>7, <1>a DEF HandlerFails, Fail
  <2>2. Phases' /\ ListensWhileServing' /\ ResultKnown'
    BY <1>7, <1>a DEF HandlerFails, Fail
  <2>3. DrainedStays' /\ KeysFollowRows'
    BY <1>7, <1>a DEF HandlerFails, Fail
  <2>4. NothingClosedEarly' /\ CutAtExit' /\ ZeroIsClosed'
    BY <1>7, <1>a DEF HandlerFails, Fail
  <2> QED
    BY <2>1, <2>2, <2>3, <2>4
<1>8. CASE Complete(r)
  <2>1. TypeOK'
    BY <1>8, <1>a DEF Complete
  <2>2. Phases' /\ ListensWhileServing' /\ ResultKnown'
    BY <1>8, <1>a DEF Complete
  <2>3. DrainedStays' /\ KeysFollowRows'
    BY <1>8, <1>a DEF Complete
  <2>4. NothingClosedEarly' /\ CutAtExit' /\ ZeroIsClosed'
    BY <1>8, <1>a DEF Complete
  <2> QED
    BY <2>1, <2>2, <2>3, <2>4
<1>9. CASE CompleteFails(r)
  <2>1. NothingClosedEarly'
    BY <1>9, <1>b DEF CompleteFails
  <2>2. TypeOK'
    BY <1>9, <1>a DEF CompleteFails, Fail, Cause
  <2>3. Phases' /\ ListensWhileServing' /\ ResultKnown'
    BY <1>9, <1>a DEF CompleteFails, Fail, Cause
  <2>4. DrainedStays' /\ KeysFollowRows' /\ CutAtExit' /\ ZeroIsClosed'
    BY <1>9, <1>a DEF CompleteFails, Fail, Cause
  <2> QED
    BY <2>1, <2>2, <2>3, <2>4
<1> QED
  BY <1>1, <1>2, <1>3, <1>4, <1>5, <1>6, <1>7, <1>8, <1>9

LEMMA InvStep == IInv /\ [Next]_vars => IInv'
<1>1. ASSUME IInv, UNCHANGED vars PROVE IInv'
  <2>1. TypeOK'
    <3>1. UNCHANGED <<main, opened, ctx, notify>> /\ UNCHANGED <<adapter, result>>
          /\ UNCHANGED <<listener, reported>> /\ UNCHANGED <<request, key, rows, fault, code>>
      BY <1>1 DEF vars
    <3>2. TypeOK
      BY <1>1 DEF IInv
    <3>3. /\ main' \in {"config", "database", "store", "waiting", "joining", "closing", "exited"}
          /\ opened' \subseteq {"database", "store"}
          /\ ctx' \in BOOLEAN
          /\ notify' \in BOOLEAN
      BY <3>1, <3>2 DEF TypeOK
    <3>4. /\ adapter' \in {"none", "serving", "shutting", "drained", "returned", "reported", "done"}
          /\ result' \in {"none", "error", "ErrServerClosed"}
          /\ listener' \in {"none", "starting", "listening", "closed", "failed"}
          /\ reported' \in BOOLEAN
      BY <3>1, <3>2 DEF TypeOK
    <3>5. /\ request' \in [Requests -> {"new", "connected", "acquire", "insert", "complete",
                                      "answered", "closed", "cut"}]
          /\ key' \in [Requests -> {"", "IN_PROGRESS", "COMPLETED"}]
          /\ rows' \subseteq Requests
          /\ fault' \in [Requests -> {"none", "own", "closed"}]
      BY <3>1, <3>2 DEF TypeOK
    <3>6. code' \in {Nil, 0, 1} /\ (main' = "closing" => code' # Nil)
      BY <3>1, <3>2 DEF TypeOK
    <3> QED
      BY <3>3, <3>4, <3>5, <3>6 DEF TypeOK
  <2>2. Phases' /\ ListensWhileServing'
    BY <1>1 DEF IInv, Phases, ListensWhileServing, vars
  <2>3. Running' = Running
    BY <1>1 DEF Running, vars
  <2>4. ResultKnown' /\ DrainedStays' /\ KeysFollowRows' /\ NothingClosedEarly'
        /\ CutAtExit' /\ ZeroIsClosed'
    BY <1>1, <2>3 DEF IInv, ResultKnown, DrainedStays, Quiet, KeysFollowRows,
                      NothingClosedEarly, CutAtExit, ZeroIsClosed, vars
  <2> QED
    BY <2>1, <2>2, <2>4 DEF IInv
<1> QED
  BY <1>1, StartStep, EndStep, ExitStep, ListenerStep, GoroutineStep, RequestStep
  DEF Next, MainStep

LEMMA InvAlways == Spec => []IInv
<1>1. Init => IInv
  BY LifecycleAssumption
  DEF LifecycleAssumption, Init, IInv, TypeOK, Phases, ListensWhileServing, ResultKnown,
      DrainedStays, Quiet, KeysFollowRows, NothingClosedEarly, CutAtExit, ZeroIsClosed, Running
<1> QED
  BY <1>1, InvStep, PTL DEF Spec

\* Process, goroutines and requests have their types in every reachable state,
\* however many requests there are.
THEOREM LifecycleTypeCorrect == Spec => []TypeOK
<1>1. IInv => TypeOK
  BY DEF IInv
<1> QED
  BY InvAlways, <1>1, PTL

\* A process that exits with code 0 has cut off no request and taken neither
\* store nor database away from one, so rows and keys differ only by what
\* failed of itself, whatever the order in which signals, the shutdown
\* timeout, the listener, connections and requests move.
THEOREM ZeroMeansGraceful == Spec => []ExitZeroMeansGraceful
<1>1. IInv => ExitZeroMeansGraceful
  BY DEF IInv, TypeOK, ResultKnown, DrainedStays, Quiet, KeysFollowRows, CutAtExit,
         NothingClosedEarly, ZeroIsClosed, ExitZeroMeansGraceful, Running
<1> QED
  BY InvAlways, <1>1, PTL
=============================================================================
