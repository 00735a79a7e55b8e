---------------------------- MODULE HttpApiProofs ---------------------------
(***************************************************************************)
(* Proofs about HttpApi: with access check and commands behind it the      *)
(* middleware still is what Idempotency says, and every answer is true of  *)
(* the table.                                                              *)
(***************************************************************************)
EXTENDS HttpApi, IdempotencyProofs

\* The composition implements the middleware: a handler's steps are stutters
\* of it, and its answer is one of those the middleware leaves open.
LEMMA ApiStepMaps == [ApiNext]_apiVars => [Next]_vars
  BY DEF ApiNext, apiVars, SendMutation, ApiStep, EnterHandler, Middleware, AccessChecked,
         CommandStored, CommandRefused, Respond, Panic, CrashApi, Drop, ToggleAccess,
         Next, ServerStep

\* The mutations of the API implement the idempotency middleware.
THEOREM ApiImplementsMiddleware == ApiSpec => Spec
<1>1. ApiInit => Init
  BY DEF ApiInit
<1> QED
  BY <1>1, ApiStepMaps, PTL DEF ApiSpec, Spec

(***************************************************************************)
(* The strengthening.                                                      *)
(***************************************************************************)
Stored(k, n) == [key |-> k, run |-> n] \in rows

InHandler(r) == request[r].pc = "handler"

\* What a handler has done matches how far it is, and it is the only one to
\* execute its run.
WorkInv ==
    \A r \in Requests :
        /\ work[r].phase = "none" <=> ~ InHandler(r)
        /\ InHandler(r) =>
            /\ request[r].key \in Keys
            /\ request[r].run \in 1..executed[request[r].key]
            /\ \A q \in Requests \ {r} :
                InHandler(q) /\ request[q].key = request[r].key
                    => request[q].run # request[r].run
        /\ work[r].phase \in {"check", "command"} => ~ Stored(request[r].key, request[r].run)
        /\ work[r].phase = "answer" =>
            (work[r].outcome = "done" <=> Stored(request[r].key, request[r].run))

\* Rows stem from runs that have begun.
RowsExecuted == \A k \in Keys, n \in Nat : Stored(k, n) => n \in 1..executed[k]

\* A response to k is sound: its run is over and it is true of the table.
Sound(k, resp) ==
    /\ resp \in Responses
    /\ resp.run \in 1..executed[k]
    /\ \A r \in Requests :
        InHandler(r) /\ request[r].key = k => request[r].run # resp.run
    /\ resp.outcome = "done" <=> Stored(k, resp.run)

\* Responses that are cached, about to be cached or received are sound.
ResponsesSound ==
    /\ \A k \in Keys : store[k].status = "COMPLETED" => Sound(k, store[k].resp)
    /\ \A r \in Requests :
        /\ request[r].pc = "complete" => Sound(request[r].key, request[r].resp)
        /\ Answered(r) => Sound(reply[r].key, reply[r].resp)

ApiIInv == ApiTypeOK /\ WorkInv /\ RowsExecuted /\ ResponsesSound

(***************************************************************************)
(* What the steps do to handlers and rows.                                 *)
(***************************************************************************)

\* Only EnterHandler starts a run, only CommandStored adds a row.
LEMMA OtherSteps ==
    ASSUME TypeInv, [ApiNext]_apiVars,
           \A r \in Requests : ~ EnterHandler(r) /\ ~ CommandStored(r)
    PROVE  /\ UNCHANGED <<rows, executed>>
           /\ \A q \in Requests : InHandler(q)' => InHandler(q) /\ request'[q] = request[q]
<1> USE DEF TypeInv, TypeOK, InHandler
<1>1. ASSUME NEW r \in Requests, NEW k \in Keys, SendMutation(r, k)
      PROVE /\ UNCHANGED <<rows, executed>>
            /\ \A q \in Requests : InHandler(q)' => InHandler(q) /\ request'[q] = request[q]
  BY <1>1 DEF SendMutation, Send, Idle
<1>2. ASSUME NEW r \in Requests, Middleware(r)
      PROVE /\ UNCHANGED <<rows, executed>>
            /\ \A q \in Requests : InHandler(q)' => InHandler(q) /\ request'[q] = request[q]
  <2>1. CASE NotAcquired(r)
    BY <1>2, <2>1 DEF Middleware, NotAcquired, Goto
  <2>2. CASE AcquireFails(r)
    BY <1>2, <2>2 DEF Middleware, AcquireFails, Finish, Idle
  <2>3. CASE State(r) \/ StateFails(r)
    <3>1. request' = [request EXCEPT ![r] = Idle]
      BY <2>3 DEF State, StateFails, Finish
    <3> QED
      BY <1>2, <2>3, <3>1 DEF Middleware, State, StateFails, Idle
  <2>4. CASE Complete(r) \/ CompleteFails(r)
    BY <1>2, <2>4 DEF Middleware, Complete, CompleteFails, Idle
  <2> QED
    BY <1>2, <2>1, <2>2, <2>3, <2>4 DEF Middleware
<1>3. ASSUME NEW r \in Requests, Respond(r)
      PROVE /\ UNCHANGED <<rows, executed>>
            /\ \A q \in Requests : InHandler(q)' => InHandler(q) /\ request'[q] = request[q]
  BY <1>3 DEF Respond, Handle
<1>4. ASSUME NEW r \in Requests, Panic(r) \/ CrashApi(r)
      PROVE /\ UNCHANGED <<rows, executed>>
            /\ \A q \in Requests : InHandler(q)' => InHandler(q) /\ request'[q] = request[q]
  BY <1>4 DEF Panic, HandlerFails, CrashApi, Crash, Finish, Idle
<1>5. UNCHANGED <<rows, executed, request>> =>
            /\ UNCHANGED <<rows, executed>>
            /\ \A q \in Requests : InHandler(q)' => InHandler(q) /\ request'[q] = request[q]
  OBVIOUS
<1> QED
  BY <1>1, <1>2, <1>3, <1>4, <1>5
  DEF ApiNext, ApiStep, AccessChecked, CommandRefused, Drop, Expire, ToggleAccess,
      apiVars, vars

LEMMA EnterEffect ==
    ASSUME TypeInv, NEW r \in Requests, EnterHandler(r)
    PROVE  /\ request[r].key \in Keys
           /\ executed[request[r].key] \in Nat
           /\ request'[r].pc = "handler"
           /\ request'[r].key = request[r].key
           /\ request'[r].run = executed[request[r].key] + 1
           /\ \A q \in Requests \ {r} : request'[q] = request[q]
           /\ executed' = [executed EXCEPT ![request[r].key] = @ + 1]
           /\ store' = [store EXCEPT ![request[r].key] = InProgress]
           /\ UNCHANGED <<reply, rows>>
           /\ request[r].pc = "acquire"
<1>1. request[r].key \in Keys /\ request[r].pc = "acquire"
  BY DEF EnterHandler, Acquire, TypeInv, Keyed
<1>2. executed[request[r].key] \in Nat
  BY <1>1 DEF TypeInv, TypeOK
<1>3. request' = [request EXCEPT ![r].pc = "handler", ![r].run = executed[request[r].key] + 1]
  BY DEF EnterHandler, Acquire, CallNext
<1>4. /\ request'[r].pc = "handler"
      /\ request'[r].key = request[r].key
      /\ request'[r].run = executed[request[r].key] + 1
      /\ \A q \in Requests \ {r} : request'[q] = request[q]
  BY <1>3 DEF TypeInv, TypeOK, Progress
<1> QED
  BY <1>1, <1>2, <1>4 DEF EnterHandler, Acquire, CallNext

\* A sound response stays sound: later runs of its key have later numbers.
LEMMA SoundStep ==
    ASSUME TypeInv, ApiIInv, [ApiNext]_apiVars,
           NEW k \in Keys, NEW resp, Sound(k, resp)
    PROVE  Sound(k, resp)'
<1>1. resp \in Responses /\ resp.run \in Nat /\ executed[k] \in Nat
  BY DEF Sound, Responses, TypeInv, TypeOK
<1>2. CASE \E r \in Requests : EnterHandler(r)
  <2>1. PICK r \in Requests : EnterHandler(r)
    BY <1>2
  <2>2. resp.run \in 1..executed'[k]
    BY <1>1, <2>1, EnterEffect DEF Sound, TypeInv, TypeOK
  <2>3. ASSUME NEW q \in Requests, InHandler(q)', request'[q].key = k
        PROVE request'[q].run # resp.run
    BY <1>1, <2>1, <2>3, EnterEffect DEF Sound, InHandler
  <2>4. rows' = rows
    BY <2>1, EnterEffect
  <2> QED
    BY <1>1, <2>2, <2>3, <2>4 DEF Sound, Stored
<1>3. CASE \E r \in Requests : CommandStored(r)
  <2>1. PICK r \in Requests : CommandStored(r)
    BY <1>3
  <2>2. InHandler(r)
    BY <2>1 DEF CommandStored, ApiIInv, WorkInv
  <2>3. UNCHANGED <<request, executed>>
    BY <2>1 DEF CommandStored, vars
  <2>4. rows' = rows \cup {[key |-> request[r].key, run |-> request[r].run]}
    BY <2>1 DEF CommandStored, StoreRow
  <2>5. request[r].key = k => request[r].run # resp.run
    BY <2>2 DEF Sound
  <2>6. Stored(k, resp.run)' <=> Stored(k, resp.run)
    BY <2>4, <2>5 DEF Stored
  <2> QED
    BY <2>3, <2>6 DEF Sound, InHandler
<1>4. CASE \A r \in Requests : ~ EnterHandler(r) /\ ~ CommandStored(r)
  BY <1>4, OtherSteps DEF Sound, Stored
<1> QED
  BY <1>2, <1>3, <1>4

(***************************************************************************)
(* Each part of the invariant is kept.                                     *)
(***************************************************************************)

\* A step that starts no run and decides nothing.
LEMMA WorkFrame ==
    ASSUME WorkInv, UNCHANGED <<rows, executed>>,
           \A q \in Requests : InHandler(q)' =>
                InHandler(q) /\ request'[q] = request[q] /\ work'[q] = work[q],
           \A q \in Requests : ~ InHandler(q)' => work'[q].phase = "none"
    PROVE  WorkInv'
<1> SUFFICES ASSUME NEW r \in Requests
             PROVE (/\ work[r].phase = "none" <=> ~ InHandler(r)
                    /\ InHandler(r) =>
                        /\ request[r].key \in Keys
                        /\ request[r].run \in 1..executed[request[r].key]
                        /\ \A q \in Requests \ {r} :
                            InHandler(q) /\ request[q].key = request[r].key
                                => request[q].run # request[r].run
                    /\ work[r].phase \in {"check", "command"}
                        => ~ Stored(request[r].key, request[r].run)
                    /\ work[r].phase = "answer" =>
                        (work[r].outcome = "done" <=> Stored(request[r].key, request[r].run)))'
  BY DEF WorkInv
<1>1. CASE InHandler(r)'
  <2>1. InHandler(r) /\ request'[r] = request[r] /\ work'[r] = work[r]
    BY <1>1
  <2>2. \A q \in Requests \ {r} :
            InHandler(q)' /\ request'[q].key = request'[r].key
                => request'[q].run # request'[r].run
    BY <2>1 DEF WorkInv
  <2> QED
    BY <1>1, <2>1, <2>2 DEF WorkInv, Stored
<1>2. CASE ~ InHandler(r)'
  BY <1>2
<1> QED
  BY <1>1, <1>2

\* A handler's place follows its request's, and its outcome the row.
LEMMA WorkStep == TypeInv /\ ApiIInv /\ [ApiNext]_apiVars => WorkInv'
<1> SUFFICES ASSUME TypeInv, ApiIInv, [ApiNext]_apiVars PROVE WorkInv'
  OBVIOUS
<1>a. WorkInv /\ RowsExecuted /\ work \in [Requests -> Work]
  BY DEF ApiIInv, ApiTypeOK
<1>b. request \in [Requests -> Progress]
  BY DEF TypeInv, TypeOK
<1>1. ASSUME NEW r \in Requests, EnterHandler(r) PROVE WorkInv'
  <2>1. work'[r].phase = "check" /\ \A q \in Requests \ {r} : work'[q] = work[q]
    BY <1>1, <1>a DEF EnterHandler, Enter
  <2>2. ASSUME NEW q \in Requests, InHandler(q)
        PROVE /\ request[q].key \in Keys
              /\ request[q].run \in 1..executed[request[q].key]
              /\ request[q].key = request[r].key => request[q].run # executed[request[r].key] + 1
              /\ request[q].run \in 1..executed'[request[q].key]
    <3>1. request[q].key \in Keys /\ request[q].run \in 1..executed[request[q].key]
      BY <1>a, <2>2 DEF WorkInv
    <3> QED
      BY <1>1, <3>1, EnterEffect DEF TypeInv, TypeOK
  <2>3. ~ Stored(request[r].key, executed[request[r].key] + 1)
    BY <1>1, <1>a, EnterEffect DEF RowsExecuted
  <2>4. ~ InHandler(r) /\ InHandler(r)'
    BY <1>1, EnterEffect DEF InHandler
  <2>5. \A q \in Requests \ {r} : request'[q] = request[q] /\ (InHandler(q)' <=> InHandler(q))
    BY <1>1, EnterEffect DEF InHandler
  <2>6. /\ request'[r].key = request[r].key /\ request[r].key \in Keys
        /\ request'[r].run = executed[request[r].key] + 1
        /\ request'[r].run \in 1..executed'[request[r].key]
        /\ rows' = rows
    BY <1>1, EnterEffect DEF TypeInv, TypeOK
  <2> QED
    BY <1>a, <2>1, <2>2, <2>3, <2>4, <2>5, <2>6 DEF WorkInv, Stored
<1>2. ASSUME NEW r \in Requests, CommandStored(r) PROVE WorkInv'
  <2>1. /\ UNCHANGED <<request, executed>>
        /\ rows' = rows \cup {[key |-> request[r].key, run |-> request[r].run]}
        /\ work'[r].phase = "answer" /\ work'[r].outcome = "done"
        /\ \A q \in Requests \ {r} : work'[q] = work[q]
    BY <1>2, <1>a DEF CommandStored, StoreRow, Enter, vars
  <2>2. InHandler(r)
    BY <1>2, <1>a DEF CommandStored, WorkInv
  <2>3. ASSUME NEW q \in Requests \ {r}, InHandler(q)
        PROVE Stored(request[q].key, request[q].run)' <=> Stored(request[q].key, request[q].run)
    BY <1>a, <2>1, <2>2, <2>3 DEF WorkInv, Stored
  <2>4. Stored(request[r].key, request[r].run)'
    BY <2>1 DEF Stored
  <2>5. \A q \in Requests : work[q].phase # "none" => InHandler(q)
    BY <1>a DEF WorkInv
  <2>6. \A q \in Requests : InHandler(q)' <=> InHandler(q)
    BY <2>1 DEF InHandler
  <2> QED
    BY <1>a, <2>1, <2>2, <2>3, <2>4, <2>5, <2>6 DEF WorkInv
<1>3. ASSUME NEW r \in Requests, AccessChecked(r) \/ CommandRefused(r) PROVE WorkInv'
  <2>1. /\ UNCHANGED <<request, executed, rows>>
        /\ work[r].phase \in {"check", "command"}
        /\ \/ work'[r].phase = "command"
           \/ work'[r].phase = "answer" /\ work'[r].outcome = "rejected"
        /\ \A q \in Requests \ {r} : work'[q] = work[q]
    BY <1>3, <1>a DEF AccessChecked, CommandRefused, Enter, vars
  <2>2. \A q \in Requests : InHandler(q)' <=> InHandler(q)
    BY <2>1 DEF InHandler
  <2> QED
    BY <1>a, <2>1, <2>2 DEF WorkInv, Stored
<1>4. ASSUME NEW r \in Requests, Respond(r) \/ Panic(r) \/ CrashApi(r) PROVE WorkInv'
  <2>1. ~ InHandler(r)' /\ \A q \in Requests \ {r} : request'[q] = request[q]
    <3>1. CASE Respond(r)
      BY <3>1, <1>b DEF Respond, Handle, InHandler
    <3>2. CASE request' = [request EXCEPT ![r] = Idle]
      BY <3>2, <1>b DEF Idle, InHandler
    <3> QED
      BY <1>4, <3>1, <3>2 DEF Panic, HandlerFails, CrashApi, Crash, Finish
  <2>2. work'[r].phase = "none" /\ \A q \in Requests \ {r} : work'[q] = work[q]
    BY <1>4, <1>a DEF Respond, Panic, CrashApi, Leave, NoWork
  <2>3. UNCHANGED <<rows, executed>>
    BY <1>4 DEF Respond, Handle, Panic, HandlerFails, CrashApi, Crash
  <2>4. \A q \in Requests \ {r} : InHandler(q)' <=> InHandler(q)
    BY <2>1 DEF InHandler
  <2> QED
    BY <1>a, <2>1, <2>2, <2>3, <2>4, WorkFrame DEF WorkInv
<1>5. ASSUME NEW r \in Requests,
             Middleware(r) \/ \E k \in Keys : SendMutation(r, k)
      PROVE WorkInv'
  <2>1. UNCHANGED <<work, rows, executed>>
    BY <1>5 DEF Middleware, NotAcquired, AcquireFails, State, StateFails, Complete,
                CompleteFails, SendMutation, Send
  <2>2. request[r].pc \in {"idle", "acquire", "state", "complete"}
    BY <1>5 DEF Middleware, NotAcquired, AcquireFails, State, StateFails, Complete,
                CompleteFails, SendMutation, Send
  <2>3. request'[r].pc \in {"idle", "acquire", "state"}
    <3>1. CASE NotAcquired(r)
      BY <3>1, <1>b DEF NotAcquired, Goto, Progress
    <3>2. CASE request' = [request EXCEPT ![r] = Idle]
      BY <3>2, <1>b DEF Idle
    <3>3. ASSUME NEW k \in Keys, SendMutation(r, k) PROVE request'[r].pc = "acquire"
      BY <3>3, <1>b DEF SendMutation, Send, Idle
    <3> QED
      BY <1>5, <3>1, <3>2, <3>3 DEF Middleware, AcquireFails, State, StateFails, Complete,
                                    CompleteFails, Finish
  <2>4. \A q \in Requests \ {r} : request'[q] = request[q]
    BY <1>5, <1>b DEF Middleware, NotAcquired, AcquireFails, State, StateFails, Complete,
                CompleteFails, SendMutation, Send, Goto, Finish
  <2>5. ~ InHandler(r) /\ ~ InHandler(r)'
    BY <2>2, <2>3 DEF InHandler
  <2>6. \A q \in Requests \ {r} : InHandler(q)' <=> InHandler(q)
    BY <2>4 DEF InHandler
  <2> QED
    BY <1>a, <2>1, <2>4, <2>5, <2>6, WorkFrame DEF WorkInv
<1>6. ASSUME UNCHANGED <<request, work, rows, executed>> PROVE WorkInv'
  BY <1>6, <1>a, WorkFrame DEF WorkInv, InHandler
<1> QED
  BY <1>1, <1>2, <1>3, <1>4, <1>5, <1>6
  DEF ApiNext, ApiStep, Drop, Expire, ToggleAccess, apiVars, vars

LEMMA RowsStep == TypeInv /\ ApiIInv /\ [ApiNext]_apiVars => RowsExecuted'
<1> SUFFICES ASSUME TypeInv, ApiIInv, [ApiNext]_apiVars PROVE RowsExecuted'
  OBVIOUS
<1>a. RowsExecuted /\ WorkInv /\ executed \in [Keys -> Nat]
  BY DEF ApiIInv, TypeInv, TypeOK
<1>1. ASSUME NEW r \in Requests, EnterHandler(r) PROVE RowsExecuted'
  BY <1>1, <1>a, EnterEffect DEF RowsExecuted, Stored
<1>2. ASSUME NEW r \in Requests, CommandStored(r) PROVE RowsExecuted'
  <2>1. /\ executed' = executed
        /\ rows' = rows \cup {[key |-> request[r].key, run |-> request[r].run]}
    BY <1>2 DEF CommandStored, StoreRow, vars
  <2>2. request[r].run \in 1..executed[request[r].key]
    BY <1>2, <1>a DEF CommandStored, WorkInv
  <2> QED
    BY <1>a, <2>1, <2>2 DEF RowsExecuted, Stored
<1>3. UNCHANGED <<rows, executed>> => RowsExecuted'
  BY <1>a DEF RowsExecuted, Stored
<1> QED
  BY <1>1, <1>2, <1>3, OtherSteps

\* The answer of a handler is sound.
LEMMA RespondSound ==
    ASSUME TypeInv, ApiIInv, NEW r \in Requests, Respond(r)
    PROVE  \E k \in Keys, resp \in Responses :
              /\ Sound(k, resp)'
              /\ request'[r].key = k /\ request'[r].resp = resp
              /\ reply'[r] = Fresh(k, resp)
              /\ \A q \in Requests \ {r} : request'[q] = request[q] /\ reply'[q] = reply[q]
<1>0. PICK k, n : k = request[r].key /\ n = request[r].run
  OBVIOUS
<1>1. PICK outcome \in Outcomes :
          LET resp == [outcome |-> outcome, run |-> n]
          IN /\ reply' = [reply EXCEPT ![r] = Fresh(k, resp)]
             /\ request' = [request EXCEPT ![r].pc = "complete", ![r].resp = resp]
  BY <1>0 DEF Respond, Handle
<1> DEFINE resp == [outcome |-> outcome, run |-> n]
<1>2. request \in [Requests -> Progress] /\ reply \in [Requests -> Reply]
  BY DEF TypeInv, TypeOK
<1>3. /\ request'[r].key = k
      /\ request'[r].pc = "complete"
      /\ request'[r].resp = resp
      /\ \A q \in Requests \ {r} : request'[q] = request[q]
  BY <1>0, <1>1, <1>2 DEF Progress
<1>4. work[r].outcome = outcome
  BY <1>3 DEF Respond
<1>5. /\ InHandler(r)
      /\ UNCHANGED <<executed, rows>>
      /\ work[r].phase = "answer"
  BY DEF Respond, Handle, InHandler
<1>6. /\ k \in Keys
      /\ n \in 1..executed[k]
      /\ \A q \in Requests \ {r} :
            InHandler(q) /\ request[q].key = k => request[q].run # n
      /\ outcome = "done" <=> Stored(k, n)
  BY <1>0, <1>4, <1>5 DEF ApiIInv, WorkInv
<1>7. resp \in Responses /\ resp.run = n /\ resp.outcome = outcome
  BY <1>0, <1>1, <1>2 DEF Responses, Progress
<1>8. \A q \in Requests :
        InHandler(q)' /\ request'[q].key = k => request'[q].run # n
  BY <1>3, <1>6 DEF InHandler
<1>9. Sound(k, resp)'
  BY <1>5, <1>6, <1>7, <1>8 DEF Sound, Stored
<1>10. reply'[r] = Fresh(k, resp) /\ \A q \in Requests \ {r} : reply'[q] = reply[q]
  BY <1>1, <1>2
<1> HIDE DEF resp
<1> QED
  BY <1>3, <1>6, <1>7, <1>9, <1>10

\* What is cached, about to be cached or received after a step, was so before
\* or is the answer of a handler.
LEMMA ResponsesStep == TypeInv /\ ApiIInv /\ [ApiNext]_apiVars => ResponsesSound'
<1> SUFFICES ASSUME TypeInv, ApiIInv, [ApiNext]_apiVars PROVE ResponsesSound'
  OBVIOUS
<1>a. /\ request \in [Requests -> Progress]
      /\ reply \in [Requests -> Reply]
      /\ store \in [Keys -> Entry]
      /\ ResponsesSound
  BY DEF TypeInv, TypeOK, ApiIInv
<1>b. \A r \in Requests : request[r].pc # "idle" => request[r].key \in Keys
  BY DEF TypeInv, Keyed
<1>c. \A r \in Requests : Answered(r) => reply[r].key \in Keys
  BY <1>a DEF Answered, Reply
<1>d. [Next]_vars
  BY ApiStepMaps
<1>1. \A k \in Keys : \A resp :
          store[k].status = "COMPLETED" /\ store[k].resp = resp => Sound(k, resp)'
  BY <1>a, SoundStep DEF ResponsesSound
<1>2. \A r \in Requests, k \in Keys : \A resp :
          request[r].pc = "complete" /\ request[r].key = k /\ request[r].resp = resp
              => Sound(k, resp)'
  BY <1>a, SoundStep DEF ResponsesSound
<1>3. \A r \in Requests, k \in Keys : \A resp :
          Answered(r) /\ reply[r].key = k /\ reply[r].resp = resp => Sound(k, resp)'
  BY <1>a, SoundStep DEF ResponsesSound
<1>4. ASSUME NEW k \in Keys, NEW resp, store'[k].status = "COMPLETED", store'[k].resp = resp
      PROVE Sound(k, resp)'
  <2>1. store'[k] = store[k]
        \/ \E r \in Requests : /\ request[r].pc = "complete"
                              /\ request[r].key = k
                              /\ store'[k] = Completed(request[r].resp)
    <3>1. ASSUME NEW r \in Requests, Acquire(r) \/ AcquireFails(r)
          PROVE store'[k] = store[k]
      BY <3>1, <1>a, <1>4 DEF Acquire, CallNext, AcquireFails, InProgress
    <3>2. ASSUME NEW r \in Requests, Complete(r)
          PROVE \/ store'[k] = store[k]
                \/ /\ request[r].pc = "complete"
                   /\ request[r].key = k
                   /\ store'[k] = Completed(request[r].resp)
      BY <3>2, <1>a DEF Complete
    <3>3. ASSUME NEW l \in Keys, Expire(l) PROVE store'[k] = store[k]
      BY <3>3, <1>a, <1>4 DEF Expire, Absent
    <3> QED
      BY <1>d, <3>1, <3>2, <3>3
      DEF Next, ServerStep, vars, Send, NotAcquired, State, StateFails, Handle,
          HandlerFails, CompleteFails, Crash
  <2>2. CASE store'[k] = store[k]
    BY <2>2, <1>1, <1>4
  <2>3. ASSUME NEW r \in Requests, request[r].pc = "complete", request[r].key = k,
               store'[k] = Completed(request[r].resp)
        PROVE Sound(k, resp)'
    <3>1. request[r].resp = resp
      BY <2>3, <1>4 DEF Completed
    <3> QED
      BY <2>3, <3>1, <1>2
  <2> QED
    BY <2>1, <2>2, <2>3
<1>5. ASSUME NEW r \in Requests, NEW k, NEW resp, request'[r].pc = "complete",
             request'[r].key = k, request'[r].resp = resp
      PROVE Sound(k, resp)'
  <2>1. CASE Respond(r)
    BY <2>1, <1>5, RespondSound
  <2>2. ASSUME NEW q \in Requests, Respond(q), q # r PROVE request'[r] = request[r]
    BY <2>2, RespondSound
  <2>3. ASSUME \A q \in Requests : ~ Respond(q) PROVE request'[r] = request[r]
    <3>1. ASSUME NEW q \in Requests, NEW l \in Keys, SendMutation(q, l)
          PROVE request'[r] = request[r]
      BY <3>1, <1>a, <1>5 DEF SendMutation, Send, Idle
    <3>2. ASSUME NEW q \in Requests, EnterHandler(q) PROVE request'[r] = request[r]
      BY <3>2, <1>5, EnterEffect
    <3>3. ASSUME NEW q \in Requests, request' = [request EXCEPT ![q] = Idle]
          PROVE request'[r] = request[r]
      BY <3>3, <1>a, <1>5 DEF Idle
    <3>4. ASSUME NEW q \in Requests, NotAcquired(q) PROVE request'[r] = request[r]
      BY <3>4, <1>a, <1>5 DEF NotAcquired, Goto, Progress
    <3> QED
      BY <2>3, <3>1, <3>2, <3>3, <3>4
      DEF ApiNext, ApiStep, Middleware, AcquireFails, State, StateFails, Complete,
          CompleteFails, Finish, AccessChecked, CommandStored, CommandRefused, Panic,
          HandlerFails, CrashApi, Crash, Drop, Expire, ToggleAccess, apiVars, vars
  <2> QED
    BY <2>1, <2>2, <2>3, <1>b, <1>2, <1>5
<1>6. ASSUME NEW r \in Requests, NEW k, NEW resp, Answered(r)',
             reply'[r].key = k, reply'[r].resp = resp
      PROVE Sound(k, resp)'
  <2>1. CASE Respond(r)
    <3>1. PICK l \in Keys, answer \in Responses :
              Sound(l, answer)' /\ reply'[r] = Fresh(l, answer)
      BY <2>1, RespondSound
    <3>2. l = k /\ answer = resp
      BY <3>1, <1>6 DEF Fresh
    <3> QED
      BY <3>1, <3>2
  <2>2. ASSUME NEW q \in Requests, Respond(q), q # r PROVE reply'[r] = reply[r]
    BY <2>2, RespondSound
  <2>3. ASSUME \A q \in Requests : ~ Respond(q)
        PROVE \/ reply'[r] = reply[r]
              \/ /\ request[r].pc = "state"
                 /\ store[request[r].key].status = "COMPLETED"
                 /\ reply'[r] = Replayed(request[r].key, store[request[r].key].resp)
    <3>1. ASSUME NEW q \in Requests, NEW kind \in ReplyKinds \ {"fresh", "replayed"},
                 reply' = [reply EXCEPT ![q] = Short(kind)]
          PROVE reply'[r] = reply[r]
      BY <3>1, <1>a, <1>6 DEF Answered, Short
    <3>2. ASSUME NEW q \in Requests, State(q)
          PROVE \/ reply'[r] = reply[r]
                \/ /\ request[r].pc = "state"
                   /\ store[request[r].key].status = "COMPLETED"
                   /\ reply'[r] = Replayed(request[r].key, store[request[r].key].resp)
      <4>1. CASE store[request[q].key].status = "COMPLETED"
        <5>1. reply' = [reply EXCEPT ![q] =
                            Replayed(request[q].key, store[request[q].key].resp)]
          BY <3>2, <4>1 DEF State, Finish
        <5> QED
          BY <3>2, <4>1, <5>1, <1>a DEF State
      <4>2. CASE store[request[q].key].status # "COMPLETED"
        <5>1. PICK kind \in {"conflict", "internal"} :
                  reply' = [reply EXCEPT ![q] = Short(kind)]
          BY <3>2, <4>2 DEF State, Finish
        <5> QED
          BY <3>1, <5>1 DEF ReplyKinds
      <4> QED
        BY <4>1, <4>2
    <3>3. ASSUME NEW q \in Requests, Middleware(q), ~ State(q) PROVE reply'[r] = reply[r]
      <4>1. reply' = reply \/ reply' = [reply EXCEPT ![q] = Short("internal")]
        BY <3>3 DEF Middleware, NotAcquired, AcquireFails, StateFails, Complete,
                    CompleteFails, Finish
      <4> QED
        BY <3>1, <4>1 DEF ReplyKinds
    <3>4. ASSUME NEW q \in Requests,
                 \/ \E l \in Keys : SendMutation(q, l)
                 \/ Panic(q)
                 \/ CrashApi(q)
          PROVE reply'[r] = reply[r]
      <4>1. \/ reply' = reply
            \/ \E kind \in {"none", "internal", "lost"} :
                    reply' = [reply EXCEPT ![q] = Short(kind)]
        BY <3>4 DEF SendMutation, Send, Panic, HandlerFails, CrashApi, Crash, Finish
      <4> QED
        BY <3>1, <4>1 DEF ReplyKinds
    <3>5. ASSUME NEW q \in Requests, EnterHandler(q) PROVE reply'[r] = reply[r]
      BY <3>5, EnterEffect
    <3> QED
      BY <2>3, <3>2, <3>3, <3>4, <3>5
      DEF ApiNext, ApiStep, AccessChecked, CommandStored, CommandRefused, Drop, Expire,
          ToggleAccess, apiVars, vars
  <2>4. CASE reply'[r] = reply[r]
    BY <2>4, <1>c, <1>3, <1>6 DEF Answered
  <2>5. CASE /\ request[r].pc = "state"
             /\ store[request[r].key].status = "COMPLETED"
             /\ reply'[r] = Replayed(request[r].key, store[request[r].key].resp)
    BY <2>5, <1>b, <1>1, <1>6 DEF Replayed
  <2> QED
    BY <2>1, <2>2, <2>3, <2>4, <2>5
<1>7. \A k \in Keys : (store[k].status = "COMPLETED" => Sound(k, store[k].resp))'
  BY <1>4 DEF Sound
<1>8. \A r \in Requests : (request[r].pc = "complete" => Sound(request[r].key, request[r].resp))'
  BY <1>5 DEF Sound
<1>9. \A r \in Requests : (Answered(r) => Sound(reply[r].key, reply[r].resp))'
  BY <1>6 DEF Sound
<1> QED
  BY <1>7, <1>8, <1>9 DEF ResponsesSound

\* The middleware keeps its types, and so do handlers and rows.
LEMMA ApiTypeStep ==
    TypeInv /\ TypeInv' /\ ApiIInv /\ [ApiNext]_apiVars => ApiTypeOK'
<1> SUFFICES ASSUME TypeInv, TypeInv', ApiIInv, [ApiNext]_apiVars PROVE ApiTypeOK'
  OBVIOUS
<1>a. work \in [Requests -> Work] /\ granted \in BOOLEAN /\ rows \subseteq Row
  BY DEF ApiIInv, ApiTypeOK
<1>b. /\ NoWork \in Work
      /\ [phase |-> "check", outcome |-> Nil] \in Work
      /\ [phase |-> "command", outcome |-> Nil] \in Work
  BY DEF Work, NoWork
<1>c. \A outcome \in Outcomes : [phase |-> "answer", outcome |-> outcome] \in Work
  BY HttpApiAssumption DEF HttpApiAssumption, Work
<1>1. work' \in [Requests -> Work]
  <2>1. ASSUME NEW r \in Requests, ApiStep(r) \/ CrashApi(r) PROVE work' \in [Requests -> Work]
    <3>1. work' = work \/ \E w \in Work : work' = [work EXCEPT ![r] = w]
      BY <2>1, <1>b, <1>c
      DEF ApiStep, EnterHandler, Middleware, AccessChecked, CommandStored, CommandRefused,
          Respond, Panic, CrashApi, Enter, Leave, Outcomes
    <3> QED
      BY <3>1, <1>a
  <2> QED
    BY <2>1, <1>a DEF ApiNext, SendMutation, Drop, ToggleAccess, apiVars
<1>2. granted' \in BOOLEAN
  BY <1>a
  DEF ApiNext, SendMutation, ApiStep, EnterHandler, Middleware, AccessChecked, CommandStored,
      CommandRefused, Respond, Panic, CrashApi, Drop, ToggleAccess, apiVars
<1>3. rows' \subseteq Row
  <2>1. ASSUME NEW r \in Requests, CommandStored(r) PROVE rows' \subseteq Row
    <3>1. request[r].key \in Keys /\ request[r].run \in Nat
      BY <2>1 DEF CommandStored, ApiIInv, WorkInv, TypeInv, TypeOK, Progress
    <3> QED
      BY <2>1, <3>1, <1>a DEF CommandStored, StoreRow, Row
  <2>2. rows' = rows => rows' \subseteq Row
    BY <1>a
  <2> QED
    BY <2>1, <2>2, OtherSteps, EnterEffect
<1> QED
  BY <1>1, <1>2, <1>3 DEF ApiTypeOK, TypeInv

LEMMA ApiInitInv == ApiInit => ApiIInv
<1> SUFFICES ASSUME ApiInit PROVE ApiIInv
  OBVIOUS
<1>1. TypeInv
  BY InitType DEF ApiInit
<1>2. ApiTypeOK
  BY <1>1 DEF ApiInit, ApiTypeOK, TypeInv, Work, NoWork
<1>3. \A r \in Requests : request[r].pc = "idle" /\ ~ Answered(r) /\ work[r].phase = "none"
  BY DEF ApiInit, Init, Idle, Short, Answered, NoWork
<1>4. rows = {} /\ \A k \in Keys : store[k].status = ""
  BY DEF ApiInit, Init, Absent
<1> QED
  BY <1>2, <1>3, <1>4 DEF ApiIInv, WorkInv, RowsExecuted, ResponsesSound, InHandler, Stored

LEMMA ApiAlways == ApiSpec => [](TypeInv /\ ExecutionsCovered /\ ApiIInv)
<1>1. ApiInit => TypeInv /\ ExecutionsCovered /\ ApiIInv
  BY ApiInitInv, InitType, InitCovered DEF ApiInit
<1>2. TypeInv /\ ExecutionsCovered /\ ApiIInv /\ [ApiNext]_apiVars
        => TypeInv' /\ ExecutionsCovered' /\ ApiIInv'
  <2> SUFFICES ASSUME TypeInv, ExecutionsCovered, ApiIInv, [ApiNext]_apiVars
               PROVE TypeInv' /\ ExecutionsCovered' /\ ApiIInv'
    OBVIOUS
  <2>1. TypeInv' /\ ExecutionsCovered'
    BY ApiStepMaps, TypeStep, CoveredStep
  <2>2. ApiTypeOK' /\ WorkInv' /\ RowsExecuted' /\ ResponsesSound'
    BY <2>1, ApiTypeStep, WorkStep, RowsStep, ResponsesStep
  <2> QED
    BY <2>1, <2>2 DEF ApiIInv
<1> QED
  BY <1>1, <1>2, PTL DEF ApiSpec

\* Middleware, handlers and rows have their types in every reachable state.
THEOREM ApiTypeCorrect == ApiSpec => []ApiTypeOK
<1>1. ApiIInv => ApiTypeOK
  BY DEF ApiIInv
<1> QED
  BY ApiAlways, <1>1, PTL

\* Every answer a client holds, fresh or replayed, is true of the table: 204
\* exactly if the run it stems from has stored its row.
THEOREM AnswersAreTrue == ApiSpec => []AnswersMatchTable
<1>1. TypeInv /\ ApiIInv => AnswersMatchTable
  <2> SUFFICES ASSUME TypeInv, ApiIInv, NEW r \in Requests, Answered(r)
               PROVE reply[r].resp.outcome = "done" <=> StoredRun(r) # {}
    BY DEF AnswersMatchTable
  <2>1. reply[r].resp.outcome = "done" <=> Stored(reply[r].key, reply[r].resp.run)
    BY DEF ApiIInv, ResponsesSound, Sound
  <2>2. StoredRun(r) # {} <=> Stored(reply[r].key, reply[r].resp.run)
    BY DEF ApiIInv, ApiTypeOK, Row, StoredRun, Stored
  <2> QED
    BY <2>1, <2>2
<1> QED
  BY ApiAlways, <1>1, PTL
=============================================================================
