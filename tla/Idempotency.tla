---------------------------- MODULE Idempotency -----------------------------
(***************************************************************************)
(* The idempotency middleware of httpadapter/idempotency.go over the       *)
(* Valkey store of driven/valkey_idempotency_store.go, with the clients    *)
(* that send a mutation, lose the reply, and send it again under the same  *)
(* key, possibly while the first is still running.                         *)
(*                                                                         *)
(* The handler behind the middleware is abstracted to its outcome; what it *)
(* does to the database is one step.  A key's time to live is abstracted   *)
(* to the fact that the store may drop it at any time after it was set     *)
(* (expiry or eviction).  Requests without a key, or with a malformed one, *)
(* never reach the store and are left out.                                 *)
(***************************************************************************)
EXTENDS Integers

CONSTANTS
    Nil,
    Keys,       \* store keys: the player's scope and the client's key
    LoginKeys,  \* the keys clients use for /login; the others are commands
    Requests,   \* connections, each carrying one request at a time
    MaxExpired  \* bound: how often the store drops each key

ASSUME IdempotencyAssumption ==
    /\ LoginKeys \subseteq Keys
    /\ MaxExpired \in Nat
    /\ Nil \notin Keys

VARIABLES
    store,      \* per key: its status ("" when absent) and cached response
    request,    \* per request: the middleware's place in the code, and its key
    reply,      \* per request: what the client has received
    executed,   \* history: how often each key's handler was called
    expired     \* history: how often the store dropped each key

vars == <<store, request, reply, executed, expired>>

(***************************************************************************)
(* Responses.  A handler answers "done" once its mutation is stored, or    *)
(* "rejected" with a body that says why not; run tells executions apart.   *)
(* The session cookie is a header of a successful login.                   *)
(***************************************************************************)
Outcomes == {"done", "rejected"}
Responses == [outcome : Outcomes, run : Nat]

\* What a client holds: nothing yet, a handler's response (fresh or replayed),
\* 409 for a key in progress, 500, or a closed connection.
ReplyKinds == {"none", "fresh", "replayed", "conflict", "internal", "lost"}
Reply == {a \in [kind : ReplyKinds, key : Keys \cup {Nil},
                 resp : Responses \cup {Nil}, cookie : BOOLEAN] :
            a.kind \in {"fresh", "replayed"} => a.key \in Keys}

Short(kind) == [kind |-> kind, key |-> Nil, resp |-> Nil, cookie |-> FALSE]

Fresh(k, resp) ==
    [kind |-> "fresh", key |-> k, resp |-> resp,
     cookie |-> k \in LoginKeys /\ resp.outcome = "done"]

\* replayIdempotentResponse: status and body only, no headers.
Replayed(k, resp) ==
    [kind |-> "replayed", key |-> k, resp |-> resp, cookie |-> FALSE]

Entry == [status : {"", "IN_PROGRESS", "COMPLETED"}, resp : Responses \cup {Nil}]
Absent == [status |-> "", resp |-> Nil]
InProgress == [status |-> "IN_PROGRESS", resp |-> Nil]
Completed(resp) == [status |-> "COMPLETED", resp |-> resp]

Progress == [pc : {"idle", "acquire", "state", "handler", "complete"},
             key : Keys \cup {Nil}, run : Nat, resp : Responses \cup {Nil}]
Idle == [pc |-> "idle", key |-> Nil, run |-> 0, resp |-> Nil]

Goto(r, pc) == request' = [request EXCEPT ![r].pc = pc]

Finish(r, answer) ==
    /\ request' = [request EXCEPT ![r] = Idle]
    /\ reply' = [reply EXCEPT ![r] = answer]

(***************************************************************************)
(* The client sends a request, for the first time or as a retry.           *)
(***************************************************************************)
Send(r, k) ==
    /\ request[r].pc = "idle"
    /\ request' = [request EXCEPT ![r] = [Idle EXCEPT !.pc = "acquire", !.key = k]]
    /\ reply' = [reply EXCEPT ![r] = Short("none")]
    /\ UNCHANGED <<store, executed, expired>>

(***************************************************************************)
(* Acquire: SET key IN_PROGRESS NX EX ttl.                                 *)
(***************************************************************************)

CallNext(r) ==
    LET k == request[r].key
    IN /\ store' = [store EXCEPT ![k] = InProgress]
       /\ executed' = [executed EXCEPT ![k] = @ + 1]
       /\ request' = [request EXCEPT ![r].pc = "handler", ![r].run = executed[k] + 1]
       /\ UNCHANGED <<reply, expired>>

\* Mutant: a key in progress is claimed again (SET without NX).
MutAcquire(r) ==
    /\ request[r].pc = "acquire"
    /\ store[request[r].key].status # "COMPLETED"
    /\ CallNext(r)

\* The key was absent: the middleware calls next, the handler.
Acquire(r) ==
    /\ request[r].pc = "acquire"
    /\ store[request[r].key] = Absent
    /\ CallNext(r)

NotAcquired(r) ==
    /\ request[r].pc = "acquire"
    /\ store[request[r].key] # Absent
    /\ Goto(r, "state")
    /\ UNCHANGED <<store, reply, executed, expired>>

\* The client of the store reports an error: 500.  The command may have been
\* applied all the same, which claims a key nobody works on.
AcquireFails(r) ==
    /\ request[r].pc = "acquire"
    /\ \/ UNCHANGED store
       \/ /\ store[request[r].key] = Absent
          /\ store' = [store EXCEPT ![request[r].key] = InProgress]
    /\ Finish(r, Short("internal"))
    /\ UNCHANGED <<executed, expired>>

(***************************************************************************)
(* State: a second round trip, after which the middleware answers.         *)
(***************************************************************************)
\* Mutant: a request whose key is in progress polls until it is completed.
MutState(r) ==
    /\ request[r].pc = "state"
    /\ LET k == request[r].key
           s == store[k]
       IN IF s.status = "IN_PROGRESS" THEN Goto(r, "acquire") /\ UNCHANGED reply
          ELSE Finish(r, IF s.status = "COMPLETED" THEN Replayed(k, s.resp)
                         ELSE Short("internal"))
    /\ UNCHANGED <<store, executed, expired>>

State(r) ==
    /\ request[r].pc = "state"
    /\ LET k == request[r].key
           s == store[k]
       IN Finish(r, CASE s.status = "IN_PROGRESS" -> Short("conflict")
                      [] s.status = "COMPLETED" -> Replayed(k, s.resp)
                      [] OTHER -> Short("internal"))
    /\ UNCHANGED <<store, executed, expired>>

StateFails(r) ==
    /\ request[r].pc = "state"
    /\ Finish(r, Short("internal"))
    /\ UNCHANGED <<store, executed, expired>>

(***************************************************************************)
(* The handler of a request that won its key.  Its response goes out on    *)
(* the wire before Complete is called.                                     *)
(***************************************************************************)
Handle(r) ==
    /\ request[r].pc = "handler"
    /\ \E outcome \in Outcomes :
        LET resp == [outcome |-> outcome, run |-> request[r].run]
        IN /\ reply' = [reply EXCEPT ![r] = Fresh(request[r].key, resp)]
           /\ request' = [request EXCEPT ![r].pc = "complete", ![r].resp = resp]
    /\ UNCHANGED <<store, executed, expired>>

\* The handler returns an error or panics, before or after its effect, or the
\* response cannot be written: Complete is skipped and the key stays claimed.
HandlerFails(r) ==
    /\ request[r].pc = "handler"
    /\ Finish(r, Short("internal"))
    /\ UNCHANGED <<store, executed, expired>>

(***************************************************************************)
(* Complete: SET key COMPLETED|code|body EX ttl, without a condition, so   *)
(* it also recreates a key that expired and overwrites a later request's   *)
(* claim.                                                                  *)
(***************************************************************************)

\* Mutant: the recorded status code is lost, every response is cached as done.
MutComplete(r) ==
    /\ request[r].pc = "complete"
    /\ store' = [store EXCEPT ![request[r].key] =
                    Completed([request[r].resp EXCEPT !.outcome = "done"])]
    /\ request' = [request EXCEPT ![r] = Idle]
    /\ UNCHANGED <<reply, executed, expired>>

Complete(r) ==
    /\ request[r].pc = "complete"
    /\ store' = [store EXCEPT ![request[r].key] = Completed(request[r].resp)]
    /\ request' = [request EXCEPT ![r] = Idle]
    /\ UNCHANGED <<reply, executed, expired>>

\* The store is unreachable, or the client hung up and its context is
\* cancelled: logged and ignored, the key stays as it is.
CompleteFails(r) ==
    /\ request[r].pc = "complete"
    /\ request' = [request EXCEPT ![r] = Idle]
    /\ UNCHANGED <<store, reply, executed, expired>>

(***************************************************************************)
(* The server stops (or is killed) with the request under way.             *)
(***************************************************************************)
Crash(r) ==
    /\ request[r].pc # "idle"
    /\ request' = [request EXCEPT ![r] = Idle]
    /\ reply' = IF reply[r].kind = "none"
                THEN [reply EXCEPT ![r] = Short("lost")] ELSE reply
    /\ UNCHANGED <<store, executed, expired>>

Expire(k) ==
    /\ store[k] # Absent
    /\ expired[k] < MaxExpired
    /\ store' = [store EXCEPT ![k] = Absent]
    /\ expired' = [expired EXCEPT ![k] = @ + 1]
    /\ UNCHANGED <<request, reply, executed>>

Init ==
    /\ store = [k \in Keys |-> Absent]
    /\ request = [r \in Requests |-> Idle]
    /\ reply = [r \in Requests |-> Short("none")]
    /\ executed = [k \in Keys |-> 0]
    /\ expired = [k \in Keys |-> 0]

\* The steps the server takes on its own once a request has arrived.
ServerStep(r) ==
    \/ Acquire(r) \/ NotAcquired(r) \/ AcquireFails(r)
    \/ State(r) \/ StateFails(r)
    \/ Handle(r) \/ HandlerFails(r)
    \/ Complete(r) \/ CompleteFails(r)

Next ==
    \/ \E r \in Requests :
        \/ \E k \in Keys : Send(r, k)
        \/ ServerStep(r)
        \/ Crash(r)
    \/ \E k \in Keys : Expire(k)

Spec == Init /\ [][Next]_vars

(***************************************************************************)
(* Properties.                                                             *)
(***************************************************************************)

\* Type correctness of the store, the requests and their replies.
TypeOK ==
    /\ store \in [Keys -> Entry]
    /\ request \in [Requests -> Progress]
    /\ reply \in [Requests -> Reply]
    /\ executed \in [Keys -> Nat]
    /\ expired \in [Keys -> Nat]

\* At most one execution per lifetime of a key: however often a mutation is
\* sent and whatever fails in between, its handler is called once, plus once
\* at most for each time the store dropped the key.
AtMostOncePerLifetime ==
    \A k \in Keys : executed[k] <= 1 + expired[k]

Answered(r) == reply[r].kind \in {"fresh", "replayed"}

\* As long as the store has not dropped a key, all clients that hold an answer
\* of its handler hold the same one, be it fresh or replayed.
OneAnswerPerKey ==
    \A r, q \in Requests :
        Answered(r) /\ Answered(q) /\ reply[r].key = reply[q].key
            /\ expired[reply[r].key] = 0
        => reply[r].resp = reply[q].resp

\* A completed key stays what it is until the store drops it for the first
\* time: no late Complete and no retry overwrites the cached response.
CompletedStays ==
    [][\A k \in Keys :
        store[k].status = "COMPLETED" /\ expired'[k] = 0
            => store'[k] = store[k]]_vars

\* The API description says of a 204 from /login that authentication cookies
\* are set; a replayed one is a 204 like any other.
LoginSetsCookie ==
    \A r \in Requests :
        Answered(r) /\ reply[r].key \in LoginKeys /\ reply[r].resp.outcome = "done"
            => reply[r].cookie

\* Every request gets an answer, or loses its connection to a crash; in
\* particular one that finds its key taken and then gone is not left waiting.
EveryRequestAnswered ==
    \A r \in Requests :
        request[r].pc = "acquire" ~> reply[r].kind # "none"
=============================================================================
