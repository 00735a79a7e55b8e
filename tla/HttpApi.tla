------------------------------ MODULE HttpApi -------------------------------
(***************************************************************************)
(* The mutations of the API end to end: the idempotency middleware of      *)
(* Idempotency with the handlers behind it, which check the player's       *)
(* access to the game and then run the command that inserts a row.  The    *)
(* middleware stands in front of the access check, so a refusal is cached  *)
(* like any other answer.                                                  *)
(*                                                                         *)
(* One player and one game; /save, /play and /pause differ in nothing that *)
(* matters here, for a key names the player and not the endpoint.  Whether *)
(* the trigger lets a command through (GameLog) is left open.  Parsing of  *)
(* the game id and the body happens in the handler and is a refusal.       *)
(***************************************************************************)
EXTENDS Idempotency

ASSUME HttpApiAssumption == Nil \notin Outcomes

VARIABLES
    work,       \* per request: how far its handler is
    granted,    \* the player has access to the game
    rows        \* the rows stored, by key and run of the handler

apiVars == <<vars, work, granted, rows>>

Row == [key : Keys, run : Nat]

Work == {w \in [phase : {"none", "check", "command", "answer"},
                outcome : Outcomes \cup {Nil}] :
            w.phase = "answer" => w.outcome # Nil}

NoWork == [phase |-> "none", outcome |-> Nil]

Enter(r, phase, outcome) ==
    work' = [work EXCEPT ![r] = [phase |-> phase, outcome |-> outcome]]

Leave(r) == work' = [work EXCEPT ![r] = NoWork]

(***************************************************************************)
(* The middleware.                                                         *)
(***************************************************************************)
SendMutation(r, k) == Send(r, k) /\ UNCHANGED <<work, granted, rows>>

\* The request won its key: next(c).
EnterHandler(r) ==
    /\ Acquire(r)
    /\ Enter(r, "check", Nil)
    /\ UNCHANGED <<granted, rows>>

\* The steps that do not concern the handler.
Middleware(r) ==
    /\ \/ NotAcquired(r) \/ AcquireFails(r)
       \/ State(r) \/ StateFails(r)
       \/ Complete(r) \/ CompleteFails(r)
    /\ UNCHANGED <<work, granted, rows>>

(***************************************************************************)
(* The handlers.                                                           *)
(***************************************************************************)

\* Mutant: a player without access gets no response, and the handler goes on.
MutAccessChecked(r) ==
    /\ work[r].phase = "check"
    /\ \/ Enter(r, "command", Nil)
       \/ ~ granted /\ Enter(r, "answer", Nil)
    /\ UNCHANGED <<vars, granted, rows>>

\* accessChecked: no access is a 404, an invalid game id a 400, an error of
\* the query a 500.
AccessChecked(r) ==
    /\ work[r].phase = "check"
    /\ \/ granted /\ Enter(r, "command", Nil)
       \/ Enter(r, "answer", "rejected")
    /\ UNCHANGED <<vars, granted, rows>>

StoreRow(r) ==
    rows' = rows \cup {[key |-> request[r].key, run |-> request[r].run]}

\* The row is stored: 204.
CommandStored(r) ==
    /\ work[r].phase = "command"
    /\ StoreRow(r)
    /\ Enter(r, "answer", "done")
    /\ UNCHANGED <<vars, granted>>

\* Mutant: an error other than a conflict is logged and answered with 204.
MutCommandRefused(r) ==
    /\ work[r].phase = "command"
    /\ \E outcome \in Outcomes : Enter(r, "answer", outcome)
    /\ UNCHANGED <<vars, granted, rows>>

\* A body that does not parse, a duration below 1, a conflict by the trigger
\* or an insert that fails: 400, 409, 500.
CommandRefused(r) ==
    /\ work[r].phase = "command"
    /\ Enter(r, "answer", "rejected")
    /\ UNCHANGED <<vars, granted, rows>>

\* The response goes out, and is recorded on the way.
Respond(r) ==
    /\ work[r].phase = "answer"
    /\ Handle(r)
    /\ request'[r].resp.outcome = work[r].outcome
    /\ Leave(r)
    /\ UNCHANGED <<granted, rows>>

\* A panic, or a response that cannot be written, at any point of the handler.
Panic(r) ==
    /\ HandlerFails(r)
    /\ Leave(r)
    /\ UNCHANGED <<granted, rows>>

CrashApi(r) ==
    /\ Crash(r)
    /\ Leave(r)
    /\ UNCHANGED <<granted, rows>>

(***************************************************************************)
(* The environment: keys are dropped, the manager grants and revokes.      *)
(***************************************************************************)
Drop(k) == Expire(k) /\ UNCHANGED <<work, granted, rows>>

ToggleAccess ==
    /\ granted' = ~ granted
    /\ UNCHANGED <<vars, work, rows>>

ApiInit ==
    /\ Init
    /\ work = [r \in Requests |-> NoWork]
    /\ granted \in BOOLEAN
    /\ rows = {}

ApiStep(r) ==
    \/ EnterHandler(r)
    \/ Middleware(r)
    \/ AccessChecked(r)
    \/ CommandStored(r)
    \/ CommandRefused(r)
    \/ Respond(r)
    \/ Panic(r)

ApiNext ==
    \/ \E r \in Requests :
        \/ \E k \in Keys : SendMutation(r, k)
        \/ ApiStep(r)
        \/ CrashApi(r)
    \/ \E k \in Keys : Drop(k)
    \/ ToggleAccess

ApiSpec == ApiInit /\ [][ApiNext]_apiVars

\* Every request under way moves on: each call to the store and the database
\* returns, if only with an error.  Clients need not send, nothing need crash,
\* and no key need be dropped.
ApiFairSpec == ApiSpec /\ \A r \in Requests : WF_apiVars(ApiStep(r))

(***************************************************************************)
(* Properties.                                                             *)
(***************************************************************************)

\* Type correctness of the API; a handler answers only what it has decided.
ApiTypeOK ==
    /\ TypeOK
    /\ work \in [Requests -> Work]
    /\ granted \in BOOLEAN
    /\ rows \subseteq Row

StoredRun(r) ==
    {row \in rows : row.key = reply[r].key /\ row.run = reply[r].resp.run}

\* An answer of the handler, fresh or replayed much later, is true of the
\* table: 204 exactly if the run it stems from has stored its row.
AnswersMatchTable ==
    \A r \in Requests :
        Answered(r) => (reply[r].resp.outcome = "done" <=> StoredRun(r) # {})
=============================================================================
