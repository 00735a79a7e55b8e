# keep-it-up: a TLA+ model

keep-it-up tracks whether a shared game is still within its interaction window.
Players *save* (buy time), *pause* and *resume*; the state of a game is never
stored, it is recomputed by replaying its interactions. This directory holds
TLA+ modules of that program, TLC configurations that check them on small
instances, and theorems that TLAPS proves for all values of the constants.

Paths below are relative to the repository's root (`src/` here). "uc" is
`internal/application/usecase`.

## 1. The system

Two processes work on one SQLite file: the **server** (`cmd/server`), an HTTP
API whose handlers run as goroutines, and the **manager** (`cmd/manager`), a
one-shot command line tool for administration that can also run commands. The
server keeps idempotency keys in a Valkey store.

```
   client --HTTP--> middleware: token -> idempotency -> access check -> handler
                                           |                              |
                                         Valkey                     use cases (uc)
                                                                          |
   manager ------------------------- use cases (uc) ------------------- SQLite
```

| component | state | operations | what makes it correct |
|---|---|---|---|
| shared data (`core/service/shared_data.go`) | none; a fold over rows | `BuildSharedData`, `ComputeValid` | fails exactly on what is no history; the deadline is first save + time bought + time paused; a pause freezes it |
| game commands (`uc/game_commands.go`), table `interactions` with its trigger | the rows | `SaveGame`, `PauseGame`, `ResumeGame` | rows in time order, only legal sequences, no command refused without need |
| data fetching (`uc/data_fetching.go`) | none | `GetSharedData`, list games, list interactions by page, the first and the last one | every stored table can be replayed; an answer is not older than it claims; a client that pages misses no row |
| idempotency (`driver/httpadapter/idempotency.go`, `driven/valkey_idempotency_store.go`) | per key: absent, in progress, completed with a response; a time to live | `Acquire`, `State`, `Complete`, the middleware around the handler | one execution per lifetime of a key, one answer per key, every request answered |
| access (`uc/access_management.go`) | table `access` | grant, revoke, check | no command stored without access |
| games, players (`uc/game_management.go`, `uc/player_management.go`) | tables `games`, `players` | add, update, delete, list, change passwords | a password is changed only by who showed the one it replaces, or by the manager's force |
| authentication, tokens (`uc/authentication.go`, `driven/jwt_token_generator.go`) | the tokens clients hold | check password, log in, log out | a token is given only to who showed its player's password |
| HTTP adapter (`driver/httpadapter`) | requests under way | routes, handlers, error mapping | composition of token, key, access check and command; shutdown |
| command line adapter (`driver/cliadapter`) | none | the administration, commands | calls the same use cases |
| server and manager process | connections, goroutines, the exit code | start, signal handling, shutdown | the process ends when told to; exit code 0 means that no request was cut off or found the store or the database closed |
| configuration, ports, generated queries | none | parsing, interfaces | not a subject of the models |

Interaction is by calls; state is shared only through SQLite and Valkey. There
is no transaction in the program: every use case issues single statements, so
what must hold across two of them is left to the trigger, to primary keys, or
to nothing. That makes these behaviours the hard ones:

* a command reads the clock and inserts later; others overtake it in between,
  and the wall clock can be set back;
* the trigger compares *text* of local times, the replay compares instants;
* two state machines, the trigger's and the replay's, must accept the same
  sequences, for what the first stores and the second rejects can never be read;
* a reader lists rows, then reads the clock;
* an idempotency key is claimed, worked under and completed in three round
  trips, each of which can fail, be cut off by a crash or outlive the key;
* the access check and the insert are two statements, with revocations, deletions
  and reused ids in between;
* an id is looked up by username, then used after bcrypt has taken its time or for
  as long as a token lives, while accounts come and go;
* a client pages by offset while rows are inserted at the front;
* `run()`, the goroutine that serves, the one that listens, signals and requests
  all meet in the shutdown, which stops waiting after five seconds;
* durations are Go integers of 64 bits.

`PROJECT.json` lists each hazard at its line with the properties that cover it.

## 2. The modules

| module | models | by |
|---|---|---|
| `SharedData` | `core/service/shared_data.go` | `ReplayStep` is one iteration of the loop of `BuildSharedData`, with its error returns (`ReplayError`) and the three branches (`ApplySaved`, `ApplyPaused`, `ApplyResumed`); `Replay` the loop; `ComputeValid`. `Wrap` and `Sub` are `time.Duration`'s wrap-around and `Time.Sub`'s saturation |
| `ReplayCheck` | the same, on its own | a list of arbitrary interactions that grows |
| `SharedGame` | the abstract game | a deadline while playing, time left while paused |
| `GameLog` | the three commands, the trigger and CHECK constraints, the clock | `SaveGame`/`PauseGame`/`ResumeGame` read the clock, `Insert`, `RefuseOutOfOrder`, `RefuseConflict`, `InsertFails` are the outcomes of the INSERT; `Format`, `Parse`, `TextLT` are the conversion to text and SQLite's comparison |
| `GameLogRefinement` | | the refinement mapping from `GameLog` to `SharedGame` |
| `MCGameLog` | | `GameLog` and its refinement with symmetric workers |
| `GameRead` | `GetSharedData` beside the commands (extends `GameLog`) | `QueryRows`, `ReadTime`, `ReplayRow` once per row, `Answer` |
| `Idempotency` | the middleware, the store, clients that retry | one action per round trip and its failure: `Acquire`, `NotAcquired`, `AcquireFails`, `State`, `StateFails`, `Handle`, `HandlerFails`, `Complete`, `CompleteFails`; `Crash`, `Expire` |
| `HttpApi` | a mutation end to end: the middleware with the handlers behind it (extends `Idempotency`) | `EnterHandler`, `AccessChecked`, `CommandStored`, `CommandRefused`, `Respond`, `Panic` open up what `Idempotency` has as one step, `Handle`; `ToggleAccess` is the manager |
| `Directory` | administration beside commands over HTTP | `AddGame`, `DeleteGame`, `AddPlayer`, `DeletePlayer`, `GrantPlayerAccess`, `RevokePlayerAccess`, `RunCommand` (manager), `LoginPlayer`, `TokenExpires`, and a request's `Receive`, `AccessChecked`, `CommandStored`, `RequestFails` |
| `Accounts` | passwords, logins and tokens on those tables (extends `Directory`) | `LogIn`, `ChangePassword`, `ForcePassword` look a player up, `IssueToken`, `UpdatePassword`, `GiveUp` are what comes of it; `AddAccount`, `DeleteAccount`, `Expire` |
| `MCAccounts` | | `Accounts` with symmetric usernames and passwords |
| `Paging` | the listings beside the commands (extends `GameLog`) | `ListInteractions`, `FirstInteraction`, `LastInteraction` are the queries; `StartListing` and `FetchPage` a client that asks for page after page |
| `Lifecycle` | `run()` of `cmd/server/main.go` and `HTTPAdapter.Run` | one action per place in the code: `StartFails`, `Load`, `PingDatabase`, `PingStore`, `Done`, `Join`, `CloseStore`, `CloseDatabase`, `Exit` of `run()`; `Listen`, `ListenFails`; `BeginShutdown`, `Drained`, `ShutdownTimesOut`, `ReturnListenError`, `ReturnListenResult`, `Report`, `Stop`, `StoppedGracefully` of the goroutine that serves; `Interrupt`, `Kill`; `Accept`, `Arrive` of a connection and its request, which goes through `Acquire`, `Insert`, `Complete` or fails there (`AcquireFails`, `InsertFails`, `HandlerFails`, `CompleteFails`) |
| `SharedDataProofs`, `ReplayCheckProofs`, `GameLogProofs`, `DataFetchingProofs`, `IdempotencyProofs`, `HttpApiProofs`, `DirectoryProofs`, `LifecycleProofs` | | theorems; each is about the module it is named after, `DataFetchingProofs` about `GameRead` and `Paging`, `DirectoryProofs` also about `Accounts` |

Correspondence of state. `GameLog.interactions` is the table in id order (no
query deletes or updates a row; a cascade never fires, see below); `worker[w]`
is the argument of the statement a command is about to execute; `replayed` is
history, what the loop makes of a game's rows in the order of insertion.
`Idempotency.store` is Valkey, `request` the program counter of a request in
the middleware, `reply` what the client saw; `executed` and `expired` are
history. `Directory` has one variable per table; `sessions` are the player ids in
unexpired tokens. `Accounts.tokens` are those tokens, `caller` is what a login or a
password change has found and goes on with; what the caller showed at the lookup
(`by`) and that the account was deleted since (`gone`) are history. `HttpApi.work` is the place in the handler.
`Paging.pager` holds what the client sent, got and could have got. In `Lifecycle`,
`main`, `adapter`, `listener` and `request` are program counters, `opened` is what
the deferred calls have still to close; `fault`, why a call of a request failed,
is history.

Composition. `HttpApi`, `Accounts`, `Paging` and `GameRead` extend the module they
build on and add to its actions; every one of their steps is a step of that
module or leaves its variables alone. This is proved
(`ApiImplementsMiddleware`, `AccountsImplementDirectory`, `FetchingRunsTheLog`).

Abstractions worth knowing:

* Time counts ticks, `TicksPerSecond` to a second; `occurred_at` drops
  the fraction as the code's RFC 3339 layout does.
* A time as text is the pair of local time and offset, ordered as SQLite orders
  the text (`TextLT`).
* The CHECK on `occurred_at` calls `strftime` with `%z`, which SQLite does not
  know: it yields NULL, and a CHECK that is NULL passes. So it constrains
  nothing and is not in `ChecksHold`.
* `GameLog` leaves out players and `Directory` leaves out actions and times:
  the trigger reads no player, the access check no action.
* A key's time to live is the fact that `Expire` may happen at any time.
* A handler behind the middleware is its outcome in `Idempotency`; in `HttpApi` it is
  the access check and the command, whose outcome the trigger decides.
* A key names the player and not the endpoint, so `HttpApi` does not tell `/save`,
  `/play` and `/pause` apart: an answer replayed from a key may be that of another
  endpoint, as in the code.
* A password hash is the password. Display names are left out.
* In `Lifecycle` each request has a key of its own. Its calls may fail at any time,
  because the process has closed what they need or for reasons of their own (the
  store out of reach, the database busy, the client gone, a panic): `fault`
  tells the two apart. net/http's `Shutdown` is taken to be exact: each connection
  is either closed or waited for.
* Foreign keys are declared, but SQLite enforces them only on connections that
  ask for it and neither `main` does, so `Directory` neither cascades nor
  requires rows to exist. Ids are rowids without AUTOINCREMENT: the largest
  plus one (`IsNextId`).

## 3. What TLC checks

`tlc -config <cfg> <module>` runs one instance, for example
`tlc -config GameLog.cfg MCGameLog`; `PROJECT.json` lists them all.
`tlapm <module>` checks the proofs of a module.

Passing runs:

| run | asks | bounds |
|---|---|---|
| `log` | does the trigger keep rows in time order (`RowsInTimeOrder`), refuse only what was overtaken (`RefusedOnlyIfOvertaken`), leave a table whose replay query follows the order of the commands (`ReplayFollowsInsertion`), is a pause a freeze (`FrozenWhilePaused`), is a deadline never made earlier (`DeadlineNeverShrinks`), and do commands, trigger and replay implement `SharedGame` (`RefinesSharedGame`)? | 2 games, 2 workers, 3 rows, instants 0..2, clock set back once, durations 0 (rejected) and 2 |
| `read` | can every table be replayed (`ReplayNeverFails`), and did a positive answer hold when the rows were listed (`PositiveAnswerSound`)? | 1 game, 1 worker beside the reader, 4 rows, instants 0..2, clock set back once |
| `replay` | does `BuildSharedData` fail exactly on what is no history and otherwise compute the documented sum (`ReplayMatchesReference`); can a pause or resume change the answer (`PauseAndResumeKeepValidity`)? | all lists of up to 5 interactions, legal or not, three instants |
| `paging` | does a client that pages while rows come in see every row that was there when it began (`NothingSlipsBehind`, `ListingComplete`); does the last interaction agree with the status (`LastAgreesWithStatus`) and the first one stay (`FirstStays`)? | 1 game, 2 players, 1 worker, 3 rows, pages of 1 and 2 rows, instants 0..1, clock set back once |
| `api` | one execution per lifetime of a key (`AtMostOncePerLifetime`), one answer (`OneAnswerPerKey`) that is true of the table (`AnswersMatchTable`), a cached response that stays (`CompletedStays`), every request answered (`EveryRequestAnswered`) | 1 key, 3 requests, 1 expiry |
| `accounts` | is a row over HTTP stored only for who had access during the request (`StoredOnlyIfEntitled`), and is a password changed, or a token issued, only through a call that showed the password of the account it found, or by the manager's force (`PasswordsGuardAccounts`)? | 1 game id, 2 player ids, 2 usernames, 2 passwords, 1 request, 1 login or password change at a time, 1 row |
| `lifecycle` | does an interrupt (`InterruptEndsProcess`) or a failed listener (`ListenFailureEndsProcess`) always end the process, and does exit code 0 mean that no request was cut off or found the store or the database closed, so that a stored row lacks its completed key only where the store or the handler failed (`ExitZeroMeansGraceful`)? | 2 requests |

Why the bounds are enough. An overtaking takes two workers of one game and
two instants; the second game is there for rows and refusals to get mixed up.
The replay's state machine has three states and its longest simple loop, save,
pause, resume, is three rows; the four or five rows of `read` and `replay` leave it
and come back. Setting the clock back once produces both late and early
writers. With three requests under one key one can hold the key, one can retry
and a third can see what either leaves; one expiry lets a late `Complete` meet a
claim made after the key was dropped, and a proof covers any number. Keys share
nothing, so one is enough. In `accounts` a request sees one game, while two
players are needed to tell whose access, id or password it was, and for an
id to change hands; the one caller overlaps with every deletion and addition,
and for any number of callers at a time there are the theorems. In
`paging` pages of one row under three rows are enough for a row to be pushed past two
offsets, pages of two for a page to be cut short. `Lifecycle` has no counters: two
requests let one finish while the other hangs. `Offsets = {0}` in the passing runs
is an assumption: see below. `FirstStays` is proved for all zones; without it
`LastAgreesWithStatus` fails as `ReplayNeverFails` does.

Fairness. Only `api` and `lifecycle` use it.

* `ApiFairSpec`: `WF(ApiStep(r))`, a request that has arrived moves on, since each
  call to the store or the database returns, with an error if nothing else;
  the steps of one request are sequential code, so weak fairness suffices.
  Clients need not send, access need not change, keys need not expire, and a
  crash is never required.
* `FairSpec` of `Lifecycle`: weak fairness of `run()`, of the goroutine that serves
  and of `Listen`: their calls return, `Shutdown` at the latest when its
  timeout fires. Nothing is assumed of requests, which may hang for ever, of
  signals, or of a listener that could fail: that the process ends all the same
  is the point. The process may stop, so deadlock is not checked there.

Runs in which TLC finds what the code does against what it says:

| run | property | what happens |
|---|---|---|
| `zones_read` | `ReplayNeverFails` | two writers show two UTC offsets (a change of daylight saving time is enough): the trigger, which compares local times, lets in a row that comes earlier than the last one, and no read of that game succeeds again. By the same comparison later commands are refused as out of order |
| `seconds` | `PausedAfterSaveStaysValid` | a pause in the same second as the save before it is not after it, and the paused game expires, though the comment at `core/service/shared_data.go:18` says it stays valid |
| `overflow` | `ReplayMatchesReference` | a duration above 2^63 ns wraps and moves the deadline back (also noted in `.docs/audit.md:74`) |
| `login` | `LoginSetsCookie` | a login replayed from its key is a 204 without the session cookie that `api/openapi.yaml:21` describes |
| `reuse` | `NewGameStartsEmpty` | a game added after the newest one was deleted gets its id, and with foreign keys off also its interactions |

## 4. What is proved

All theorems hold for all constants that meet the named assumptions of the
modules: any number of games, workers, requests, keys and rows.

**`SharedDataProofs`.** `BuildSharedData`'s loop is a recursive function of the
number of rows, and what it yields for a list of any length takes induction. The
library's induction theorems take an operator as a parameter, which the provers
cannot instantiate; `Induction` states the principle for a set of numbers instead
and gets it from a least missing element. With it `LoopExists` and
`LoopUnique` show that the loop's function is well defined, and `ReplayUnfolds`
that the replay of a list with one interaction more is one more iteration. The
module also has Go's arithmetic where it is exact (`WrapInRange`) and what an iteration
keeps (`IterationReplayable`, `IterationPauseClock`).

**`ReplayCheckProofs`.** Under `NoOverflow` (each `saved_by` and each span between two
times fits time.Duration; run `overflow` drops it): `ReplayIsReference`, for lists of
any length, and `ValidityNeedsSaveOrTime`, that a pause or a resume does not change
the answer at its own moment. That the deadline is the reference's sum is not
inductive alone: `RefInv` adds the status and the time of the last
interaction, which decide whether the next one fails (`FailsIfIllegal` against
`LegalGrows`), the time of an open pause, which the resume adds to the
deadline, and that the last save is no later than the last interaction. The sums
of the reference unfold from their last term by the same induction.

**`GameLogProofs`.** `TypeCorrect`; under `OneOffset` (all writers show one UTC
offset throughout, exactly what run `zones_read` drops) `OnlyOvertakenRefused`
and `InsertedInTimeOrder`. With one offset the text order is the order of
instants, which is the lemma everything rests on; the trigger then keeps the
rows ordered step by step. Of the interleavings nothing else need be known,
because the order is decided in the atomic INSERT.

`TableReplaysItsCommands`, under `OneOffset`: what a replay of the table yields is
what the commands did one by one. `LogInv` says that rows are in the order of
their texts and that each is legal after the row before it of its game, which
is what the trigger's latest row turns out to be. So the k-th row of the query is
the game's k-th row by id (`NthIs`), and an insert makes the list longer at its
end and nowhere else (`HistoryExtends`); `ReplayUnfolds` then makes
it one iteration (`ReplayExtends`), the one `Follows` has for the command.

`DeadlinesOnlyGrow`, under `NoOverflow` (every duration
asked for fits time.Duration, which run `overflow` drops) and in any zones:
a row the loop rejects leaves the deadline alone, a save adds a positive time, and
a resume the loop accepts is no earlier than its pause, because the last event
of a paused game is that pause (`PauseClock`). `PauseFreezes` follows from the
same invariant. `ImplementsSharedGame`, under `OneOffset`, `NoOverflow` and
`ShortHistory` (the log spans less than the 292 years of time.Duration): initial states map to the
initial state and each step to a step or a stutter. `Insert` is the only step
that moves the abstract game; `EventStep` shows, by the row's action, which
event it is. It needs the events' instants (`ClockInv`) and that the loop has
not failed (`LogInv`): the mapping gives a game that cannot be replayed no
abstract state.

**`DataFetchingProofs`, reads.** Under `OneOffset`, `ReadTypeCorrect` and
`ReplayAlwaysSucceeds`: the replay accepts every table the trigger lets come
about. To `LogInv` the invariant adds `LoopInv`, where the reader's loop is: the
status and the time it carries are those of the last row it has done. It is needed
because `reader.pc # "failed"` says nothing about the rows still to come.
`PositiveAnswersSound`: `AnswerInv` says that what the loop carries is the replay of
the rows up to the one it has done, and that the clock is read no earlier than
the rows were listed unless it was set back; a deadline that is still ahead
later was ahead before.

**`DataFetchingProofs`, listings.** `PageTypeCorrect`; `NothingSlips`: a new row
changes the order of no two others (`PositionGrows`), so positions only grow, and
a page takes away exactly the positions its offset steps over.
`ListingsComplete`, for any page size and in any zones: in a table that is in the order of its texts each
place of a listing is taken by one row (`AboveBijection`), so a page that is not full has
all the rows that are left (`PageCount`), and as many rows were returned as there are
by then. `ListingInv` carries the count from page to page. `FirstRowStays`, in
any zones: the trigger keeps each game's rows in the order of their texts
(`LegalLog`), so the row with the smallest id is the first for the query
too, and ids are never given twice. `LastRowIsStatus`, under `OneOffset`: by
`LogInv` and `Follows` both the query and the replay end with the row inserted last.

**`IdempotencyProofs`.** `IdempotencyTypeCorrect`; `AtMostOnce`, by
`ExecutionsCovered` (there are at most as many executions as drops, plus one
if the key is claimed now); `OneAnswer` and `CompletedIsFinal`, from `KeyInv`. `SoleHolder`
says that until a key is first dropped at most one request holds it, and then
it is in progress; `AnswersAgree` says that whatever response is stored, about to be
stored or held by a client is that holder's. An answer alone is not
inductive: the response travels through the handler, the store and a retry.

**`HttpApiProofs`.** `ApiImplementsMiddleware`: each step of the handlers is
`Handle`, `HandlerFails` or a stutter of `Idempotency`, so what is proved there
holds with the handlers opened up. `AnswersAreTrue` rests on `ApiIInv`: a request in its handler has a run of the handler to itself
(`WorkInv`), which has no row before the command and afterwards has one exactly if
the outcome is `done`; rows stem from runs that have begun (`RowsExecuted`); and
every response on its way through the store or to a client is true of its run
(`ResponsesSound`). Rows are never removed, so what was true when the
handler answered is true when the answer is replayed. A run stores at most one
row, so `AtMostOnce` bounds the rows of a key as well.

**`DirectoryProofs`.** `DirectoryTypeCorrect`, `AccessNeverBypassed`, by
`CheckedIsEntitled`: a request that has access now or is past its check is
entitled, and entitlement is never lost, so no row is stored otherwise,
whatever the administration does in between. `AccountsImplementDirectory` carries
this over to `Accounts`. `PasswordsAlwaysGuard`, for any number of callers at a time:
the second step of a call checks nothing, so `AccountsIInv` carries from the lookup
to it what the caller showed there and that the id is still that account's,
or that the account was deleted since (`CallsEntitled`). The first rests on the
comparison in `CheckPlayerPassword`; the second on `UsernamesStay`: only a deletion
takes a username away from its id, as a new account takes an id that nobody has.

**`LifecycleProofs`.** `LifecycleTypeCorrect`, `ZeroMeansGraceful`. The code is
decided in `Join`, long after the shutdown it speaks of, so the invariant follows the
result of `HTTPAdapter.Run` through the goroutine (`ResultKnown`), and says that after
a shutdown without an error nothing runs any more (`DrainedStays`), so that nobody
finds the store or the database closed (`NothingClosedEarly`). `KeysFollowRows` holds
on every path: a request loses its key between row and `Complete` only by a call
that failed.

Every invariant and every action property of a passing run has its theorem. Only
model-checked is liveness under fairness (`EveryRequestAnswered`,
`InterruptEndsProcess`, `ListenFailureEndsProcess`): it needs ENABLED, which is beyond the prover. The converse is TLC's as well: that
`OneOffset`, `NoOverflow` and the exception for one second are needed is shown by the
runs `zones_read`, `overflow` and `seconds`.

## 5. What is not modelled

* Parsing, formatting, logging, configuration, ports and generated types: no
  state. That configuration may fail to load is in `Lifecycle`.
* Display names of games and players: `UpdateGame` and `UpdatePlayerName` write
  them, and nothing but the list of a player's games reads one. That list is a
  single join of `games` and `access`; a deleted game is missing from it while
  its access rows still let commands through, which is listed as a hazard.
* The manager's process: one command between opening and closing the
  database, without goroutines. Its commands are in the other modules.
* Endpoints: a key is claimed for a player, not for an endpoint, and the model keeps
  them as indistinguishable as the store does.
* The next holder of an id. After the newest player is deleted and another added,
  the access rows and unexpired tokens of the first count for the second.
  `Accounts` behaves like that. `PasswordsGuardAccounts` allows a call whose account
  was deleted after its lookup (`gone`) to change the password of the id's next
  holder, or to get a token for it, as the code does. It also
  counts the password an account had at the lookup: of two concurrent changes both
  succeed. No text of the repository rules any of this out.
* What becomes of a key after its expiry: a retry then runs the handler again, while
  the first run may still be going on. `AtMostOncePerLifetime` counts per lifetime,
  and `OneAnswerPerKey` and `CompletedStays` speak of the time before.
* SQLite's locking: that an insert can fail is modelled, not when.

## 6. Plan

Done, in this order: `SharedData`, `GameLog`, `SharedGame` with `MCGameLog`,
`GameRead`, `ReplayCheck`, `Idempotency`, `Directory` and their proofs; then
`Accounts`, `HttpApi`, `Paging`, `Lifecycle` and theirs. The runs `log`, `api` and
`accounts` check what the runs of `GameLog` by itself, `Idempotency` and `Directory`
used to, in larger compositions.

Left, by what it would add:

1. The sum of `ReplayCheck` for the games of `GameLog`: that a stored game's deadline is
   its first save plus the time its commands bought plus its pauses. It would join
   `ReplayIsReference` and `TableReplaysItsCommands`, with `Legal` shown of every stored
   history.
2. The safety facts behind the liveness properties (which steps can still be taken by a
   request or by the process in each state), as far as they can be said without ENABLED.
3. The list of a player's games beside deletions, with the list and the access check
   compared.
