------------------------------ MODULE GameLog -------------------------------
(***************************************************************************)
(* The interactions table and the code around it: the three commands of    *)
(* usecase.GameCommands, which read the clock and then insert a row, and   *)
(* the BEFORE INSERT trigger and CHECK constraints that guard the insert.  *)
(*                                                                         *)
(* Rows are only ever appended: no query deletes or updates one, and the   *)
(* ON DELETE CASCADE of the schema is inert because the connection never   *)
(* turns foreign keys on.  Hence a row's id is its index.                  *)
(*                                                                         *)
(* Abstractions: the player of a row is left out, since nothing here reads *)
(* it; ids below 1 are rejected before any state is touched, so Games are  *)
(* the ids that pass.                                                      *)
(***************************************************************************)
EXTENDS SharedData, FiniteSets

CONSTANTS
    Games,
    Workers,    \* goroutines and manager processes that run commands
    Durations,  \* the durations clients ask for, legal or not
    Offsets,    \* the UTC offsets, in seconds, the processes' clocks show
    MaxNow,     \* bound: the last instant of the model
    MaxRows,    \* bound: rows stored; a full table lets no insert through
    MaxBack     \* bound: how often the wall clock is set back

\* No UTC offset reaches a day, which is what makes SuffixRank injective.
Day == 24 * 3600

ASSUME GameLogAssumption ==
    /\ Durations \subseteq Int
    /\ Offsets \subseteq Int
    /\ \A off \in Offsets : -Day < off /\ off < Day
    /\ MaxNow \in Nat
    /\ MaxRows \in Nat
    /\ MaxBack \in Nat

VARIABLES
    now,            \* the wall clock, in ticks
    back,           \* how often it was set back
    interactions,   \* the table, by id
    worker,         \* the row each worker is about to insert, or Nil
    replayed        \* history: what BuildSharedData's loop makes of a game's
                    \* rows when it takes them in the order of insertion

vars == <<now, back, interactions, worker, replayed>>

(***************************************************************************)
(* occurred_at is RFC 3339 text in the zone of the writing process: the    *)
(* fields down to the second, then the offset.  SQLite compares it as      *)
(* text: local time first, then the suffix, where '+' < '-' < 'Z' and each *)
(* sign orders by magnitude.                                               *)
(***************************************************************************)
Format(t, off) == [local |-> (t \div TicksPerSecond) + off, off |-> off]

\* time.Parse on the way back: the instant the text denotes.
Parse(text) == (text.local - text.off) * TicksPerSecond

SuffixRank(off) ==
    IF off > 0 THEN off ELSE IF off < 0 THEN Day - off ELSE 2 * Day

TextLT(a, b) ==
    \/ a.local < b.local
    \/ a.local = b.local /\ SuffixRank(a.off) < SuffixRank(b.off)

Text == [local : Int, off : Offsets]

\* readAt is history: the exact instant the command read from the clock.
Row == [game : Games, action : Actions, occurredAt : Text,
        savedBy : Optional(Durations), readAt : Nat]

\* Mutant: the error of the time provider is ignored and its zero time, long
\* before the model's first instant, is stored.
MutNewRow(g, a, savedBy, off) ==
    [game |-> g, action |-> a, occurredAt |-> Format(-1, off),
     savedBy |-> savedBy, readAt |-> -1]

NewRow(g, a, savedBy, off) ==
    [game |-> g, action |-> a, occurredAt |-> Format(now, off),
     savedBy |-> savedBy, readAt |-> now]

\* mapping.ToDomainInteraction.
ToDomain(row) ==
    [game |-> row.game, action |-> row.action,
     occurredAt |-> Parse(row.occurredAt), savedBy |-> row.savedBy]

GameRows(g) == {i \in 1..Len(interactions) : interactions[i].game = g}

\* ORDER BY occurred_at ASC, id ASC.
RowBefore(i, j) ==
    \/ TextLT(interactions[i].occurredAt, interactions[j].occurredAt)
    \/ interactions[i].occurredAt = interactions[j].occurredAt /\ i < j

\* The first row of ORDER BY occurred_at DESC, id DESC LIMIT 1 has action a.
LatestIs(g, a) ==
    \E i \in GameRows(g) :
        /\ interactions[i].action = a
        /\ \A j \in GameRows(g) \ {i} : RowBefore(j, i)

\* A game's first n rows in the order of ListInteractionsForReplay.
History(g, n) ==
    LET ids == {i \in 1..n : interactions[i].game = g}
        nth(k) == CHOOSE i \in ids : Cardinality({j \in ids : RowBefore(j, i)}) = k - 1
    IN [k \in 1..Cardinality(ids) |-> ToDomain(interactions[nth(k)])]

Current(g) == Replay(g, History(g, Len(interactions)))

(***************************************************************************)
(* trg_interactions_state_machine and the CHECK constraints.               *)
(***************************************************************************)

\* Mutants: a row of the same second is refused too; nothing is refused.
MutPrecedesOrEqual(row) ==
    \E i \in GameRows(row.game) :
        ~ TextLT(interactions[i].occurredAt, row.occurredAt)
MutPrecedesNever(row) == FALSE

\* RAISE 'occurred_at precedes an existing interaction for this game'.
Precedes(row) ==
    \E i \in GameRows(row.game) :
        TextLT(row.occurredAt, interactions[i].occurredAt)

\* Mutant: a paused game can be paused again.
MutIllegalAction(row) ==
    \/ row.action = "saved" /\ LatestIs(row.game, "paused")
    \/ row.action = "paused" /\ GameRows(row.game) = {}
    \/ row.action = "resumed" /\ ~ LatestIs(row.game, "paused")

\* RAISE 'cannot save while paused', 'cannot pause: ...', 'cannot resume: ...'.
IllegalAction(row) ==
    \/ row.action = "saved" /\ LatestIs(row.game, "paused")
    \/ /\ row.action = "paused"
       /\ ~ LatestIs(row.game, "saved")
       /\ ~ LatestIs(row.game, "resumed")
    \/ row.action = "resumed" /\ ~ LatestIs(row.game, "paused")

ChecksHold(row) ==
    /\ row.action \in Actions
    /\ (row.action = "saved") <=> (row.savedBy # Nil)
    /\ row.savedBy # Nil => row.savedBy > 0

(***************************************************************************)
(* The commands.  Each validates its input and reads the clock; the insert *)
(* is a later step, so commands can overtake one another in between.       *)
(***************************************************************************)
Pending == {w \in Workers : worker[w] # Nil}

Command(w, row) ==
    /\ worker[w] = Nil
    /\ worker' = [worker EXCEPT ![w] = row]
    /\ UNCHANGED <<now, back, interactions, replayed>>

SaveGame(w, g, duration, off) ==
    /\ duration >= 1
    /\ Command(w, NewRow(g, "saved", duration, off))

ResumeGame(w, g, off) == Command(w, NewRow(g, "resumed", Nil, off))

PauseGame(w, g, off) == Command(w, NewRow(g, "paused", Nil, off))

Done(w) ==
    /\ worker' = [worker EXCEPT ![w] = Nil]
    /\ UNCHANGED <<now, back>>

\* The INSERT ... RETURNING statement succeeds.
Insert(w) ==
    /\ worker[w] # Nil
    /\ Len(interactions) < MaxRows
    /\ ~ Precedes(worker[w])
    /\ ~ IllegalAction(worker[w])
    /\ ChecksHold(worker[w])
    /\ interactions' = Append(interactions, worker[w])
    /\ replayed' = [replayed EXCEPT ![worker[w].game] =
                        ReplayStep(worker[w].game, @, ToDomain(worker[w]))]
    /\ Done(w)

\* The trigger aborts with its first message, which no use case recognises:
\* the client gets an internal error.
RefuseOutOfOrder(w) ==
    /\ worker[w] # Nil
    /\ Precedes(worker[w])
    /\ Done(w)
    /\ UNCHANGED <<interactions, replayed>>

\* The trigger aborts with a message mapped to ErrCannotSaveWhilePaused,
\* ErrCannotPause or ErrCannotResume: the client gets a conflict.
RefuseConflict(w) ==
    /\ worker[w] # Nil
    /\ ~ Precedes(worker[w])
    /\ IllegalAction(worker[w])
    /\ Done(w)
    /\ UNCHANGED <<interactions, replayed>>

\* The insert fails for a reason of its own: SQLITE_BUSY while another
\* connection writes (no busy_timeout is set), a cancelled context, a crash.
InsertFails(w) ==
    /\ worker[w] # Nil
    /\ Done(w)
    /\ UNCHANGED <<interactions, replayed>>

(***************************************************************************)
(* The environment: the wall clock advances, or is set back.               *)
(***************************************************************************)
Tick ==
    /\ now < MaxNow
    /\ now' = now + 1
    /\ UNCHANGED <<back, interactions, worker, replayed>>

SetBack ==
    /\ back < MaxBack
    /\ back' = back + 1
    /\ now' \in 0..(now - 1)
    /\ UNCHANGED <<interactions, worker, replayed>>

Init ==
    /\ now = 0
    /\ back = 0
    /\ interactions = << >>
    /\ worker = [w \in Workers |-> Nil]
    /\ replayed = [g \in Games |-> NewSharedData]

WorkerStep(w) ==
    \/ \E g \in Games, duration \in Durations, off \in Offsets :
            SaveGame(w, g, duration, off)
    \/ \E g \in Games, off \in Offsets : ResumeGame(w, g, off)
    \/ \E g \in Games, off \in Offsets : PauseGame(w, g, off)
    \/ Insert(w)
    \/ RefuseOutOfOrder(w)
    \/ RefuseConflict(w)
    \/ InsertFails(w)

Next ==
    \/ \E w \in Workers : WorkerStep(w)
    \/ Tick
    \/ SetBack

Spec == Init /\ [][Next]_vars

(***************************************************************************)
(* Properties.                                                             *)
(***************************************************************************)

\* Type correctness of the clock, the table and the commands under way.
TypeOK ==
    /\ now \in Nat
    /\ back \in Nat
    /\ interactions \in Seq(Row)
    /\ worker \in [Workers -> Optional(Row)]
    /\ replayed \in [Games -> SharedDataType]

\* For a game's rows, the order of insertion is the order of the instants
\* their occurred_at denotes: what the trigger's first check is there for.
RowsInTimeOrder ==
    \A i, j \in 1..Len(interactions) :
        i < j /\ interactions[i].game = interactions[j].game
            => Parse(interactions[i].occurredAt) <= Parse(interactions[j].occurredAt)

\* All processes that write the table show the same UTC offset throughout:
\* no daylight saving time, no second process in another zone.
OneOffset == \A o, p \in Offsets : o = p

\* A command is refused as out of order only when a row of its game denotes
\* a strictly later instant; two commands of one second never exclude each
\* other.
RefusedOnlyIfOvertaken ==
    \A w \in Pending :
        Precedes(worker[w]) =>
            \E i \in GameRows(worker[w].game) :
                Parse(interactions[i].occurredAt) > Parse(worker[w].occurredAt)

\* The query of a replay returns a game's rows in the order they were
\* inserted, so a game's state can be read off the order of its commands.
ReplayFollowsInsertion == \A g \in Games : Current(g) = replayed[g]

\* Once a game has a deadline, no command of anyone makes it earlier.
DeadlineNeverShrinks ==
    [][\A g \in Games :
        replayed[g].deadlineAt # Nil =>
            replayed'[g].deadlineAt >= replayed[g].deadlineAt]_vars

LastReadAt(g, a) ==
    LET last == CHOOSE i \in GameRows(g) :
                    /\ interactions[i].action = a
                    /\ \A j \in GameRows(g) : interactions[j].action = a => j <= i
    IN interactions[last].readAt

\* The clock of a paused game is frozen: if the pause was stored with a later
\* second than the last save, then at any instant from the pause on the game
\* is valid exactly if the pause came before the deadline.
FrozenWhilePaused ==
    \A g \in Games :
        LET d == replayed[g]
        IN d.status = "paused" /\ d.lastPausedAt > d.lastSavedAt =>
                \A t \in d.lastPausedAt..(MaxNow + DurationHalf) :
                    ComputeValid(d, t).valid = (d.lastPausedAt < d.deadlineAt)

\* What the comment in ComputeValid says of a paused game, with "after" read
\* as the order in which the two commands took place.
PausedAfterSaveStaysValid ==
    \A g \in Games :
        LET d == replayed[g]
        IN d.status = "paused"
            /\ LastReadAt(g, "paused") > LastReadAt(g, "saved")
            /\ d.lastPausedAt < d.deadlineAt
            => ComputeValid(d, MaxNow + DurationHalf).valid = TRUE
=============================================================================
