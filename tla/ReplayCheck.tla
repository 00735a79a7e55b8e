---------------------------- MODULE ReplayCheck ----------------------------
(***************************************************************************)
(* BuildSharedData on its own: a list of interactions grows by             *)
(* arbitrary elements, legal or not, and the replay of each list is        *)
(* compared with a reference that sums over the list instead of folding    *)
(* it.                                                                     *)
(***************************************************************************)
EXTENDS SharedData

CONSTANTS
    Game, OtherGame,
    Times,      \* instants of occurred_at
    SavedBys,   \* values of saved_by, in seconds
    MaxLen      \* bound: interactions in the list

ASSUME ReplayCheckAssumption == Times \subseteq Int /\ SavedBys \subseteq Int

VARIABLE ias

Interactions ==
    [game : {Game, OtherGame}, action : Actions \cup {"unknown"},
     occurredAt : Times, savedBy : Optional(SavedBys)]

Init == ias = << >>

\* A failed replay stays failed, so its list need not grow.
Next ==
    /\ Len(ias) < MaxLen
    /\ ~ Replay(Game, ias).failed
    /\ \E ia \in Interactions : ias' = Append(ias, ia)

Spec == Init /\ [][Next]_ias

(***************************************************************************)
(* The reference.                                                          *)
(***************************************************************************)
Is(i, a) == ias[i].action = a

\* The lists the documentation calls a game's history: of one game, in time
\* order, started by a save, with each pause closed before anything else.
LegalAt(i) ==
    /\ ias[i].game = Game
    /\ i > 1 => ias[i-1].occurredAt <= ias[i].occurredAt
    /\ \/ Is(i, "saved") /\ ias[i].savedBy # Nil /\ ias[i].savedBy > 0
          /\ (i > 1 => ~ Is(i-1, "paused"))
       \/ Is(i, "paused") /\ i > 1 /\ ~ Is(i-1, "paused")
       \/ Is(i, "resumed") /\ i > 1 /\ Is(i-1, "paused")

Legal == \A i \in 1..Len(ias) : LegalAt(i)

Total(amount, n) ==
    LET sum[k \in 0..n] == IF k = 0 THEN 0 ELSE sum[k-1] + amount[k]
    IN sum[n]

Purchase == [i \in 1..Len(ias) |-> IF Is(i, "saved") THEN ias[i].savedBy ELSE 0]

Bought == Total(Purchase, Len(ias))

\* How long the pause was that an interaction ends.
Break == [i \in 1..Len(ias) |->
            IF Is(i, "resumed") THEN ias[i].occurredAt - ias[i-1].occurredAt ELSE 0]

TimePaused == Total(Break, Len(ias))

(***************************************************************************)
(* Properties.                                                             *)
(***************************************************************************)

\* BuildSharedData fails exactly on the lists that are no history, and on a
\* history its deadline is the first save plus all the time the saves bought
\* plus all the time spent in completed pauses.
ReplayMatchesReference ==
    LET d == Replay(Game, ias)
    IN /\ d.failed <=> ~ Legal
       /\ Legal /\ ias # << >> =>
            d.deadlineAt = ias[1].occurredAt + Bought * TicksPerSecond + TimePaused

\* The games whose last pause and last save carry different times.
PauseApart(d) == d.status = "paused" => d.lastPausedAt # d.lastSavedAt

\* Only a save can bring an expired game back, and nothing but time can make
\* a valid game expire: at the moment of a pause or a resume the answer
\* before it is the answer after it.
PauseAndResumeKeepValidity ==
    [][ LET n == Len(ias')
            t == ias'[n].occurredAt
            before == BuildSharedData(Game, ias, t)
            after == BuildSharedData(Game, ias', t)
        IN ~ after.failed /\ ias'[n].action # "saved"
            /\ PauseApart(before) /\ PauseApart(after)
            => before.valid = after.valid ]_ias
=============================================================================
