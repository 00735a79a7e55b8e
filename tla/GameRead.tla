------------------------------ MODULE GameRead ------------------------------
(***************************************************************************)
(* usecase.DataFetching.GetSharedData running beside the commands of       *)
(* GameLog: it lists a game's rows, then reads the clock, then replays the *)
(* rows.  A read changes nothing, so one call at a time is enough.         *)
(***************************************************************************)
EXTENDS GameLog

VARIABLE reader     \* the call under way, or the last one

readVars == <<vars, reader>>

NoCall == [pc |-> "idle", game |-> Nil, upto |-> 0, todo |-> {}, pos |-> 0,
           queriedAt |-> 0, backs |-> 0, at |-> 0, data |-> NewSharedData]

\* ListInteractionsForReplay: the rows are a snapshot (upto, todo).
QueryRows(g) ==
    /\ reader.pc \in {"idle", "answered", "failed"}
    /\ reader' = [NoCall EXCEPT !.pc = "queried", !.game = g,
                                !.upto = Len(interactions),
                                !.todo = GameRows(g),
                                !.queriedAt = now,
                                !.backs = back]
    /\ UNCHANGED vars

\* Mutants: the clock is read first and the rows are listed second; the clock's
\* error is ignored and its zero time used.
MutReadTime ==
    /\ reader.pc = "queried"
    /\ reader' = [reader EXCEPT !.pc = "replay", !.at = reader.queriedAt,
                                !.queriedAt = now,
                                !.backs = back - reader.backs,
                                !.upto = Len(interactions),
                                !.todo = GameRows(reader.game)]
    /\ UNCHANGED vars

MutReadZeroTime ==
    /\ reader.pc = "queried"
    /\ reader' = [reader EXCEPT !.pc = "replay", !.at = -1]
    /\ UNCHANGED vars

\* uc.tp.Time().  backs is history: first how often the clock had been set
\* back when the rows were listed, from here on how often since.
ReadTime ==
    /\ reader.pc = "queried"
    /\ reader' = [reader EXCEPT !.pc = "replay", !.at = now,
                                !.backs = back - reader.backs]
    /\ UNCHANGED vars

\* One iteration of BuildSharedData's loop, on the next row of the query.
ReplayRow ==
    /\ reader.pc = "replay"
    /\ \E i \in reader.todo :
        /\ \A j \in reader.todo \ {i} : RowBefore(i, j)
        /\ LET d == ReplayStep(reader.game, reader.data, ToDomain(interactions[i]))
           IN reader' = [reader EXCEPT !.pc = IF d.failed THEN "failed" ELSE "replay",
                                       !.todo = reader.todo \ {i},
                                       !.pos = i,
                                       !.data = d]
    /\ UNCHANGED vars

\* ComputeValid and the return; with no rows the deadline is nil and so is Valid.
Answer ==
    /\ reader.pc = "replay"
    /\ reader.todo = {}
    /\ reader' = [reader EXCEPT !.pc = "answered",
                                !.data = ComputeValid(reader.data, reader.at)]
    /\ UNCHANGED vars

(***************************************************************************)
(* The composition.                                                        *)
(***************************************************************************)
ReadInit == Init /\ reader = NoCall

ReaderStep ==
    \/ \E g \in Games : QueryRows(g)
    \/ ReadTime
    \/ ReplayRow
    \/ Answer

LogStep == Next /\ UNCHANGED reader

ReadNext == LogStep \/ ReaderStep

ReadSpec == ReadInit /\ [][ReadNext]_readVars

(***************************************************************************)
(* Properties.                                                             *)
(***************************************************************************)

\* Type correctness of the table and of the read.
ReadTypeOK ==
    /\ TypeOK
    /\ reader \in [pc : {"idle", "queried", "replay", "answered", "failed"},
                   game : Optional(Games), upto : Nat, todo : SUBSET Nat,
                   pos : Nat, queriedAt : Nat, backs : Int, at : Nat, data : SharedDataType]

\* No table the commands can produce makes BuildSharedData return an error:
\* the trigger's state machine and the replay's agree, whatever the commands'
\* interleaving and however the clock moves.
ReplayNeverFails == reader.pc # "failed"

\* GetSharedData reads the clock after it lists the rows, and commands run in
\* between.  A positive answer is never out of date at the moment the rows
\* were listed: the game was valid then, unless the clock was set back
\* before it was read.
PositiveAnswerSound ==
    /\ reader.pc = "answered"
    /\ reader.data.valid = TRUE
    /\ reader.backs = 0
    => BuildSharedData(reader.game, History(reader.game, reader.upto),
                       reader.queriedAt).valid = TRUE
=============================================================================
