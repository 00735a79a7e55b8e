-------------------------- MODULE DataFetchingProofs --------------------------
(***************************************************************************)
(* Proofs about the queries, GameRead and Paging, for any number of games, *)
(* players, rows and limits: what GetSharedData answers, that a client who *)
(* pages while rows come in misses none, and what the earliest and the     *)
(* latest row of a game tell.                                              *)
(***************************************************************************)
EXTENDS GameRead, Paging, GameLogProofs

(***************************************************************************)
(* The read's invariant: its rows are those of the game up to where the    *)
(* table ended at the query; those left are the ones after the last row    *)
(* replayed; and the data are what the loop makes of the ones before.      *)
(***************************************************************************)
ReaderType ==
    [pc : {"idle", "queried", "replay", "answered", "failed"},
     game : Optional(Games), upto : Nat, todo : SUBSET Nat,
     pos : Nat, queriedAt : Nat, backs : Int, at : Nat, data : SharedDataType]

Reading ==
    /\ reader.game \in Games
    /\ reader.upto \in 0..Len(interactions)
    /\ reader.pos \in 0..reader.upto
    /\ reader.todo = {i \in RowsUpTo(interactions, reader.game, reader.upto) :
                        i > reader.pos}
    /\ LoopInv(interactions, reader.game, reader.pos, reader.data)

ReadInv ==
    /\ reader \in ReaderType
    /\ reader.pc # "failed"
    /\ reader.pc \in {"queried", "replay"} => Reading

LEMMA NewSharedDataType ==
    NewSharedData \in SharedDataType /\ Replayable(NewSharedData)
  BY DEF NewSharedData, SharedDataType, Replayable, Statuses, Optional

LEMMA ReadInvInit == ReadInit => ReadInv
  BY NewSharedDataType DEF ReadInit, NoCall, ReadInv, ReaderType, Optional

LEMMA QueryReadInv ==
    ASSUME TypeInv, LogInv, ReadInv, NEW g \in Games, QueryRows(g)
    PROVE  ReadInv'
  <1>1. /\ reader' = [pc |-> "queried", game |-> g, upto |-> Len(interactions),
                      todo |-> GameRows(g), pos |-> 0, queriedAt |-> now,
                      backs |-> back, at |-> 0, data |-> NewSharedData]
        /\ interactions' = interactions
    BY DEF QueryRows, NoCall, vars
  <1>2. Len(interactions) \in Nat /\ now \in Nat /\ back \in Nat
    BY DEF TypeInv, TypeOK
  <1>3. GameRows(g) \in SUBSET Nat
    BY <1>2 DEF GameRows
  <1>4. reader' \in ReaderType
    BY <1>1, <1>2, <1>3, NewSharedDataType DEF ReaderType, Optional
  <1>5. GameRows(g) = {i \in RowsUpTo(interactions, g, Len(interactions)) : i > 0}
    BY <1>2 DEF GameRows, RowsUpTo
  <1>6. LoopInv(interactions, g, 0, NewSharedData)
    <2>1. RowsUpTo(interactions, g, 0) = {}
      BY DEF RowsUpTo
    <2>2. /\ NewSharedData.failed = FALSE
          /\ NewSharedData.status = "not_started"
          /\ NewSharedData.prevOccurredAt = Nil
      BY DEF NewSharedData
    <2>3. QED
      BY <2>1, <2>2, NewSharedDataType DEF LoopInv
  <1>7. Reading'
    BY <1>1, <1>2, <1>5, <1>6 DEF Reading
  <1>8. QED
    BY <1>1, <1>4, <1>7 DEF ReadInv

LEMMA ReplayRowReadInv ==
    ASSUME OneOffset, TypeInv, LogInv, ReadInv, ReplayRow
    PROVE  ReadInv'
  <1> DEFINE g == reader.game
             p == reader.pos
             u == reader.upto
  <1>1. PICK i \in reader.todo :
            /\ \A j \in reader.todo \ {i} : RowBefore(i, j)
            /\ LET d == ReplayStep(g, reader.data, ToDomain(interactions[i]))
               IN reader' = [reader EXCEPT !.pc = IF d.failed THEN "failed" ELSE "replay",
                                           !.todo = reader.todo \ {i},
                                           !.pos = i,
                                           !.data = d]
    BY DEF ReplayRow
  <1> DEFINE d == ReplayStep(g, reader.data, ToDomain(interactions[i]))
  <1>2. /\ Reading /\ reader.pc = "replay" /\ interactions' = interactions
        /\ reader \in ReaderType /\ LegalLog(interactions)
    BY DEF ReplayRow, ReadInv, vars, LogInv
  <1>3. /\ g \in Games /\ p \in Nat /\ u \in Nat /\ u <= Len(interactions)
        /\ reader.todo = {j \in RowsUpTo(interactions, g, u) : j > p}
        /\ Len(interactions) \in Nat
    BY <1>2 DEF Reading, TypeInv, TypeOK
  <1>4. /\ i \in 1..u /\ i \in 1..Len(interactions) /\ p < i
        /\ interactions[i].game = g
    BY <1>1, <1>3 DEF RowsUpTo
  <1>5. \A j \in reader.todo : i <= j
    <2> SUFFICES ASSUME NEW j \in reader.todo, j < i PROVE FALSE
      BY <1>3, <1>4 DEF RowsUpTo
    <2>1. j \in 1..Len(interactions) /\ interactions[j].game = g
      BY <1>3 DEF RowsUpTo
    <2>2. ~ RowBefore(i, j)
      BY <1>2, <1>4, <2>1, RowOrder
    <2>3. QED
      BY <1>1, <1>4, <2>1, <2>2
  <1>6. RowsUpTo(interactions, g, i - 1) = RowsUpTo(interactions, g, p)
    BY <1>3, <1>4, <1>5 DEF RowsUpTo
  <1>7. LoopInv(interactions, g, i, d)
    BY <1>2, <1>3, <1>4, <1>6, LoopStep DEF Reading
  <1>8. d \in SharedDataType /\ d.failed = FALSE
    BY <1>7 DEF LoopInv, Replayable
  <1>9. reader.todo \ {i} = {j \in RowsUpTo(interactions, g, u) : j > i}
    BY <1>3, <1>4, <1>5 DEF RowsUpTo
  <1>10. reader' = [reader EXCEPT !.pc = "replay", !.todo = reader.todo \ {i},
                                  !.pos = i, !.data = d]
    BY <1>1, <1>8
  <1> HIDE DEF d
  <1>11. /\ reader' \in ReaderType /\ reader'.pc = "replay" /\ reader'.game = g
         /\ reader'.upto = u /\ reader'.pos = i /\ reader'.data = d
         /\ reader'.todo = reader.todo \ {i}
    BY <1>2, <1>4, <1>8, <1>10 DEF ReaderType
  <1>12. Reading'
    BY <1>2, <1>3, <1>4, <1>7, <1>9, <1>11 DEF Reading
  <1>13. QED
    BY <1>11, <1>12 DEF ReadInv

LEMMA ComputeValidType ==
    ASSUME NEW d \in SharedDataType, NEW t \in Nat
    PROVE  ComputeValid(d, t) \in SharedDataType
  <1> DEFINE v == IF d.deadlineAt = Nil THEN Nil
                  ELSE t < d.deadlineAt \/ PausedInTime(d)
  <1>1. v \in Optional(BOOLEAN)
    BY DEF Optional
  <1>2. ComputeValid(d, t) = [d EXCEPT !.valid = v]
    BY DEF ComputeValid
  <1> HIDE DEF v
  <1>3. QED
    BY <1>1, <1>2 DEF SharedDataType

\* The table's steps leave the rows a read has listed as they are.
LEMMA LogStepReadInv ==
    ASSUME TypeInv, LogInv, ReadInv, [Next]_vars, UNCHANGED reader
    PROVE  ReadInv'
  <1> SUFFICES ASSUME Reading PROVE Reading'
    BY DEF ReadInv, Reading
  <1>1. CASE UNCHANGED interactions
    BY <1>1 DEF Reading
  <1>2. ASSUME NEW w \in Workers, Insert(w) PROVE Reading'
    <2> DEFINE log == interactions
               row == worker[w]
               g == reader.game
    <2>1. interactions' = Append(log, row)
      BY <1>2 DEF Insert
    <2>2. log \in Seq(Row) /\ reader.upto \in 0..Len(log) /\ reader.pos \in 0..Len(log)
          /\ Len(log) \in Nat
      BY DEF TypeInv, TypeOK, Reading
    <2>3. RowsUpTo(Append(log, row), g, reader.upto) = RowsUpTo(log, g, reader.upto)
      BY <2>2, AppendKeeps
    <2>4. LoopInv(Append(log, row), g, reader.pos, reader.data)
      BY <2>2, AppendKeeps DEF Reading
    <2>5. row \in Row
      BY <1>2 DEF TypeInv, TypeOK, Insert, Optional
    <2>6. Len(Append(log, row)) = Len(log) + 1
      BY <2>2
    <2>7. reader.upto \in 0..Len(Append(log, row))
      BY <2>2, <2>6
    <2> HIDE DEF log, row
    <2>8. QED
      BY <2>1, <2>3, <2>4, <2>7 DEF Reading, log
  <1>3. ASSUME NEW w \in Workers, WorkerStep(w), ~ Insert(w)
        PROVE  UNCHANGED interactions
    BY <1>3 DEF WorkerStep, SaveGame, ResumeGame, PauseGame, Command,
                RefuseOutOfOrder, RefuseConflict, InsertFails
  <1>4. Tick \/ SetBack \/ UNCHANGED vars => UNCHANGED interactions
    BY DEF Tick, SetBack, vars
  <1>5. QED
    BY <1>1, <1>2, <1>3, <1>4 DEF Next

LEMMA ReadInvNext ==
    ASSUME OneOffset
    PROVE  TypeInv /\ LogInv /\ ReadInv /\ [ReadNext]_readVars => ReadInv'
  <1> SUFFICES ASSUME TypeInv, LogInv, ReadInv, [ReadNext]_readVars PROVE ReadInv'
    OBVIOUS
  <1>1. CASE LogStep
    BY <1>1, LogStepReadInv DEF LogStep
  <1>2. ASSUME NEW g \in Games, QueryRows(g) PROVE ReadInv'
    BY <1>2, QueryReadInv
  <1>3. CASE ReadTime
    <2> DEFINE setBack == back - reader.backs
    <2>1. /\ reader' = [reader EXCEPT !.pc = "replay", !.at = now,
                                      !.backs = setBack]
          /\ reader \in ReaderType /\ Reading /\ now \in Nat /\ back \in Nat
          /\ interactions' = interactions
      BY <1>3 DEF ReadTime, ReadInv, TypeInv, TypeOK, vars
    <2>2. setBack \in Int
      BY <2>1 DEF ReaderType
    <2> HIDE DEF setBack
    <2>3. /\ reader' \in ReaderType /\ reader'.pc = "replay"
          /\ reader'.game = reader.game /\ reader'.upto = reader.upto
          /\ reader'.todo = reader.todo /\ reader'.pos = reader.pos
          /\ reader'.data = reader.data
      BY <2>1, <2>2 DEF ReaderType
    <2>4. QED
      BY <2>1, <2>3 DEF ReadInv, Reading
  <1>4. CASE ReplayRow
    BY <1>4, ReplayRowReadInv
  <1>5. CASE Answer
    <2>1. /\ reader' = [reader EXCEPT !.pc = "answered",
                                      !.data = ComputeValid(reader.data, reader.at)]
          /\ reader \in ReaderType
      BY <1>5 DEF Answer, ReadInv
    <2>2. ComputeValid(reader.data, reader.at) \in SharedDataType
      BY <2>1, ComputeValidType DEF ReaderType
    <2>3. reader' \in ReaderType /\ reader'.pc = "answered"
      BY <2>1, <2>2 DEF ReaderType
    <2>4. QED
      BY <2>3 DEF ReadInv
  <1>6. CASE UNCHANGED readVars
    BY <1>6, LogStepReadInv DEF readVars
  <1>7. QED
    BY <1>1, <1>2, <1>3, <1>4, <1>5, <1>6 DEF ReadNext, ReaderStep

\* A read takes part in no step of the table.
LEMMA ReadStepsAreLogSteps == [ReadNext]_readVars => [Next]_vars
  BY DEF ReadNext, LogStep, ReaderStep, QueryRows, ReadTime, ReplayRow, Answer, readVars

LEMMA ReadInvAlways ==
    ASSUME OneOffset
    PROVE  ReadSpec => [](TypeInv /\ LogInv /\ ReadInv)
  <1>1. ReadInit => TypeInv /\ LogInv /\ ReadInv
    BY TypeInvInit, LogInvInit, ReadInvInit DEF ReadInit
  <1>2. TypeInv /\ LogInv /\ ReadInv /\ [ReadNext]_readVars
            => (TypeInv /\ LogInv /\ ReadInv)'
    BY TypeInvNext, LogInvNext, ReadInvNext, ReadStepsAreLogSteps
  <1>3. QED
    BY <1>1, <1>2, PTL DEF ReadSpec

\* When all writers share a zone, GetSharedData never fails on the rows it
\* lists: not for any interleaving of the commands, not for any setting of
\* the clock, and its nil pointers are never dereferenced.
THEOREM ReplayAlwaysSucceeds ==
    ASSUME OneOffset
    PROVE  ReadSpec => []ReplayNeverFails
  <1>1. ReadInv => ReplayNeverFails
    BY DEF ReadInv, ReplayNeverFails
  <1>2. QED
    BY <1>1, ReadInvAlways, PTL

\* The read has the types of the code's data, next to the table's.
THEOREM ReadTypeCorrect ==
    ASSUME OneOffset
    PROVE  ReadSpec => []ReadTypeOK
  <1>1. TypeInv /\ ReadInv => ReadTypeOK
    BY DEF ReadTypeOK, ReadInv, ReaderType, TypeInv
  <1>2. QED
    BY <1>1, ReadInvAlways, PTL

(***************************************************************************)
(* The answer.  What the loop holds is the replay of the game's rows up to *)
(* the last one taken, and the clock is read no earlier than the rows are  *)
(* listed unless it is set back in between.                                *)
(***************************************************************************)
Replayed(n) == Replay(reader.game, HistoryOf(interactions, reader.game, n))

AnswerInv ==
    /\ reader.pc \in {"queried", "replay"} => reader.data = Replayed(reader.pos)
    /\ reader.pc = "answered" =>
            /\ reader.upto \in 0..Len(interactions)
            /\ Replayed(reader.upto) \in SharedDataType
            /\ reader.data = ComputeValid(Replayed(reader.upto), reader.at)
    /\ reader.pc = "queried" =>
            /\ reader.backs <= back
            /\ back = reader.backs => reader.queriedAt <= now
    /\ reader.pc \in {"replay", "answered"} /\ reader.backs = 0 =>
            reader.queriedAt <= reader.at

LEMMA AnswerInvInit == ReadInit => AnswerInv
  BY DEF ReadInit, NoCall, AnswerInv

LEMMA QueryAnswerInv ==
    ASSUME TypeInv, NEW g \in Games, QueryRows(g)
    PROVE  AnswerInv'
  <1>1. reader' = [pc |-> "queried", game |-> g, upto |-> Len(interactions),
                   todo |-> GameRows(g), pos |-> 0, queriedAt |-> now,
                   backs |-> back, at |-> 0, data |-> NewSharedData]
        /\ UNCHANGED vars
    BY DEF QueryRows, NoCall
  <1>2. now \in Nat /\ back \in Nat /\ now' = now /\ back' = back
        /\ interactions' = interactions
    BY <1>1 DEF TypeInv, TypeOK, vars
  <1>3. Len(HistoryOf(interactions, g, 0)) = 0
    BY HistoryLen, CountStep
  <1>4. Replay(g, HistoryOf(interactions, g, 0)) = NewSharedData
    BY <1>3, ReplayNothing
  <1> QED
    BY <1>1, <1>2, <1>4 DEF AnswerInv, Replayed

LEMMA ReplayRowAnswerInv ==
    ASSUME OneOffset, TypeInv, LogInv, ReadInv, AnswerInv, ReplayRow
    PROVE  AnswerInv'
  <1>1. PICK g, p, u, b : /\ g = reader.game /\ p = reader.pos /\ u = reader.upto
                          /\ b = reader.data
    OBVIOUS
  <1>2. PICK i \in reader.todo :
            /\ \A j \in reader.todo \ {i} : RowBefore(i, j)
            /\ LET d == ReplayStep(g, b, ToDomain(interactions[i]))
               IN reader' = [reader EXCEPT !.pc = IF d.failed THEN "failed" ELSE "replay",
                                           !.todo = reader.todo \ {i},
                                           !.pos = i,
                                           !.data = d]
    BY <1>1 DEF ReplayRow
  <1>3. PICK d : d = ReplayStep(g, b, ToDomain(interactions[i]))
    OBVIOUS
  <1>4. /\ Reading /\ reader.pc = "replay" /\ UNCHANGED vars
        /\ reader \in ReaderType /\ LegalLog(interactions)
        /\ interactions' = interactions
    BY DEF ReplayRow, ReadInv, vars, LogInv
  <1>5. /\ g \in Games /\ p \in Nat /\ u \in Nat /\ u <= Len(interactions)
        /\ reader.todo = {j \in RowsUpTo(interactions, g, u) : j > p}
        /\ Len(interactions) \in Nat
        /\ LoopInv(interactions, g, p, b)
    BY <1>1, <1>4 DEF Reading, TypeInv, TypeOK
  <1>6. /\ i \in 1..u /\ i \in 1..Len(interactions) /\ p < i
        /\ interactions[i].game = g
    BY <1>2, <1>5 DEF RowsUpTo
  <1>7. \A j \in reader.todo : i <= j
    <2> SUFFICES ASSUME NEW j \in reader.todo, j < i PROVE FALSE
      BY <1>5, <1>6 DEF RowsUpTo
    <2>1. j \in 1..Len(interactions) /\ interactions[j].game = g
      BY <1>5 DEF RowsUpTo
    <2>2. ~ RowBefore(i, j)
      BY <1>4, <1>6, <2>1, RowOrder
    <2> QED
      BY <1>2, <1>6, <2>1, <2>2
  <1>8. RowsUpTo(interactions, g, i - 1) = RowsUpTo(interactions, g, p)
    BY <1>5, <1>6, <1>7 DEF RowsUpTo
  <1>9. HistoryOf(interactions, g, i - 1) = HistoryOf(interactions, g, p)
    BY <1>8, HistorySkips
  <1>10. Replay(g, HistoryOf(interactions, g, i - 1)) = b /\ b.failed = FALSE
    BY <1>1, <1>4, <1>5, <1>9 DEF AnswerInv, Replayed, LoopInv
  <1>11. i - 1 \in Nat /\ (i - 1) + 1 = i /\ (i - 1) + 1 <= Len(interactions)
    BY <1>5, <1>6
  <1>12. Replay(g, HistoryOf(interactions, g, (i - 1) + 1)) = d
    BY <1>3, <1>4, <1>6, <1>10, <1>11, ReplayExtends
  <1>13. Replay(g, HistoryOf(interactions, g, i)) = d
    BY <1>11, <1>12
  <1>14. /\ reader'.game = g /\ reader'.pos = i /\ reader'.data = d
         /\ reader'.pc \in {"failed", "replay"}
         /\ reader'.backs = reader.backs /\ reader'.queriedAt = reader.queriedAt
         /\ reader'.at = reader.at
    BY <1>1, <1>2, <1>3, <1>4 DEF ReaderType
  <1> QED
    BY <1>4, <1>13, <1>14 DEF AnswerInv, Replayed

LEMMA AnswerAnswerInv ==
    ASSUME TypeInv, LogInv, ReadInv, AnswerInv, Answer
    PROVE  AnswerInv'
  <1>1. PICK g, p, u : g = reader.game /\ p = reader.pos /\ u = reader.upto
    OBVIOUS
  <1>2. /\ Reading /\ reader.pc = "replay" /\ reader.todo = {}
        /\ reader \in ReaderType
        /\ reader' = [reader EXCEPT !.pc = "answered",
                                    !.data = ComputeValid(reader.data, reader.at)]
        /\ interactions' = interactions
    BY DEF Answer, ReadInv, vars
  <1>3. /\ u \in 0..Len(interactions) /\ p \in 0..u /\ Len(interactions) \in Nat
        /\ {i \in RowsUpTo(interactions, g, u) : i > p} = {}
        /\ reader.data \in SharedDataType
    BY <1>1, <1>2 DEF Reading, TypeInv, TypeOK, LoopInv, Replayable
  <1>4. RowsUpTo(interactions, g, u) = RowsUpTo(interactions, g, p)
    BY <1>3 DEF RowsUpTo
  <1>5. HistoryOf(interactions, g, u) = HistoryOf(interactions, g, p)
    BY <1>4, HistorySkips
  <1>6. Replay(g, HistoryOf(interactions, g, u)) = reader.data
    BY <1>1, <1>2, <1>5 DEF AnswerInv, Replayed
  <1>7. /\ reader'.pc = "answered" /\ reader'.game = g /\ reader'.upto = u
        /\ reader'.at = reader.at /\ reader'.backs = reader.backs
        /\ reader'.queriedAt = reader.queriedAt
        /\ reader'.data = ComputeValid(reader.data, reader.at)
    BY <1>1, <1>2 DEF ReaderType
  <1> QED
    BY <1>2, <1>3, <1>6, <1>7 DEF AnswerInv, Replayed

\* Rows that come in later are none of the read's business.
LEMMA LogStepAnswerInv ==
    ASSUME TypeInv, TypeInv', LogInv, LogInv', ReadInv, AnswerInv,
           [Next]_vars, UNCHANGED reader
    PROVE  AnswerInv'
  <1>1. \A n \in 0..Len(interactions) : Replayed(n)' = Replayed(n)
    <2>1. CASE UNCHANGED interactions
      BY <2>1 DEF Replayed
    <2>2. ASSUME NEW w \in Workers, Insert(w), NEW n \in 0..Len(interactions)
          PROVE  Replayed(n)' = Replayed(n)
      <3>1. PICK g : g = reader.game
        OBVIOUS
      <3>2. PICK new : new = interactions'
        OBVIOUS
      <3>3. interactions \in Seq(Row) /\ new = Append(interactions, worker[w])
        BY <2>2, <3>2 DEF TypeInv, TypeOK, Insert
      <3>4. /\ Len(new) = Len(interactions) + 1
            /\ \A i \in 1..Len(interactions) : new[i] = interactions[i]
            /\ Len(interactions) \in Nat
        BY <3>3
      <3>5. LegalLog(interactions) /\ LegalLog(new)
        BY <3>2 DEF LogInv
      <3>6. HistoryOf(new, g, n) = HistoryOf(interactions, g, n)
        BY <3>4, <3>5, HistoryKeeps
      <3> QED
        BY <3>1, <3>2, <3>6 DEF Replayed
    <2> QED
      BY <2>1, <2>2, OnlyInsertWrites
  <1>2. /\ Len(interactions) \in Nat /\ Len(interactions') \in Nat
        /\ Len(interactions) <= Len(interactions')
    <2>1. CASE UNCHANGED interactions
      BY <2>1 DEF TypeInv, TypeOK
    <2>2. ASSUME NEW w \in Workers, Insert(w)
          PROVE  Len(interactions) \in Nat /\ Len(interactions') = Len(interactions) + 1
      BY <2>2 DEF TypeInv, TypeOK, Insert
    <2> QED
      BY <2>1, <2>2, OnlyInsertWrites
  <1>3. /\ now \in Nat /\ now' \in Nat /\ back \in Nat /\ back' \in Nat
        /\ \/ back' = back /\ now <= now'
           \/ back' = back + 1
    BY DEF TypeInv, TypeOK, Next, WorkerStep, SaveGame, ResumeGame, PauseGame, Command,
           Insert, RefuseOutOfOrder, RefuseConflict, InsertFails, Done, Tick, SetBack, vars
  <1>4. reader \in ReaderType /\ (reader.pc \in {"queried", "replay"} => Reading)
    BY DEF ReadInv
  <1>5. reader.pc \in {"queried", "replay"} => reader.pos \in 0..Len(interactions)
    BY <1>2, <1>4 DEF Reading
  <1>6. reader.pc = "queried" =>
            reader.backs <= back' /\ (back' = reader.backs => reader.queriedAt <= now')
    <2> SUFFICES ASSUME reader.pc = "queried"
                 PROVE  reader.backs <= back' /\ (back' = reader.backs => reader.queriedAt <= now')
      OBVIOUS
    <2>1. /\ reader.backs \in Int /\ reader.queriedAt \in Nat /\ reader.backs <= back
          /\ back = reader.backs => reader.queriedAt <= now
      BY <1>4 DEF AnswerInv, ReaderType
    <2> QED
      BY <1>3, <2>1
  <1> QED
    BY <1>1, <1>2, <1>5, <1>6 DEF AnswerInv

LEMMA AnswerInvNext ==
    ASSUME OneOffset
    PROVE  TypeInv /\ TypeInv' /\ LogInv /\ LogInv' /\ ReadInv /\ AnswerInv
             /\ [ReadNext]_readVars => AnswerInv'
  <1> SUFFICES ASSUME TypeInv, TypeInv', LogInv, LogInv', ReadInv, AnswerInv,
                      [ReadNext]_readVars
               PROVE  AnswerInv'
    OBVIOUS
  <1>1. CASE LogStep \/ UNCHANGED readVars
    BY <1>1, LogStepAnswerInv DEF LogStep, readVars
  <1>2. ASSUME NEW g \in Games, QueryRows(g) PROVE AnswerInv'
    BY <1>2, QueryAnswerInv
  <1>3. CASE ReadTime
    <2> DEFINE setBack == back - reader.backs
    <2>1. /\ reader' = [reader EXCEPT !.pc = "replay", !.at = now, !.backs = setBack]
          /\ reader \in ReaderType /\ reader.pc = "queried"
          /\ interactions' = interactions
      BY <1>3 DEF ReadTime, ReadInv, vars
    <2>2. setBack = 0 => reader.queriedAt <= now
      BY <2>1 DEF AnswerInv, ReaderType, TypeInv, TypeOK
    <2> HIDE DEF setBack
    <2>3. /\ reader'.pc = "replay" /\ reader'.game = reader.game
          /\ reader'.pos = reader.pos /\ reader'.data = reader.data
          /\ reader'.at = now /\ reader'.backs = setBack
          /\ reader'.queriedAt = reader.queriedAt
      BY <2>1 DEF ReaderType
    <2> QED
      BY <2>1, <2>2, <2>3 DEF AnswerInv, Replayed
  <1>4. CASE ReplayRow
    BY <1>4, ReplayRowAnswerInv
  <1>5. CASE Answer
    BY <1>5, AnswerAnswerInv
  <1> QED
    BY <1>1, <1>2, <1>3, <1>4, <1>5 DEF ReadNext, ReaderStep

\* When all writers share a zone, a positive answer of GetSharedData was true
\* at the moment its rows were listed, whatever commands ran beside it; only
\* a clock set back in between can make it a lie.
THEOREM PositiveAnswersSound ==
    ASSUME OneOffset
    PROVE  ReadSpec => []PositiveAnswerSound
  <1>1. ReadInv /\ AnswerInv => PositiveAnswerSound
    <2> SUFFICES ASSUME ReadInv, AnswerInv, reader.pc = "answered",
                        reader.data.valid = TRUE, reader.backs = 0
                 PROVE  BuildSharedData(reader.game, History(reader.game, reader.upto),
                                        reader.queriedAt).valid = TRUE
      BY DEF PositiveAnswerSound
    <2>1. PICK d, t, q : /\ d = Replayed(reader.upto)
                         /\ t = reader.at /\ q = reader.queriedAt
      OBVIOUS
    <2>2. /\ d \in SharedDataType /\ t \in Int /\ q \in Int /\ q <= t
          /\ ComputeValid(d, t).valid = TRUE
      BY <2>1 DEF AnswerInv, ReadInv, ReaderType
    <2>3. \A u : ComputeValid(d, u).valid
                    = IF d.deadlineAt = Nil THEN Nil ELSE u < d.deadlineAt \/ PausedInTime(d)
      BY <2>2 DEF ComputeValid, SharedDataType
    <2>4. d.deadlineAt # Nil => d.deadlineAt \in Int
      BY <2>2 DEF SharedDataType, Optional
    <2>5. ComputeValid(d, q).valid = TRUE
      <3>1. CASE d.deadlineAt = Nil
        BY <2>2, <2>3, <3>1
      <3>2. CASE d.deadlineAt # Nil
        <4>1. /\ ComputeValid(d, t).valid = (t < d.deadlineAt \/ PausedInTime(d))
              /\ ComputeValid(d, q).valid = (q < d.deadlineAt \/ PausedInTime(d))
          BY <2>3, <3>2
        <4>2. t < d.deadlineAt \/ PausedInTime(d)
          BY <2>2, <4>1
        <4>3. q < d.deadlineAt \/ PausedInTime(d)
          BY <2>2, <2>4, <3>2, <4>2
        <4> QED
          BY <4>1, <4>3
      <3> QED
        BY <3>1, <3>2
    <2> QED
      BY <2>1, <2>5, HistoryIs DEF BuildSharedData, Replayed
  <1>2. ReadInit => TypeInv /\ LogInv /\ ReadInv /\ AnswerInv
    BY TypeInvInit, LogInvInit, ReadInvInit, AnswerInvInit DEF ReadInit
  <1>3. TypeInv /\ LogInv /\ ReadInv /\ AnswerInv /\ [ReadNext]_readVars
            => (TypeInv /\ LogInv /\ ReadInv /\ AnswerInv)'
    BY TypeInvNext, LogInvNext, ReadInvNext, AnswerInvNext, ReadStepsAreLogSteps
  <1> QED
    BY <1>1, <1>2, <1>3, PTL DEF ReadSpec

(***************************************************************************)
(* Paging.                                                                 *)
(***************************************************************************)

LEMMA PageStepMaps == [PageNext]_pageVars => [Next]_vars
  BY DEF PageNext, pageVars, InsertBy, OtherStep, StartListing, FetchPage, Next, WorkerStep

\* A step either leaves the table alone or adds one row, with its player.
LEMMA TableStep ==
    ASSUME PageTypeOK, [PageNext]_pageVars
    PROVE  \/ UNCHANGED <<interactions, by>>
           \/ \E row \in Row, p \in Players :
                /\ interactions' = Append(interactions, row)
                /\ by' = Append(by, p)
                /\ pager' = pager
<1>1. ASSUME NEW p \in Players, NEW w \in Workers, Insert(w)
      PROVE worker[w] \in Row /\ interactions' = Append(interactions, worker[w])
  BY <1>1 DEF Insert, PageTypeOK, TypeOK, Optional
<1> QED
  BY <1>1 DEF PageNext, pageVars, vars, InsertBy, OtherStep, StartListing, FetchPage

(***************************************************************************)
(* The client.                                                             *)
(***************************************************************************)

\* What a client began with is still selected by its query.
StartSelected == pager.start \subseteq Selected(pager.game, pager.player)

LEMMA SelectedFinite ==
    ASSUME interactions \in Seq(Row), NEW g, NEW p
    PROVE  /\ Selected(g, p) \subseteq 1..Len(interactions)
           /\ \A ids \in SUBSET Selected(g, p) : IsFiniteSet(ids) /\ Cardinality(ids) \in Nat
<1>1. Selected(g, p) \subseteq 1..Len(interactions)
  BY DEF Selected, GameRows
<1>2. 1 \in Int /\ Len(interactions) \in Int
  OBVIOUS
<1>3. IsFiniteSet(1..Len(interactions))
  BY <1>2, FS_Interval
<1>4. ASSUME NEW ids \in SUBSET Selected(g, p)
      PROVE IsFiniteSet(ids) /\ Cardinality(ids) \in Nat
  <2>1. ids \in SUBSET (1..Len(interactions))
    BY <1>1
  <2>2. IsFiniteSet(ids)
    BY <1>3, <2>1, FS_Subset
  <2> QED
    BY <2>2, FS_CardinalityType
<1> QED
  BY <1>1, <1>4

\* New rows only push a row back.
LEMMA PositionGrows ==
    ASSUME PageTypeOK, NEW row \in Row, NEW q \in Players,
           interactions' = Append(interactions, row), by' = Append(by, q),
           NEW g, NEW p, NEW i \in Selected(g, p)
    PROVE  /\ i \in Selected(g, p)'
           /\ Position(i, Selected(g, p)) \in Nat
           /\ Position(i, Selected(g, p))' \in Nat
           /\ Position(i, Selected(g, p)) <= Position(i, Selected(g, p))'
<1>1. /\ interactions \in Seq(Row) /\ by \in Seq(Players) /\ Len(by) = Len(interactions)
      /\ interactions' \in Seq(Row)
  BY DEF PageTypeOK, TypeOK
<1>2. /\ Len(interactions') = Len(interactions) + 1
      /\ \A j \in 1..Len(interactions) :
            interactions'[j] = interactions[j] /\ by'[j] = by[j]
  BY <1>1
<1>3. Selected(g, p) \subseteq Selected(g, p)' /\ Selected(g, p) \subseteq 1..Len(interactions)
  BY <1>1, <1>2 DEF Selected, GameRows
<1>4. \A j \in Selected(g, p) : RowBefore(i, j)' <=> RowBefore(i, j)
  BY <1>2, <1>3 DEF RowBefore
<1> DEFINE after == {j \in Selected(g, p) : RowBefore(i, j)}
           later == {j \in Selected(g, p)' : RowBefore(i, j)'}
<1>5. after \subseteq later
  BY <1>3, <1>4
<1>6. IsFiniteSet(after) /\ Cardinality(after) \in Nat
  BY <1>1, SelectedFinite
<1>7. later \subseteq 1..Len(interactions')
  BY DEF Selected, GameRows
<1>8. IsFiniteSet(later)
  <2>1. 1 \in Int /\ Len(interactions') \in Int
    BY <1>1
  <2>2. IsFiniteSet(1..Len(interactions'))
    BY <2>1, FS_Interval
  <2> QED
    BY <1>7, <2>2, FS_Subset
<1>9. Cardinality(later) \in Nat /\ Cardinality(after) <= Cardinality(later)
  BY <1>5, <1>8, FS_Subset, FS_CardinalityType
<1>10. Position(i, Selected(g, p)) = Cardinality(after)
  BY DEF Position
<1>11. Position(i, Selected(g, p))' = Cardinality(later)
  BY DEF Position
<1> QED
  BY <1>3, <1>6, <1>9, <1>10, <1>11

\* A new row leaves what was selected selected.
LEMMA SelectedGrows ==
    ASSUME PageTypeOK, NEW row \in Row, NEW q \in Players,
           interactions' = Append(interactions, row), by' = Append(by, q),
           NEW g, NEW p
    PROVE  Selected(g, p) \subseteq Selected(g, p)'
  BY PositionGrows

LEMMA StartStep ==
    PageTypeOK /\ StartSelected /\ [PageNext]_pageVars => StartSelected'
<1> SUFFICES ASSUME PageTypeOK, StartSelected, [PageNext]_pageVars PROVE StartSelected'
  OBVIOUS
<1>1. ASSUME NEW row \in Row, NEW q \in Players,
             interactions' = Append(interactions, row), by' = Append(by, q), pager' = pager
      PROVE StartSelected'
  <2>1. PICK g, p, start : g = pager.game /\ p = pager.player /\ start = pager.start
    OBVIOUS
  <2>2. Selected(g, p) \subseteq Selected(g, p)'
    BY <1>1, SelectedGrows
  <2>3. Selected(pager.game, pager.player)' = Selected(g, p)'
    BY <1>1, <2>1
  <2> QED
    BY <1>1, <2>1, <2>2, <2>3 DEF StartSelected
<1>2. ASSUME UNCHANGED <<interactions, by>> PROVE StartSelected'
  <2>1. ASSUME NEW g, NEW p PROVE Selected(g, p)' = Selected(g, p)
    BY <1>2 DEF Selected, GameRows
  <2>2. ASSUME NEW g \in Games, NEW p \in Optional(Players), NEW limit \in Limits,
               StartListing(g, p, limit)
        PROVE StartSelected'
    <3>1. pager'.game = g /\ pager'.player = p /\ pager'.start = Selected(g, p)
      BY <2>2 DEF StartListing, NoPager
    <3>2. Selected(pager.game, pager.player)' = Selected(g, p)'
      BY <3>1
    <3> QED
      BY <2>1, <3>1, <3>2 DEF StartSelected
  <2>3. ASSUME FetchPage \/ pager' = pager PROVE StartSelected'
    <3>1. /\ pager'.game = pager.game
          /\ pager'.player = pager.player
          /\ pager'.start = pager.start
      BY <2>3 DEF FetchPage, PageTypeOK
    <3>2. Selected(pager.game, pager.player)' = Selected(pager.game, pager.player)
      BY <1>2, <3>1 DEF Selected, GameRows
    <3> QED
      BY <3>1, <3>2 DEF StartSelected
  <2> QED
    BY <2>2, <2>3 DEF PageNext, pageVars, InsertBy, OtherStep
<1> QED
  BY <1>1, <1>2, TableStep

\* A page takes away exactly what its offset steps over; new rows push the
\* rest further back.
LEMMA SlipStep ==
    PageTypeOK /\ StartSelected /\ NothingSlipsBehind /\ [PageNext]_pageVars
        => NothingSlipsBehind'
<1> SUFFICES ASSUME PageTypeOK, StartSelected, NothingSlipsBehind, [PageNext]_pageVars
             PROVE NothingSlipsBehind'
  OBVIOUS
<1>1. ASSUME NEW row \in Row, NEW q \in Players,
             interactions' = Append(interactions, row), by' = Append(by, q), pager' = pager
      PROVE NothingSlipsBehind'
  <2>1. PICK g, p : g = pager.game /\ p = pager.player
    OBVIOUS
  <2>2. ASSUME pager.pc = "listing", NEW i \in pager.start \ pager.seen
        PROVE Position(i, Selected(g, p))' >= pager.offset
    <3>1. i \in Selected(g, p)
      BY <2>1 DEF StartSelected
    <3>2. Position(i, Selected(g, p)) >= pager.offset
      BY <2>1, <2>2 DEF NothingSlipsBehind
    <3>3. /\ Position(i, Selected(g, p)) \in Nat
          /\ Position(i, Selected(g, p))' \in Nat
          /\ Position(i, Selected(g, p)) <= Position(i, Selected(g, p))'
      BY <1>1, <3>1, PositionGrows
    <3>4. pager.offset \in Nat
      BY DEF PageTypeOK
    <3> QED
      BY <3>2, <3>3, <3>4
  <2>3. \A i : Position(i, Selected(pager.game, pager.player))' = Position(i, Selected(g, p))'
    BY <1>1, <2>1
  <2> QED
    BY <1>1, <2>2, <2>3 DEF NothingSlipsBehind
<1>2. ASSUME UNCHANGED <<interactions, by>> PROVE NothingSlipsBehind'
  <2>1. ASSUME NEW i, NEW g, NEW p
        PROVE Position(i, Selected(g, p))' = Position(i, Selected(g, p))
    BY <1>2 DEF Position, Selected, GameRows, RowBefore
  <2>2. ASSUME NEW i, NEW g, NEW p PROVE Position(i, Selected(g, p)) \in Nat
    <3>1. {j \in Selected(g, p) : RowBefore(i, j)} \in SUBSET Selected(g, p)
      OBVIOUS
    <3> QED
      BY <3>1, SelectedFinite DEF Position, PageTypeOK, TypeOK
  <2>3. ASSUME NEW g \in Games, NEW p \in Optional(Players), NEW limit \in Limits,
               StartListing(g, p, limit)
        PROVE NothingSlipsBehind'
    <3>1. pager'.game = g /\ pager'.player = p /\ pager'.offset = 0
      BY <2>3 DEF StartListing, NoPager
    <3>2. \A i : Position(i, Selected(pager.game, pager.player))' = Position(i, Selected(g, p))'
      BY <3>1
    <3> QED
      BY <2>1, <2>2, <3>1, <3>2 DEF NothingSlipsBehind
  <2>4. CASE FetchPage
    <3>1. PICK g, p, offset : g = pager.game /\ p = pager.player /\ offset = pager.offset
      OBVIOUS
    <3>2. /\ pager'.game = g /\ pager'.player = p
          /\ pager'.start = pager.start
          /\ pager'.offset = offset + pager.limit
          /\ pager'.seen = pager.seen \cup ListInteractions(g, p, pager.limit, offset)
      BY <2>4, <3>1 DEF FetchPage, PageTypeOK
    <3>3. ASSUME NEW i \in pager'.start \ pager'.seen
          PROVE Position(i, Selected(g, p)) >= offset + pager.limit
      <4>1. i \in pager.start \ pager.seen /\ i \notin ListInteractions(g, p, pager.limit, offset)
        BY <3>2, <3>3
      <4>2. i \in Selected(g, p) /\ Position(i, Selected(g, p)) >= offset
        BY <2>4, <3>1, <4>1 DEF StartSelected, NothingSlipsBehind, FetchPage
      <4>3. Position(i, Selected(g, p)) \in Nat /\ offset \in Nat /\ pager.limit \in Nat
        BY <2>2, <3>1 DEF PageTypeOK
      <4> QED
        BY <4>1, <4>2, <4>3 DEF ListInteractions
    <3>4. \A i : Position(i, Selected(pager.game, pager.player))' = Position(i, Selected(g, p))'
      BY <3>2
    <3> QED
      BY <2>1, <3>2, <3>3, <3>4 DEF NothingSlipsBehind
  <2>5. CASE pager' = pager
    <3>1. PICK g, p : g = pager.game /\ p = pager.player
      OBVIOUS
    <3>2. \A i : Position(i, Selected(pager.game, pager.player))' = Position(i, Selected(g, p))'
      BY <2>5, <3>1
    <3> QED
      BY <2>1, <2>5, <3>1, <3>2 DEF NothingSlipsBehind
  <2> QED
    BY <2>3, <2>4, <2>5 DEF PageNext, pageVars, InsertBy, OtherStep
<1> QED
  BY <1>1, <1>2, TableStep

\* The table keeps its types, and so does the client.
LEMMA PageTypeStep ==
    PageTypeOK /\ TypeOK' /\ [PageNext]_pageVars => PageTypeOK'
<1> SUFFICES ASSUME PageTypeOK, TypeOK', [PageNext]_pageVars PROVE PageTypeOK'
  OBVIOUS
<1> DEFINE PagerType == [pc : {"idle", "listing", "ended"}, game : Optional(Games),
                         player : Optional(Players), limit : Nat, offset : Nat,
                         start : SUBSET Nat, seen : SUBSET Nat, returned : Nat]
<1>1. by' \in Seq(Players) /\ Len(by') = Len(interactions')
  <2>1. by \in Seq(Players) /\ Len(by) = Len(interactions) /\ interactions \in Seq(Row)
    BY DEF PageTypeOK, TypeOK
  <2> QED
    BY <2>1, TableStep
<1>2. ASSUME NEW g \in Games, NEW p \in Optional(Players), NEW limit \in Limits,
             StartListing(g, p, limit)
      PROVE pager' \in PagerType
  <2>1. limit \in Nat
    BY PagingAssumption DEF PagingAssumption
  <2>2. Selected(g, p) \in SUBSET Nat
    BY DEF Selected, GameRows
  <2>3. pager' = [NoPager EXCEPT !.pc = "listing", !.game = g, !.player = p,
                                 !.limit = limit, !.start = Selected(g, p)]
    BY <1>2 DEF StartListing
  <2>4. pager' = [pc |-> "listing", game |-> g, player |-> p, limit |-> limit,
                  offset |-> 0, start |-> Selected(g, p), seen |-> {}, returned |-> 0]
    BY <2>3 DEF NoPager
  <2> QED
    BY <2>1, <2>2, <2>4 DEF Optional
<1>3. ASSUME FetchPage PROVE pager' \in PagerType
  <2> DEFINE page == ListInteractions(pager.game, pager.player, pager.limit, pager.offset)
  <2>1. page \in SUBSET Selected(pager.game, pager.player)
    BY DEF ListInteractions
  <2>2. Cardinality(page) \in Nat
    <3>1. interactions \in Seq(Row)
      BY DEF PageTypeOK, TypeOK
    <3> HIDE DEF page
    <3> QED
      BY <2>1, <3>1, SelectedFinite
  <2>3. page \in SUBSET Nat
    BY <2>1 DEF Selected, GameRows
  <2>4. pager' = [pager EXCEPT
                        !.pc = IF Cardinality(page) < pager.limit THEN "ended" ELSE "listing",
                        !.offset = @ + pager.limit,
                        !.seen = @ \cup page,
                        !.returned = @ + Cardinality(page)]
    BY <1>3 DEF FetchPage
  <2>5. pager \in PagerType
    BY DEF PageTypeOK
  <2> HIDE DEF page
  <2>6. /\ pager.offset \in Nat /\ pager.limit \in Nat /\ pager.returned \in Nat
        /\ pager.seen \in SUBSET Nat
    BY <2>5
  <2>7. pager.offset + pager.limit \in Nat
    BY <2>6
  <2>8. pager.returned + Cardinality(page) \in Nat
    BY <2>2, <2>6
  <2>9. pager.seen \cup page \in SUBSET Nat
    BY <2>3, <2>6
  <2> QED
    BY <2>4, <2>5, <2>7, <2>8, <2>9
<1>4. pager' = pager => pager' \in PagerType
  BY DEF PageTypeOK
<1> HIDE DEF PagerType
<1>5. pager' \in PagerType
  BY <1>2, <1>3, <1>4 DEF PageNext, pageVars, InsertBy, OtherStep
<1>6. pager' \in [pc : {"idle", "listing", "ended"}, game : Optional(Games),
                  player : Optional(Players), limit : Nat, offset : Nat,
                  start : SUBSET Nat, seen : SUBSET Nat, returned : Nat]
  BY <1>5 DEF PagerType
<1> QED
  BY <1>1, <1>6 DEF PageTypeOK

(***************************************************************************)
(* The first row.                                                          *)
(***************************************************************************)

\* A game that has rows has one with the smallest id.
HasFirst ==
    \A g \in Games : GameRows(g) # {} =>
        \E i \in GameRows(g) : \A j \in GameRows(g) : i <= j

\* It is the first in the order of the queries, too.
LEMMA FirstIsSmallest ==
    ASSUME LegalLog(interactions), NEW g, NEW i \in GameRows(g),
           \A j \in GameRows(g) : i <= j
    PROVE  FirstInteraction(g) = i
<1>1. \A j \in GameRows(g) : j \in 1..Len(interactions) /\ interactions[j].game = g
  BY DEF GameRows
<1>2. \A j \in GameRows(g) \ {i} : i < j
  BY <1>1
<1>3. \A j \in GameRows(g) \ {i} : RowBefore(i, j) /\ ~ RowBefore(j, i)
  BY <1>1, <1>2, RowOrder
<1>4. \A k \in GameRows(g) :
          (\A j \in GameRows(g) \ {k} : RowBefore(k, j)) => k = i
  BY <1>3
<1> QED
  BY <1>3, <1>4 DEF FirstInteraction

LEMMA AppendFirst ==
    ASSUME interactions \in Seq(Row), NEW row \in Row,
           interactions' = Append(interactions, row), NEW g, NEW i \in GameRows(g),
           \A j \in GameRows(g) : i <= j
    PROVE  i \in GameRows(g)' /\ \A j \in GameRows(g)' : i <= j
<1>1. /\ Len(interactions') = Len(interactions) + 1
      /\ \A j \in 1..Len(interactions) : interactions'[j] = interactions[j]
  OBVIOUS
<1>2. i \in 1..Len(interactions)
  BY DEF GameRows
<1>3. i \in GameRows(g)'
  BY <1>1, <1>2 DEF GameRows
<1>4. \A j \in GameRows(g)' : j \in GameRows(g) \/ j = Len(interactions) + 1
  BY <1>1 DEF GameRows
<1> QED
  BY <1>2, <1>3, <1>4

LEMMA HasFirstStep ==
    PageTypeOK /\ HasFirst /\ [PageNext]_pageVars => HasFirst'
<1> SUFFICES ASSUME PageTypeOK, HasFirst, [PageNext]_pageVars PROVE HasFirst'
  OBVIOUS
<1>1. ASSUME NEW row \in Row, interactions' = Append(interactions, row),
             NEW g \in Games, GameRows(g)' # {}
      PROVE \E i \in GameRows(g)' : \A j \in GameRows(g)' : i <= j
  <2>a. interactions \in Seq(Row)
    BY DEF PageTypeOK, TypeOK
  <2>1. CASE GameRows(g) # {}
    <3>1. PICK i \in GameRows(g) : \A j \in GameRows(g) : i <= j
      BY <2>1 DEF HasFirst
    <3>2. i \in GameRows(g)' /\ \A j \in GameRows(g)' : i <= j
      BY <1>1, <2>a, <3>1, AppendFirst
    <3> QED
      BY <3>2
  <2>2. CASE GameRows(g) = {}
    <3>1. GameRows(g)' \subseteq {Len(interactions) + 1}
      BY <1>1, <2>a, <2>2 DEF GameRows
    <3>2. GameRows(g)' = {Len(interactions) + 1}
      BY <1>1, <3>1
    <3> QED
      BY <2>a, <3>2
  <2> QED
    BY <2>1, <2>2
<1>2. ASSUME interactions' = interactions PROVE HasFirst'
  BY <1>2 DEF HasFirst, GameRows
<1>3. HasFirst' <=> \A g \in Games : GameRows(g)' # {} =>
        \E i \in GameRows(g)' : \A j \in GameRows(g)' : i <= j
  BY DEF HasFirst
<1> QED
  BY <1>1, <1>2, <1>3, TableStep

LEMMA LegalStep ==
    TypeInv /\ LegalLog(interactions) /\ [Next]_vars => LegalLog(interactions')
<1> SUFFICES ASSUME TypeInv, LegalLog(interactions), [Next]_vars PROVE LegalLog(interactions')
  OBVIOUS
<1>1. ASSUME NEW w \in Workers, Insert(w) PROVE LegalLog(interactions')
  BY <1>1, InsertLegal
<1>2. ASSUME UNCHANGED interactions PROVE LegalLog(interactions')
  BY <1>2
<1> QED
  BY <1>1, <1>2
  DEF Next, WorkerStep, SaveGame, ResumeGame, PauseGame, Command, RefuseOutOfOrder,
      RefuseConflict, InsertFails, Tick, SetBack, vars

LEMMA FirstStep ==
    ASSUME PageTypeOK, HasFirst, LegalLog(interactions), LegalLog(interactions'),
           [PageNext]_pageVars, NEW g \in Games, FirstInteraction(g) # Nil
    PROVE  FirstInteraction(g)' = FirstInteraction(g)
<1>1. GameRows(g) # {}
  BY DEF FirstInteraction
<1>2. PICK i \in GameRows(g) : \A j \in GameRows(g) : i <= j
  BY <1>1 DEF HasFirst
<1>3. FirstInteraction(g) = i
  BY <1>2, FirstIsSmallest
<1>4. ASSUME NEW row \in Row, interactions' = Append(interactions, row)
      PROVE FirstInteraction(g)' = i
  <2>1. i \in GameRows(g)' /\ \A j \in GameRows(g)' : i <= j
    BY <1>2, <1>4, AppendFirst DEF PageTypeOK, TypeOK
  <2>2. \A j \in GameRows(g)' : j \in 1..Len(interactions') /\ interactions'[j].game = g
    BY DEF GameRows
  <2>3. ASSUME NEW j \in GameRows(g)', j # i PROVE RowBefore(i, j)' /\ ~ RowBefore(j, i)'
    <3>1. /\ i \in 1..Len(interactions') /\ j \in 1..Len(interactions')
          /\ interactions'[i].game = interactions'[j].game
          /\ i < j
      BY <2>1, <2>2, <2>3
    <3>2. ~ TextLT(interactions'[j].occurredAt, interactions'[i].occurredAt)
      BY <3>1 DEF LegalLog, InTextOrder
    <3>3. interactions'[i].occurredAt \in Text /\ interactions'[j].occurredAt \in Text
      BY <3>1, LegalRow
    <3> QED
      BY <3>1, <3>2, <3>3, TextTotal DEF RowBefore
  <2>4. \A k \in GameRows(g)' : (\A j \in GameRows(g)' \ {k} : RowBefore(k, j)') => k = i
    BY <2>1, <2>3
  <2> QED
    BY <2>1, <2>3, <2>4 DEF FirstInteraction
<1>5. ASSUME interactions' = interactions PROVE FirstInteraction(g)' = i
  BY <1>3, <1>5 DEF FirstInteraction, GameRows, RowBefore
<1> QED
  BY <1>3, <1>4, <1>5, TableStep

(***************************************************************************)
(* Places in a listing.  In a legal table the rows a query selects stand   *)
(* in descending order of their ids, so a row's place is the number of     *)
(* greater ids, and each place is taken exactly once.                      *)
(***************************************************************************)
Above(S, i) == Cardinality({j \in S : i < j})

Least(m, n) == IF m < n THEN m ELSE n

LEMMA AboveType ==
    ASSUME NEW S \in SUBSET Nat, IsFiniteSet(S), NEW m \in Nat, Cardinality(S) = m,
           NEW i \in S
    PROVE  /\ Above(S, i) \in 0..(m - 1)
           /\ \A k \in S : i < k => Above(S, k) < Above(S, i)
<1> DEFINE A(k) == {j \in S : k < j}
<1>1. \A k \in S : A(k) \in SUBSET (S \ {k})
  OBVIOUS
<1>2. \A k \in S : IsFiniteSet(S \ {k}) /\ Cardinality(S \ {k}) = m - 1
  BY FS_RemoveElement
<1>3. ASSUME NEW k \in S
      PROVE  IsFiniteSet(A(k)) /\ Cardinality(A(k)) \in Nat /\ Cardinality(A(k)) <= m - 1
  <2>1. IsFiniteSet(S \ {k}) /\ Cardinality(S \ {k}) = m - 1 /\ A(k) \in SUBSET (S \ {k})
    BY <1>1, <1>2, <1>3
  <2> HIDE DEF A
  <2>2. IsFiniteSet(A(k)) /\ Cardinality(A(k)) <= m - 1
    BY <2>1, FS_Subset
  <2> QED
    BY <2>2, FS_CardinalityType
<1>4. ASSUME NEW k \in S, i < k PROVE Cardinality(A(k)) < Cardinality(A(i))
  <2>1. A(k) \cup {k} \in SUBSET A(i) /\ k \notin A(k)
    <3>1. i \in Nat /\ k \in Nat /\ i < k
      BY <1>4
    <3>2. ASSUME NEW j \in A(k) PROVE j \in A(i) /\ j # k
      <4>1. j \in S /\ j \in Nat /\ k < j
        BY <3>2
      <4>2. i < j /\ j # k
        BY <3>1, <4>1
      <4> QED
        BY <4>1, <4>2
    <3>3. k \in A(i)
      BY <3>1
    <3> QED
      BY <3>2, <3>3
  <2>2. IsFiniteSet(A(k)) /\ Cardinality(A(k)) \in Nat
        /\ IsFiniteSet(A(i)) /\ Cardinality(A(i)) \in Nat
    BY <1>3
  <2> HIDE DEF A
  <2>3. Cardinality(A(k) \cup {k}) = Cardinality(A(k)) + 1
    BY <2>1, <2>2, FS_AddElement
  <2>4. Cardinality(A(k) \cup {k}) <= Cardinality(A(i))
    BY <2>1, <2>2, FS_Subset
  <2> QED
    BY <2>2, <2>3, <2>4
<1>5. \A k \in S : Above(S, k) = Cardinality(A(k))
  BY DEF Above
<1> HIDE DEF A
<1> QED
  BY <1>3, <1>4, <1>5

LEMMA AboveBijection ==
    ASSUME NEW S \in SUBSET Nat, IsFiniteSet(S), NEW m \in Nat, Cardinality(S) = m
    PROVE  [i \in S |-> Above(S, i)] \in Bijection(S, 0..(m - 1))
<1> DEFINE f == [i \in S |-> Above(S, i)]
<1>1. f \in [S -> 0..(m - 1)]
  BY AboveType
<1>2. ASSUME NEW i \in S, NEW k \in S, f[i] = f[k] PROVE i = k
  <2>1. i \in Nat /\ k \in Nat /\ Above(S, i) \in Nat /\ Above(S, k) \in Nat
        /\ Above(S, i) = Above(S, k)
    BY <1>2, AboveType
  <2>2. ~ (i < k) /\ ~ (k < i)
    BY <2>1, AboveType
  <2> QED
    BY <2>1, <2>2
<1> HIDE DEF f
<1>3. f \in Injection(S, 0..(m - 1))
  BY <1>1, <1>2 DEF Injection, IsInjective
<1>4. IsFiniteSet(0..(m - 1)) /\ Cardinality(0..(m - 1)) = m
  <2>1. PICK b \in Int : b = m - 1
    OBVIOUS
  <2>2. IsFiniteSet(0..b) /\ Cardinality(0..b) = IF 0 > b THEN 0 ELSE b - 0 + 1
    BY <2>1, FS_Interval
  <2>3. (IF 0 > b THEN 0 ELSE b - 0 + 1) = m
    BY <2>1
  <2> QED
    BY <2>1, <2>2, <2>3
<1>5. f \in Surjection(S, 0..(m - 1))
  BY <1>3, <1>4, FS_Injection
<1> QED
  BY <1>3, <1>5 DEF Bijection, f

LEMMA CoverCount ==
    ASSUME NEW A, NEW B, IsFiniteSet(A), IsFiniteSet(B)
    PROVE  Cardinality(A \cup B) <= Cardinality(A) + Cardinality(B)
<1>1. Cardinality(A \cup B) = Cardinality(A) + Cardinality(B) - Cardinality(A \cap B)
  BY FS_Union
<1>2. A \cap B \in SUBSET A
  OBVIOUS
<1>3. Cardinality(A \cap B) \in Nat /\ Cardinality(A) \in Nat /\ Cardinality(B) \in Nat
  BY <1>2, FS_Subset, FS_CardinalityType
<1> QED
  BY <1>1, <1>3

\* The first n places hold n rows, or all rows if there are fewer.
LEMMA TopCount ==
    ASSUME NEW S \in SUBSET Nat, IsFiniteSet(S), NEW m \in Nat, Cardinality(S) = m,
           NEW n \in Nat
    PROVE  Cardinality({i \in S : Above(S, i) < n}) = Least(m, n)
<1> DEFINE T == {i \in S : Above(S, i) < n}
           U == 0..(Least(m, n) - 1)
           f == [i \in S |-> Above(S, i)]
           h == [i \in T |-> Above(S, i)]
<1>1. f \in Bijection(S, 0..(m - 1))
  BY AboveBijection
<1>2. /\ \A i \in S : f[i] \in 0..(m - 1)
      /\ \A i, k \in S : f[i] = f[k] => i = k
      /\ \A r \in 0..(m - 1) : \E i \in S : f[i] = r
  BY <1>1 DEF Bijection, Injection, IsInjective, Surjection
<1>3. Least(m, n) \in Nat
  BY DEF Least
<1>4. h \in [T -> U]
  <2>1. ASSUME NEW i \in T PROVE Above(S, i) \in U
    <3>1. i \in S /\ Above(S, i) < n
      BY <2>1
    <3>2. Above(S, i) \in 0..(m - 1)
      BY <1>2, <3>1
    <3> QED
      BY <3>1, <3>2 DEF Least
  <2> QED
    BY <2>1
<1>5. \A i, k \in T : h[i] = h[k] => i = k
  BY <1>2
<1>6. \A r \in U : \E i \in T : h[i] = r
  BY <1>2 DEF Least
<1>7. IsFiniteSet(T)
  BY FS_Subset
<1> HIDE DEF T, h
<1>8. h \in Bijection(T, U)
  BY <1>4, <1>5, <1>6 DEF Bijection, Injection, IsInjective, Surjection
<1>9. Cardinality(U) = Cardinality(T)
  BY <1>7, <1>8, FS_Bijection DEF ExistsBijection
<1>10. Cardinality(U) = Least(m, n)
  <2>1. 0 \in Int /\ Least(m, n) - 1 \in Int
    BY <1>3
  <2> QED
    BY <1>3, <2>1, FS_Interval
<1> QED
  BY <1>9, <1>10 DEF T

LEMMA PositionIs ==
    ASSUME LegalLog(interactions), NEW g, NEW p, NEW i \in Selected(g, p)
    PROVE  Position(i, Selected(g, p)) = Above(Selected(g, p), i)
<1>1. \A j \in Selected(g, p) : j \in 1..Len(interactions) /\ interactions[j].game = g
  BY DEF Selected, GameRows
<1>2. ASSUME NEW j \in Selected(g, p) PROVE RowBefore(i, j) <=> i < j
  <2>1. Earlier(interactions, i, j) <=> i < j
    BY <1>1, EarlierIsBefore
  <2> QED
    BY <2>1 DEF Earlier, RowBefore
<1>3. {j \in Selected(g, p) : RowBefore(i, j)} = {j \in Selected(g, p) : i < j}
  BY <1>2
<1> QED
  BY <1>3 DEF Position, Above

\* A page has as many rows as fit on it, or all that are left.
LEMMA PageCount ==
    ASSUME LegalLog(interactions), NEW g, NEW p, NEW limit \in Nat, NEW offset \in Nat,
           NEW m \in Nat, Cardinality(Selected(g, p)) = m, offset <= m
    PROVE  /\ Cardinality(ListInteractions(g, p, limit, offset))
                  = Least(m, offset + limit) - offset
           /\ \A i \in Selected(g, p) : Position(i, Selected(g, p)) \in 0..(m - 1)
<1> DEFINE S == Selected(g, p)
           page == ListInteractions(g, p, limit, offset)
           A == {i \in S : Above(S, i) < offset}
           B == {i \in S : Above(S, i) < offset + limit}
<1>1. interactions \in Seq(Row)
  BY DEF LegalLog
<1>2. S \in SUBSET Nat
  BY DEF Selected, GameRows
<1>3. IsFiniteSet(S)
  BY <1>1, SelectedFinite
<1>4. \A i \in S : Position(i, S) = Above(S, i)
  BY PositionIs
<1> HIDE DEF S
<1>5. Cardinality(S) = m
  BY DEF S
<1>6. \A i \in S : Above(S, i) \in 0..(m - 1)
  BY <1>2, <1>3, <1>5, AboveType
<1>7. /\ Cardinality(A) = Least(m, offset)
      /\ Cardinality(B) = Least(m, offset + limit)
  <2>1. offset + limit \in Nat
    OBVIOUS
  <2> QED
    BY <1>2, <1>3, <1>5, <2>1, TopCount
<1>8. page = B \ A
  BY <1>4, <1>6 DEF ListInteractions, S
<1>9. IsFiniteSet(B)
  BY <1>3, FS_Subset
<1>10. B \cap A = A
  BY <1>6
<1> HIDE DEF A, B, page
<1>11. Cardinality(page) = Cardinality(B) - Cardinality(A)
  <2>1. Cardinality(B \ A) = Cardinality(B) - Cardinality(B \cap A)
    BY <1>9, FS_Difference
  <2>2. Cardinality(B \cap A) = Cardinality(A)
    BY <1>10
  <2> QED
    BY <1>8, <2>1, <2>2
<1>12. Least(m, offset) = offset
  BY DEF Least
<1> QED
  BY <1>4, <1>6, <1>7, <1>11, <1>12 DEF S, page

(***************************************************************************)
(* The whole listing.  While pages are full, the client was returned as    *)
(* many rows as its offset says, and the places before its offset hold     *)
(* rows it has seen or rows that came in meanwhile.                        *)
(***************************************************************************)
ListingInv ==
    LET ids == Selected(pager.game, pager.player)
    IN /\ pager.pc = "listing" =>
            /\ pager.returned = pager.offset
            /\ pager.offset <= Cardinality(ids)
       /\ pager.pc # "idle" => pager.seen \subseteq ids
       /\ pager.pc = "ended" =>
            /\ pager.start \subseteq pager.seen
            /\ pager.returned <= Cardinality(pager.seen) + Cardinality(ids \ pager.start)

LEMMA FetchListing ==
    ASSUME PageTypeOK, LegalLog(interactions), StartSelected, NothingSlipsBehind,
           ListingInv, FetchPage
    PROVE  ListingInv'
<1>1. PICK g, p, limit, offset, start, seen, ids :
          /\ g = pager.game /\ p = pager.player /\ limit = pager.limit
          /\ offset = pager.offset /\ start = pager.start /\ seen = pager.seen
          /\ ids = Selected(g, p)
  OBVIOUS
<1>2. PICK page : page = ListInteractions(g, p, limit, offset)
  OBVIOUS
<1>3. /\ limit \in Nat /\ offset \in Nat /\ interactions \in Seq(Row)
      /\ interactions' = interactions /\ by' = by
  BY <1>1 DEF PageTypeOK, TypeOK, FetchPage, vars
<1>4. /\ pager.returned = offset /\ offset <= Cardinality(ids)
      /\ seen \subseteq ids /\ start \subseteq ids
      /\ \A i \in start \ seen : Position(i, ids) >= offset
  BY <1>1 DEF ListingInv, StartSelected, NothingSlipsBehind, FetchPage
<1>5. /\ pager'.game = g /\ pager'.player = p
      /\ pager'.start = start
      /\ pager'.offset = offset + limit
      /\ pager'.seen = seen \cup page
      /\ pager'.returned = offset + Cardinality(page)
      /\ pager'.pc = IF Cardinality(page) < limit THEN "ended" ELSE "listing"
  BY <1>1, <1>2, <1>4 DEF FetchPage, PageTypeOK
<1>6. Selected(pager.game, pager.player)' = ids
  BY <1>1, <1>3, <1>5 DEF Selected, GameRows
<1>7. IsFiniteSet(ids) /\ \A s \in SUBSET ids : IsFiniteSet(s) /\ Cardinality(s) \in Nat
  BY <1>1, <1>3, SelectedFinite
<1>8. PICK m \in Nat : m = Cardinality(ids)
  BY <1>7
<1>9. /\ Cardinality(page) = Least(m, offset + limit) - offset
      /\ \A i \in ids : Position(i, ids) \in 0..(m - 1)
  <2>1. Cardinality(Selected(g, p)) = m /\ offset <= m
    BY <1>1, <1>4, <1>8
  <2>2. /\ Cardinality(ListInteractions(g, p, limit, offset))
                = Least(m, offset + limit) - offset
        /\ \A i \in Selected(g, p) : Position(i, Selected(g, p)) \in 0..(m - 1)
    BY <1>3, <2>1, PageCount
  <2> QED
    BY <1>1, <1>2, <2>2
<1>10. page = {i \in ids : offset <= Position(i, ids) /\ Position(i, ids) < offset + limit}
  BY <1>1, <1>2 DEF ListInteractions
<1>11. CASE Cardinality(page) < limit
  <2>1. m < offset + limit /\ Cardinality(page) = m - offset
    BY <1>3, <1>4, <1>8, <1>9, <1>11 DEF Least
  <2>2. start \subseteq seen \cup page
    BY <1>3, <1>4, <1>9, <1>10, <2>1
  <2>3. pager'.returned = m
    BY <1>3, <1>5, <2>1
  <2>4. m <= Cardinality(seen \cup page) + Cardinality(ids \ start)
    <3>1. ids = (seen \cup page) \cup (ids \ start)
      BY <1>4, <1>10, <2>2
    <3>2. IsFiniteSet(seen \cup page) /\ IsFiniteSet(ids \ start)
      BY <1>4, <1>7, <1>10
    <3> QED
      BY <1>8, <3>1, <3>2, CoverCount
  <2>5. seen \cup page \subseteq ids
    BY <1>4, <1>10
  <2> QED
    BY <1>5, <1>6, <1>11, <2>2, <2>3, <2>4, <2>5 DEF ListingInv
<1>12. CASE ~ (Cardinality(page) < limit)
  <2>1. Cardinality(page) = limit /\ offset + limit <= m
    BY <1>3, <1>4, <1>8, <1>9, <1>12 DEF Least
  <2>2. seen \cup page \subseteq ids
    BY <1>4, <1>10
  <2> QED
    BY <1>5, <1>6, <1>8, <1>12, <2>1, <2>2 DEF ListingInv
<1> QED
  BY <1>11, <1>12

LEMMA ListingStep ==
    PageTypeOK /\ LegalLog(interactions) /\ StartSelected /\ NothingSlipsBehind
        /\ ListingInv /\ [PageNext]_pageVars => ListingInv'
<1> SUFFICES ASSUME PageTypeOK, LegalLog(interactions), StartSelected, NothingSlipsBehind,
                    ListingInv, [PageNext]_pageVars
             PROVE  ListingInv'
  OBVIOUS
<1>1. ASSUME NEW row \in Row, NEW q \in Players,
             interactions' = Append(interactions, row), by' = Append(by, q), pager' = pager
      PROVE ListingInv'
  <2>1. PICK g, p, start, old : g = pager.game /\ p = pager.player /\ start = pager.start
                                /\ old = Selected(g, p)
    OBVIOUS
  <2>2. PICK new : new = Selected(g, p)'
    OBVIOUS
  <2>3. old \subseteq new
    BY <1>1, <2>1, <2>2, SelectedGrows
  <2>4. IsFiniteSet(new)
    <3>1. interactions' \in Seq(Row)
      BY <1>1 DEF PageTypeOK, TypeOK
    <3>2. 1 \in Int /\ Len(interactions') \in Int
      BY <3>1
    <3>3. IsFiniteSet(1..Len(interactions'))
      BY <3>2, FS_Interval
    <3>4. new \in SUBSET (1..Len(interactions'))
      BY <2>2 DEF Selected, GameRows
    <3> QED
      BY <3>3, <3>4, FS_Subset
  <2>5. /\ Cardinality(old) \in Nat /\ Cardinality(new) \in Nat
        /\ Cardinality(old) <= Cardinality(new)
    BY <2>3, <2>4, FS_Subset, FS_CardinalityType
  <2>6. /\ Cardinality(old \ start) \in Nat /\ Cardinality(new \ start) \in Nat
        /\ Cardinality(old \ start) <= Cardinality(new \ start)
    <3>1. IsFiniteSet(new \ start)
      BY <2>4, FS_Difference
    <3>2. old \ start \in SUBSET (new \ start)
      BY <2>3
    <3> QED
      BY <3>1, <3>2, FS_Subset, FS_CardinalityType
  <2>7. Selected(pager.game, pager.player)' = new
    BY <1>1, <2>1, <2>2
  <2>8. pager.offset \in Nat /\ pager.returned \in Nat
    BY DEF PageTypeOK
  <2>9. pager.pc = "ended" => Cardinality(pager.seen) \in Nat
    <3>1. pager.pc = "ended" => pager.seen \in SUBSET new
      BY <2>1, <2>3 DEF ListingInv
    <3> QED
      BY <2>4, <3>1, FS_Subset, FS_CardinalityType
  <2> QED
    BY <1>1, <2>1, <2>3, <2>5, <2>6, <2>7, <2>8, <2>9 DEF ListingInv
<1>2. ASSUME UNCHANGED <<interactions, by>> PROVE ListingInv'
  <2>1. ASSUME NEW g, NEW p PROVE Selected(g, p)' = Selected(g, p)
    BY <1>2 DEF Selected, GameRows
  <2>2. ASSUME NEW g \in Games, NEW p \in Optional(Players), NEW limit \in Limits,
               StartListing(g, p, limit)
        PROVE ListingInv'
    <3>1. /\ pager'.pc = "listing" /\ pager'.game = g /\ pager'.player = p
          /\ pager'.offset = 0 /\ pager'.returned = 0 /\ pager'.seen = {}
      BY <2>2 DEF StartListing, NoPager
    <3>2. Selected(pager.game, pager.player)' = Selected(g, p)
      BY <2>1, <3>1
    <3>3. Cardinality(Selected(g, p)) \in Nat
      BY SelectedFinite DEF PageTypeOK, TypeOK
    <3> QED
      BY <3>1, <3>2, <3>3 DEF ListingInv
  <2>3. CASE FetchPage
    BY <2>3, FetchListing
  <2>4. CASE pager' = pager
    <3>1. Selected(pager.game, pager.player)' = Selected(pager.game, pager.player)
      BY <1>2, <2>4 DEF Selected, GameRows
    <3> QED
      BY <2>4, <3>1 DEF ListingInv
  <2> QED
    BY <2>2, <2>3, <2>4 DEF PageNext, pageVars, InsertBy, OtherStep
<1> QED
  BY <1>1, <1>2, TableStep

(***************************************************************************)
(* The last row.                                                           *)
(***************************************************************************)

\* In a legal table the last row of a game in the order of the queries is the
\* last one inserted.
LEMMA LastIsLatest ==
    ASSUME LegalLog(interactions), NEW g, NEW i,
           IsLast(interactions, g, Len(interactions), i)
    PROVE  LastInteraction(g) = i
<1>1. i \in GameRows(g) /\ \A j \in GameRows(g) : j <= i
  BY DEF IsLast, RowsUpTo, GameRows
<1>2. \A j \in GameRows(g) : j \in 1..Len(interactions) /\ interactions[j].game = g
  BY DEF GameRows
<1>3. \A j \in GameRows(g) \ {i} : j < i
  BY <1>1, <1>2
<1>4. \A j \in GameRows(g) \ {i} : RowBefore(j, i) /\ ~ RowBefore(i, j)
  BY <1>1, <1>2, <1>3, RowOrder
<1>5. \A k \in GameRows(g) :
          (\A j \in GameRows(g) \ {k} : RowBefore(j, k)) => k = i
  BY <1>1, <1>4
<1> QED
  BY <1>1, <1>4, <1>5 DEF LastInteraction

\* Both the query and the replay end with that row.
LEMMA LastDecides ==
    ASSUME LogInv, Follows, NEW g \in Games
    PROVE  LET i == LastInteraction(g)
           IN Current(g).status =
                CASE i = Nil -> "not_started"
                  [] i # Nil ->
                        IF interactions[i].action = "paused" THEN "paused" ELSE "playing"
<1>1. Current(g) = replayed[g]
  BY HistoryIs DEF Follows, Current
<1>2. /\ LegalLog(interactions)
      /\ LoopInv(interactions, g, Len(interactions), replayed[g])
  BY DEF LogInv
<1>3. CASE /\ RowsUpTo(interactions, g, Len(interactions)) = {}
           /\ replayed[g].status = "not_started"
  <2>1. LastInteraction(g) = Nil
    BY <1>3 DEF RowsUpTo, GameRows, LastInteraction
  <2> QED
    BY <1>1, <1>3, <2>1
<1>4. ASSUME NEW i, IsLast(interactions, g, Len(interactions), i),
             replayed[g].status = StatusAfter(interactions[i].action)
      PROVE  /\ LastInteraction(g) = i
             /\ i # Nil
  <2>1. i \in Int
    BY <1>4 DEF IsLast, RowsUpTo
  <2> QED
    BY <1>2, <1>4, <2>1, LastIsLatest, SharedDataAssumption DEF SharedDataAssumption
<1> QED
  BY <1>1, <1>2, <1>3, <1>4 DEF LoopInv, StatusAfter

(***************************************************************************)
(* The theorems.                                                           *)
(***************************************************************************)

PageInv ==
    /\ TypeInv
    /\ PageTypeOK
    /\ StartSelected
    /\ NothingSlipsBehind
    /\ HasFirst
    /\ LegalLog(interactions)
    /\ ListingInv

LEMMA PageInvInit == PageInit => PageInv
<1> SUFFICES ASSUME PageInit PROVE PageInv
  OBVIOUS
<1>1. interactions = << >> /\ by = << >> /\ pager = NoPager /\ Init
  BY DEF PageInit, Init
<1>2. TypeInv /\ TypeOK
  BY <1>1, TypeInvInit DEF TypeInv
<1>3. LegalLog(interactions)
  BY <1>1 DEF LegalLog, InTextOrder
<1>4. \A g : GameRows(g) = {}
  BY <1>1 DEF GameRows
<1>5. HasFirst
  BY <1>4 DEF HasFirst
<1>6. PageTypeOK
  BY <1>1, <1>2 DEF PageTypeOK, NoPager, Optional
<1>7. StartSelected /\ NothingSlipsBehind
  BY <1>1 DEF StartSelected, NothingSlipsBehind, NoPager
<1>8. ListingInv
  BY <1>1 DEF ListingInv, NoPager
<1> QED
  BY <1>2, <1>3, <1>5, <1>6, <1>7, <1>8 DEF PageInv

LEMMA PageInvNext == PageInv /\ [PageNext]_pageVars => PageInv'
<1> SUFFICES ASSUME PageInv, [PageNext]_pageVars PROVE PageInv'
  OBVIOUS
<1>1. [Next]_vars
  BY PageStepMaps
<1>2. TypeInv' /\ TypeOK'
  BY <1>1, TypeInvNext DEF PageInv, TypeInv
<1>3. LegalLog(interactions)'
  BY <1>1, LegalStep DEF PageInv
<1>4. PageTypeOK' /\ StartSelected' /\ NothingSlipsBehind' /\ HasFirst'
  BY <1>2, PageTypeStep, StartStep, SlipStep, HasFirstStep DEF PageInv
<1>5. ListingInv'
  BY ListingStep DEF PageInv
<1> QED
  BY <1>2, <1>3, <1>4, <1>5 DEF PageInv

LEMMA PageInvAlways == PageSpec => []PageInv
  BY PageInvInit, PageInvNext, PTL DEF PageSpec

\* The client's and the table's types, for any number of rows and players.
THEOREM PageTypeCorrect == PageSpec => []PageTypeOK
<1>1. PageInv => PageTypeOK
  BY DEF PageInv
<1> QED
  BY <1>1, PageInvAlways, PTL

\* However rows come in between the pages of a listing, no row that was there
\* when it began slips behind its offset unseen.
THEOREM NothingSlips == PageSpec => []NothingSlipsBehind
<1>1. PageInv => NothingSlipsBehind
  BY DEF PageInv
<1> QED
  BY <1>1, PageInvAlways, PTL

\* A listing that ended has shown every row that was there when it began, and
\* repeated at most as many rows as came in meanwhile: for any page size, any
\* number of rows and any interleaving with the commands.
THEOREM ListingsComplete == PageSpec => []ListingComplete
<1>1. PageInv => ListingComplete
  <2> SUFFICES ASSUME PageInv, pager.pc = "ended"
               PROVE  LET ids == Selected(pager.game, pager.player)
                      IN /\ pager.start \subseteq pager.seen
                         /\ pager.returned - Cardinality(pager.seen)
                                <= Cardinality(ids \ pager.start)
    BY DEF ListingComplete
  <2>1. PICK ids : ids = Selected(pager.game, pager.player)
    OBVIOUS
  <2>2. \A s \in SUBSET ids : IsFiniteSet(s) /\ Cardinality(s) \in Nat
    BY <2>1, SelectedFinite DEF PageInv, PageTypeOK, TypeOK
  <2>3. /\ pager.seen \in SUBSET ids
        /\ pager.start \subseteq pager.seen
        /\ pager.returned <= Cardinality(pager.seen) + Cardinality(ids \ pager.start)
    BY <2>1 DEF PageInv, ListingInv
  <2>4. pager.returned \in Nat
    BY DEF PageInv, PageTypeOK
  <2>5. /\ Cardinality(pager.seen) \in Nat
        /\ Cardinality(ids \ pager.start) \in Nat
    BY <2>2, <2>3
  <2> QED
    BY <2>1, <2>3, <2>4, <2>5
<1> QED
  BY <1>1, PageInvAlways, PTL

\* What query=first once answered for a game it answers ever after, whatever
\* zones the writers are in.
THEOREM FirstRowStays == PageSpec => FirstStays
<1>1. PageInv /\ PageInv' /\ [PageNext]_pageVars =>
          [\A g \in Games :
              FirstInteraction(g) # Nil => FirstInteraction(g)' = FirstInteraction(g)]_pageVars
  <2> SUFFICES ASSUME PageInv, PageInv', [PageNext]_pageVars,
                      NEW g \in Games, FirstInteraction(g) # Nil
               PROVE  FirstInteraction(g)' = FirstInteraction(g)
    OBVIOUS
  <2>1. /\ PageTypeOK /\ HasFirst /\ LegalLog(interactions)
        /\ LegalLog(interactions')
    BY DEF PageInv
  <2> QED
    BY <2>1, FirstStep
<1> QED
  BY <1>1, PageInvAlways, PTL DEF PageSpec, FirstStays

LEMMA PageLogInvAlways ==
    ASSUME OneOffset
    PROVE  PageSpec => [](TypeInv /\ LogInv /\ Follows)
<1>1. PageInit => TypeInv /\ LogInv /\ Follows
  BY TypeInvInit, LogInvInit, FollowsInit DEF PageInit
<1>2. TypeInv /\ LogInv /\ Follows /\ [PageNext]_pageVars
          => (TypeInv /\ LogInv /\ Follows)'
  BY PageStepMaps, TypeInvNext, LogInvNext, FollowsNext
<1> QED
  BY <1>1, <1>2, PTL DEF PageSpec

\* When all writers share a zone, the answer to query=last and the status a
\* replay computes agree in every state: both rest on the row inserted last.
THEOREM LastRowIsStatus ==
    ASSUME OneOffset
    PROVE  PageSpec => []LastAgreesWithStatus
<1>1. LogInv /\ Follows => LastAgreesWithStatus
  BY LastDecides DEF LastAgreesWithStatus
<1> QED
  BY <1>1, PageLogInvAlways, PTL

\* The composition: reads and listings beside the commands are behaviours of
\* the commands alone, so what GameLogProofs proves holds of them too.
THEOREM FetchingRunsTheLog == (ReadSpec => Spec) /\ (PageSpec => Spec)
<1>1. ReadInit => Init
  BY DEF ReadInit
<1>2. PageInit => Init
  BY DEF PageInit
<1> QED
  BY <1>1, <1>2, ReadStepsAreLogSteps, PageStepMaps, PTL DEF ReadSpec, PageSpec, Spec
=============================================================================
