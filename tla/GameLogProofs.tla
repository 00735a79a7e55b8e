--------------------------- MODULE GameLogProofs ----------------------------
(***************************************************************************)
(* Proofs about GameLog, for every number of games, processes and rows.    *)
(***************************************************************************)
EXTENDS GameLogRefinement, SharedDataProofs

(***************************************************************************)
(* Type correctness.                                                       *)
(***************************************************************************)

\* A formatted clock reading is text of the table.
LEMMA FormatType ==
    ASSUME NEW t \in Nat, NEW off \in Offsets
    PROVE  Format(t, off) \in Text
  <1>1. off \in Int
    BY GameLogAssumption DEF GameLogAssumption
  <1>2. t \div TicksPerSecond \in Int
    BY SharedDataAssumption DEF SharedDataAssumption
  <1>3. QED
    BY <1>1, <1>2 DEF Format, Text

\* The rows the commands compose are rows of the table.
LEMMA NewRowType ==
    ASSUME now \in Nat, NEW g \in Games, NEW a \in Actions,
           NEW s \in Optional(Durations), NEW off \in Offsets
    PROVE  NewRow(g, a, s, off) \in Row
  BY FormatType DEF NewRow, Row

\* The instant a row's text denotes is an integer.
LEMMA ParseType ==
    ASSUME NEW text \in Text
    PROVE  Parse(text) \in Int
  <1>1. text.off \in Int /\ text.local \in Int
    BY GameLogAssumption DEF GameLogAssumption, Text
  <1>2. TicksPerSecond \in Int
    BY SharedDataAssumption DEF SharedDataAssumption
  <1>3. QED
    BY <1>1, <1>2 DEF Parse

LEMMA ToDomainType ==
    ASSUME NEW row \in Row
    PROVE  /\ ToDomain(row).game = row.game
           /\ ToDomain(row).action = row.action
           /\ ToDomain(row).action \in Actions
           /\ ToDomain(row).savedBy = row.savedBy
           /\ ToDomain(row).savedBy \in Optional(Int)
           /\ ToDomain(row).occurredAt = Parse(row.occurredAt)
           /\ ToDomain(row).occurredAt \in Int
  BY ParseType, GameLogAssumption DEF ToDomain, Row, Optional, GameLogAssumption

\* An iteration of the replay loop keeps the data replayable, whatever row it
\* is given.
LEMMA ReplayStepReplayable ==
    ASSUME NEW g, NEW d, Replayable(d), NEW row \in Row
    PROVE  Replayable(ReplayStep(g, d, ToDomain(row)))
  BY ToDomainType, IterationReplayable DEF Typed

\* TypeOK alone is not inductive: the type of a deadline after a resume rests
\* on there having been one before.
TypeInv ==
    /\ TypeOK
    /\ \A g \in Games : Replayable(replayed[g])

LEMMA TypeInvInit == Init => TypeInv
  <1> SUFFICES ASSUME Init PROVE TypeInv
    OBVIOUS
  <1>1. NewSharedData \in SharedDataType /\ Replayable(NewSharedData)
    BY DEF NewSharedData, SharedDataType, Replayable, Statuses, Optional
  <1>2. TypeOK
    BY <1>1 DEF Init, TypeOK, Optional
  <1>3. QED
    BY <1>1, <1>2 DEF Init, TypeInv

\* A command changes nothing but the row its worker is about to insert.
LEMMA CommandTypeInv ==
    ASSUME TypeInv, NEW w \in Workers, NEW row \in Row, Command(w, row)
    PROVE  TypeInv'
  BY DEF TypeInv, TypeOK, Command, Optional

\* The end of a command that leaves the table alone.
LEMMA DoneTypeInv ==
    ASSUME TypeInv, NEW w \in Workers, Done(w), UNCHANGED <<interactions, replayed>>
    PROVE  TypeInv'
  BY DEF TypeInv, TypeOK, Done, Optional

LEMMA InsertTypeInv ==
    ASSUME TypeInv, NEW w \in Workers, Insert(w)
    PROVE  TypeInv'
  <1> DEFINE row == worker[w]
             g == row.game
             d == ReplayStep(g, replayed[g], ToDomain(row))
  <1>1. row \in Row
    BY DEF TypeInv, TypeOK, Insert, Optional
  <1>2. g \in Games
    BY <1>1 DEF Row
  <1>3. Replayable(replayed[g])
    BY <1>2 DEF TypeInv
  <1>4. Replayable(d)
    BY <1>1, <1>3, ReplayStepReplayable
  <1>5. d \in SharedDataType
    BY <1>4 DEF Replayable
  <1>6. interactions' \in Seq(Row)
    BY <1>1 DEF TypeInv, TypeOK, Insert
  <1>7. worker' \in [Workers -> Optional(Row)] /\ now' = now /\ back' = back
    BY DEF TypeInv, TypeOK, Insert, Done, Optional
  <1>8. replayed' = [replayed EXCEPT ![g] = d]
    BY DEF Insert
  <1> HIDE DEF d, g, row
  <1>9. /\ replayed' \in [Games -> SharedDataType]
        /\ \A h \in Games : Replayable(replayed'[h])
    BY <1>2, <1>4, <1>5, <1>8 DEF TypeInv, TypeOK
  <1>10. QED
    BY <1>6, <1>7, <1>9 DEF TypeInv, TypeOK

LEMMA TypeInvNext == TypeInv /\ [Next]_vars => TypeInv'
  <1> SUFFICES ASSUME TypeInv, [Next]_vars PROVE TypeInv'
    OBVIOUS
  <1>1. ASSUME NEW w \in Workers, NEW g \in Games, NEW duration \in Durations,
               NEW off \in Offsets, SaveGame(w, g, duration, off)
        PROVE  TypeInv'
    <2>1. NewRow(g, "saved", duration, off) \in Row
      BY NewRowType, GameLogAssumption
      DEF GameLogAssumption, TypeInv, TypeOK, Actions, Optional
    <2>2. QED
      BY <1>1, <2>1, CommandTypeInv DEF SaveGame
  <1>2. ASSUME NEW w \in Workers, NEW g \in Games, NEW off \in Offsets,
               ResumeGame(w, g, off) \/ PauseGame(w, g, off)
        PROVE  TypeInv'
    <2>1. /\ NewRow(g, "resumed", Nil, off) \in Row
          /\ NewRow(g, "paused", Nil, off) \in Row
      BY NewRowType DEF TypeInv, TypeOK, Actions, Optional
    <2>2. QED
      BY <1>2, <2>1, CommandTypeInv DEF ResumeGame, PauseGame
  <1>3. ASSUME NEW w \in Workers,
               RefuseOutOfOrder(w) \/ RefuseConflict(w) \/ InsertFails(w)
        PROVE  TypeInv'
    BY <1>3, DoneTypeInv DEF RefuseOutOfOrder, RefuseConflict, InsertFails
  <1>4. CASE Tick
    BY <1>4 DEF Tick, TypeInv, TypeOK
  <1>5. CASE SetBack
    BY <1>5 DEF SetBack, TypeInv, TypeOK
  <1>6. CASE UNCHANGED vars
    BY <1>6 DEF vars, TypeInv, TypeOK
  <1>7. QED
    BY <1>1, <1>2, <1>3, <1>4, <1>5, <1>6, InsertTypeInv DEF Next, WorkerStep

\* The table, the commands and the replays have the types of the code's data.
THEOREM TypeCorrect == Spec => []TypeOK
  <1>1. TypeInv => TypeOK
    BY DEF TypeInv
  <1>2. QED
    BY <1>1, TypeInvInit, TypeInvNext, PTL DEF Spec

(***************************************************************************)
(* Text order and time order.                                              *)
(***************************************************************************)

\* SuffixRank is a number, and it tells the offsets apart.
LEMMA SuffixRankType == \A o \in Offsets : SuffixRank(o) \in Int
  BY GameLogAssumption DEF GameLogAssumption, SuffixRank, Day

LEMMA SuffixRankInjective ==
    \A o, p \in Offsets : SuffixRank(o) = SuffixRank(p) => o = p
  BY GameLogAssumption DEF GameLogAssumption, SuffixRank, Day

\* Texts that the comparison cannot tell apart are the same text.
LEMMA TextTotal ==
    ASSUME NEW a \in Text, NEW b \in Text, ~ TextLT(a, b), ~ TextLT(b, a)
    PROVE  a = b
  <1>1. /\ a.local \in Int /\ b.local \in Int
        /\ a.off \in Offsets /\ b.off \in Offsets
        /\ SuffixRank(a.off) \in Int /\ SuffixRank(b.off) \in Int
    BY SuffixRankType DEF Text
  <1>2. a.local = b.local /\ SuffixRank(a.off) = SuffixRank(b.off)
    BY <1>1 DEF TextLT
  <1>3. a.off = b.off
    BY <1>1, <1>2, SuffixRankInjective
  <1>4. QED
    BY <1>2, <1>3 DEF Text

\* The comparison is irreflexive and asymmetric.
LEMMA TextAsymmetric ==
    ASSUME NEW a \in Text, NEW b \in Text, TextLT(a, b)
    PROVE  ~ TextLT(b, a)
  <1>1. /\ a.local \in Int /\ b.local \in Int
        /\ SuffixRank(a.off) \in Int /\ SuffixRank(b.off) \in Int
    BY SuffixRankType DEF Text
  <1>2. QED
    BY <1>1 DEF TextLT

LEMMA TimesMonotone ==
    ASSUME NEW a \in Int, NEW b \in Int, NEW n \in Nat \ {0}
    PROVE  (a < b) <=> (a * n < b * n)
  BY SMT

\* In one zone the text order is the order of the instants.
LEMMA TextIsTime ==
    ASSUME OneOffset, NEW a \in Text, NEW b \in Text
    PROVE  TextLT(a, b) <=> Parse(a) < Parse(b)
  <1>1. /\ a.local \in Int /\ b.local \in Int /\ a.off \in Int
        /\ a.off \in Offsets /\ b.off \in Offsets
    BY GameLogAssumption DEF GameLogAssumption, Text
  <1>2. a.off = b.off
    BY <1>1 DEF OneOffset
  <1>3. SuffixRank(a.off) \in Int
    BY <1>1 DEF SuffixRank, Day
  <1>4. TextLT(a, b) <=> a.local < b.local
    BY <1>1, <1>2, <1>3 DEF TextLT
  <1>5. a.local < b.local <=> a.local - a.off < b.local - b.off
    BY <1>1, <1>2
  <1>6. TicksPerSecond \in Nat \ {0}
    BY SharedDataAssumption DEF SharedDataAssumption
  <1>7. (a.local - a.off < b.local - b.off) <=> (Parse(a) < Parse(b))
    BY <1>1, <1>2, <1>6, TimesMonotone DEF Parse
  <1>8. QED
    BY <1>4, <1>5, <1>7

\* When all writers share a zone, a command is refused as out of order only
\* if a row of its game denotes a later second.
THEOREM OnlyOvertakenRefused ==
    ASSUME OneOffset
    PROVE  Spec => []RefusedOnlyIfOvertaken
  <1>1. ASSUME TypeOK PROVE RefusedOnlyIfOvertaken
    <2> SUFFICES ASSUME NEW w \in Workers, worker[w] # Nil,
                        NEW i \in GameRows(worker[w].game),
                        TextLT(worker[w].occurredAt, interactions[i].occurredAt)
                 PROVE  Parse(interactions[i].occurredAt) > Parse(worker[w].occurredAt)
      BY DEF RefusedOnlyIfOvertaken, Pending, Precedes
    <2>1. worker[w] \in Row /\ interactions[i] \in Row
      BY <1>1 DEF TypeOK, Optional, GameRows
    <2>2. worker[w].occurredAt \in Text /\ interactions[i].occurredAt \in Text
      BY <2>1 DEF Row
    <2>3. /\ Parse(worker[w].occurredAt) \in Int
          /\ Parse(interactions[i].occurredAt) \in Int
      BY <2>2, ParseType
    <2>4. QED
      BY <1>1, <2>2, <2>3, TextIsTime
  <1>2. QED
    BY <1>1, TypeCorrect, PTL

(***************************************************************************)
(* The table's invariant, over a table log so that it can be cited for the *)
(* table before and after a step.  The trigger keeps each game's rows in   *)
(* text order, hence the row it looks at as the latest is the row inserted *)
(* last, and with that it keeps each row legal after the row before it.    *)
(***************************************************************************)
RowsUpTo(log, g, n) == {i \in 1..n : log[i].game = g}

IsLast(log, g, n, i) ==
    /\ i \in RowsUpTo(log, g, n)
    /\ \A k \in RowsUpTo(log, g, n) : k <= i

InTextOrder(log) ==
    \A i, j \in 1..Len(log) :
        i < j /\ log[i].game = log[j].game
            => ~ TextLT(log[j].occurredAt, log[i].occurredAt)

LegalAt(log, j) ==
    LET g == log[j].game
        a == log[j].action
    IN /\ a = "saved" => /\ log[j].savedBy \in Int
                          /\ log[j].savedBy > 0
                          /\ \A i : IsLast(log, g, j - 1, i) => log[i].action # "paused"
       /\ a = "paused" => \E i : IsLast(log, g, j - 1, i) /\ log[i].action # "paused"
       /\ a = "resumed" => \E i : IsLast(log, g, j - 1, i) /\ log[i].action = "paused"

LegalLog(log) ==
    /\ log \in Seq(Row)
    /\ InTextOrder(log)
    /\ \A j \in 1..Len(log) : LegalAt(log, j)

StatusAfter(action) == IF action = "paused" THEN "paused" ELSE "playing"

\* The loop of BuildSharedData has replayed game g's rows up to row n into d.
LoopInv(log, g, n, d) ==
    /\ Replayable(d)
    /\ d.failed = FALSE
    /\ \/ /\ RowsUpTo(log, g, n) = {}
          /\ d.status = "not_started"
          /\ d.prevOccurredAt = Nil
       \/ \E i : /\ IsLast(log, g, n, i)
                 /\ d.status = StatusAfter(log[i].action)
                 /\ d.prevOccurredAt = Parse(log[i].occurredAt)

LEMMA LegalRow ==
    ASSUME NEW log, LegalLog(log), NEW j \in 1..Len(log)
    PROVE  log[j] \in Row /\ log[j].occurredAt \in Text
  <1>1. log \in Seq(Row)
    BY DEF LegalLog
  <1>2. log[j] \in Row
    BY <1>1
  <1>3. QED
    BY <1>2 DEF Row

LEMMA LastUnique ==
    ASSUME NEW log, NEW g, NEW n \in Nat, NEW i, NEW k,
           IsLast(log, g, n, i), IsLast(log, g, n, k)
    PROVE  i = k
  <1>1. i \in Int /\ k \in Int /\ i <= k /\ k <= i
    BY DEF IsLast, RowsUpTo
  <1>2. QED
    BY <1>1

\* Replaying a legal row of the game that has no row of the game between it
\* and those replayed before: no error.
LEMMA LoopStepNoError ==
    ASSUME OneOffset, NEW log, LegalLog(log), NEW g, NEW n \in Nat, NEW d,
           LoopInv(log, g, n, d),
           NEW j \in 1..Len(log), log[j].game = g, n < j,
           RowsUpTo(log, g, j - 1) = RowsUpTo(log, g, n)
    PROVE  ~ ReplayError(g, d, ToDomain(log[j]))
  <1> DEFINE ia == ToDomain(log[j])
  <1>1. log[j] \in Row /\ log[j].occurredAt \in Text
    BY LegalRow
  <1>2. /\ ia.game = g /\ ia.action = log[j].action /\ ia.savedBy = log[j].savedBy
        /\ ia.action \in Actions
        /\ ia.occurredAt = Parse(log[j].occurredAt) /\ ia.occurredAt \in Int
    BY <1>1, ToDomainType
  <1>3. LegalAt(log, j)
    BY DEF LegalLog
  <1>4. \A i : IsLast(log, g, j - 1, i) <=> IsLast(log, g, n, i)
    BY DEF IsLast
  <1> HIDE DEF ia
  <1>5. ~ (d.prevOccurredAt # Nil /\ ia.occurredAt < d.prevOccurredAt)
    <2> SUFFICES ASSUME d.prevOccurredAt # Nil PROVE ~ (ia.occurredAt < d.prevOccurredAt)
      OBVIOUS
    <2>1. PICK i : IsLast(log, g, n, i) /\ d.prevOccurredAt = Parse(log[i].occurredAt)
      BY DEF LoopInv
    <2>2. i \in 1..Len(log) /\ i < j /\ log[i].game = log[j].game
      BY <2>1 DEF IsLast, RowsUpTo
    <2>3. ~ TextLT(log[j].occurredAt, log[i].occurredAt)
      BY <2>2 DEF LegalLog, InTextOrder
    <2>4. log[i] \in Row /\ log[i].occurredAt \in Text
      BY <2>2, LegalRow
    <2>5. QED
      BY <1>1, <1>2, <2>1, <2>3, <2>4, TextIsTime
  <1>6. CASE log[j].action = "saved"
    <2>1. d.status # "paused"
      BY <1>3, <1>4, <1>6 DEF LegalAt, LoopInv, StatusAfter
    <2>2. ia.savedBy \in Int /\ ia.savedBy > 0
      BY <1>2, <1>3, <1>6 DEF LegalAt
    <2>3. ia.savedBy # Nil
      BY <2>2, SharedDataAssumption DEF SharedDataAssumption
    <2>4. QED
      BY <1>2, <1>5, <1>6, <2>1, <2>2, <2>3 DEF ReplayError, ia
  <1>7. CASE log[j].action \in {"paused", "resumed"}
    <2>1. PICK i : /\ IsLast(log, g, n, i)
                   /\ (log[j].action = "resumed") <=> (log[i].action = "paused")
      BY <1>3, <1>4, <1>7 DEF LegalAt
    <2>2. d.status = StatusAfter(log[i].action)
      <3>1. n \in Nat /\ i \in RowsUpTo(log, g, n)
        BY <2>1 DEF IsLast
      <3>2. PICK k : IsLast(log, g, n, k) /\ d.status = StatusAfter(log[k].action)
        BY <3>1 DEF LoopInv
      <3>3. i = k
        BY <2>1, <3>2, LastUnique
      <3>4. QED
        BY <3>2, <3>3
    <2>3. QED
      BY <1>2, <1>5, <1>7, <2>1, <2>2 DEF ReplayError, StatusAfter, ia
  <1>8. QED
    BY <1>1, <1>6, <1>7 DEF Row, Actions

LEMMA LoopStep ==
    ASSUME OneOffset, NEW log, LegalLog(log), NEW g, NEW n \in Nat, NEW d,
           LoopInv(log, g, n, d),
           NEW j \in 1..Len(log), log[j].game = g, n < j,
           RowsUpTo(log, g, j - 1) = RowsUpTo(log, g, n)
    PROVE  LoopInv(log, g, j, ReplayStep(g, d, ToDomain(log[j])))
  <1> DEFINE ia == ToDomain(log[j])
             e == ReplayStep(g, d, ia)
  <1>1. log[j] \in Row
    BY LegalRow
  <1>2. Replayable(e)
    BY <1>1, ReplayStepReplayable DEF LoopInv
  <1>3. IsLast(log, g, j, j)
    BY DEF IsLast, RowsUpTo
  <1>4. ia.action = log[j].action /\ ia.occurredAt = Parse(log[j].occurredAt)
    BY <1>1, ToDomainType
  <1>5. ~ ReplayError(g, d, ia)
    BY LoopStepNoError
  <1>6. d \in SharedDataType /\ d.failed = FALSE
    BY DEF LoopInv, Replayable
  <1>7. /\ e.failed = FALSE
        /\ e.status = StatusAfter(log[j].action)
        /\ e.prevOccurredAt = Parse(log[j].occurredAt)
    <2>1. CASE ia.action = "saved"
      <3>1. e = ApplySaved(d, ia)
        BY <1>5, <2>1 DEF ReplayStep
      <3>2. QED
        BY <1>4, <1>6, <2>1, <3>1 DEF ApplySaved, SharedDataType, StatusAfter
    <2>2. CASE ia.action = "paused"
      <3>1. e = ApplyPaused(d, ia)
        BY <1>5, <2>2 DEF ReplayStep
      <3>2. QED
        BY <1>4, <1>6, <2>2, <3>1 DEF ApplyPaused, SharedDataType, StatusAfter
    <2>3. CASE ia.action = "resumed"
      <3>1. e = ApplyResumed(d, ia)
        BY <1>5, <2>3 DEF ReplayStep
      <3>2. QED
        BY <1>4, <1>6, <2>3, <3>1 DEF ApplyResumed, SharedDataType, StatusAfter
    <2>4. QED
      BY <1>1, <1>4, <2>1, <2>2, <2>3 DEF Row, Actions
  <1>8. QED
    BY <1>2, <1>3, <1>7 DEF LoopInv

\* Appending a row changes nothing about the rows before it.
LEMMA AppendKeeps ==
    ASSUME NEW log \in Seq(Row), NEW row, NEW n \in 0..Len(log), NEW g
    PROVE  /\ \A i \in 1..Len(log) : Append(log, row)[i] = log[i]
           /\ RowsUpTo(Append(log, row), g, n) = RowsUpTo(log, g, n)
           /\ \A i : IsLast(Append(log, row), g, n, i) <=> IsLast(log, g, n, i)
           /\ \A d : LoopInv(log, g, n, d) => LoopInv(Append(log, row), g, n, d)
  <1>1. \A i \in 1..Len(log) : Append(log, row)[i] = log[i]
    OBVIOUS
  <1>2. RowsUpTo(Append(log, row), g, n) = RowsUpTo(log, g, n)
    BY <1>1 DEF RowsUpTo
  <1>3. \A i : IsLast(Append(log, row), g, n, i) <=> IsLast(log, g, n, i)
    BY <1>2 DEF IsLast
  <1>4. \A i : IsLast(log, g, n, i) => i \in 1..Len(log)
    BY DEF IsLast, RowsUpTo
  <1>5. ASSUME NEW d, LoopInv(log, g, n, d) PROVE LoopInv(Append(log, row), g, n, d)
    BY <1>1, <1>2, <1>3, <1>4, <1>5 DEF LoopInv
  <1>6. QED
    BY <1>1, <1>2, <1>3, <1>5

\* The order of the queries is the order of insertion.
LEMMA RowOrder ==
    ASSUME LegalLog(interactions),
           NEW i \in 1..Len(interactions), NEW j \in 1..Len(interactions),
           interactions[i].game = interactions[j].game, i < j
    PROVE  RowBefore(i, j) /\ ~ RowBefore(j, i)
  <1>1. ~ TextLT(interactions[j].occurredAt, interactions[i].occurredAt)
    BY DEF LegalLog, InTextOrder
  <1>2. interactions[i].occurredAt \in Text /\ interactions[j].occurredAt \in Text
    BY LegalRow
  <1>3. ~ RowBefore(j, i)
    BY <1>1 DEF RowBefore
  <1>4. RowBefore(i, j)
    BY <1>1, <1>2, TextTotal DEF RowBefore
  <1>5. QED
    BY <1>3, <1>4

\* The trigger's idea of a game's latest row is the row inserted last.
LEMMA LatestIsLast ==
    ASSUME LegalLog(interactions), NEW g, NEW a
    PROVE  LatestIs(g, a) <=>
             \E i : /\ IsLast(interactions, g, Len(interactions), i)
                   /\ interactions[i].action = a
  <1> DEFINE n == Len(interactions)
             R == RowsUpTo(interactions, g, n)
  <1>1. GameRows(g) = R
    BY DEF GameRows, RowsUpTo
  <1>2. \A i \in R : i \in 1..n /\ interactions[i].game = g
    BY DEF RowsUpTo
  <1>3. \A i, j \in R : i < j => RowBefore(i, j) /\ ~ RowBefore(j, i)
    BY <1>2, RowOrder
  <1> HIDE DEF R, n
  <1>4. ASSUME NEW i \in R, \A j \in R \ {i} : RowBefore(j, i)
        PROVE  \A k \in R : k <= i
    BY <1>2, <1>3, <1>4
  <1>5. ASSUME NEW i \in R, \A k \in R : k <= i
        PROVE  \A j \in R \ {i} : RowBefore(j, i)
    BY <1>2, <1>3, <1>5
  <1>6. QED
    BY <1>1, <1>4, <1>5 DEF LatestIs, IsLast, R, n

LEMMA InsertLegal ==
    ASSUME TypeInv, LegalLog(interactions), NEW w \in Workers, Insert(w)
    PROVE  LegalLog(interactions')
  <1> DEFINE log == interactions
             row == worker[w]
             new == Append(log, row)
             n == Len(log)
  <1>1. interactions' = new
    BY DEF Insert
  <1>2. log \in Seq(Row) /\ row \in Row /\ n \in Nat
    BY DEF TypeInv, TypeOK, Insert, Optional
  <1>3. /\ new \in Seq(Row) /\ Len(new) = n + 1 /\ new[n + 1] = row
        /\ \A i \in 1..n : new[i] = log[i]
    BY <1>2
  <1>4. InTextOrder(new)
    <2> SUFFICES ASSUME NEW i \in 1..(n + 1), NEW j \in 1..(n + 1), i < j,
                        new[i].game = new[j].game
                 PROVE  ~ TextLT(new[j].occurredAt, new[i].occurredAt)
      BY <1>3 DEF InTextOrder
    <2>1. i \in 1..n /\ new[i] = log[i]
      BY <1>2, <1>3
    <2>2. CASE j \in 1..n
      BY <1>3, <2>1, <2>2 DEF LegalLog, InTextOrder
    <2>3. CASE j = n + 1
      <3>1. i \in GameRows(row.game)
        BY <1>3, <2>1, <2>3 DEF GameRows
      <3>2. QED
        BY <1>3, <2>1, <2>3, <3>1 DEF Insert, Precedes
    <2>4. QED
      BY <1>2, <2>2, <2>3
  <1>5. ASSUME NEW j \in 1..n PROVE LegalAt(new, j)
    <2>1. LegalAt(log, j) /\ new[j] = log[j]
      BY <1>3 DEF LegalLog
    <2>2. j - 1 \in 0..n
      BY <1>2
    <2>3. \A i : IsLast(new, log[j].game, j - 1, i) <=> IsLast(log, log[j].game, j - 1, i)
      BY <1>2, <2>2, AppendKeeps
    <2>4. \A i : IsLast(log, log[j].game, j - 1, i) => new[i] = log[i]
      BY <1>2, <1>3, <2>2 DEF IsLast, RowsUpTo
    <2>5. QED
      BY <2>1, <2>3, <2>4 DEF LegalAt
  <1>6. LegalAt(new, n + 1)
    <2> DEFINE g == row.game
               m == n + 1
    <2>1. /\ \A i : IsLast(new, g, n, i) <=> IsLast(log, g, n, i)
          /\ \A i : IsLast(log, g, n, i) => new[i] = log[i]
      BY <1>2, <1>3, AppendKeeps DEF IsLast, RowsUpTo
    <2>2. /\ ~ IllegalAction(row)
          /\ ChecksHold(row)
      BY DEF Insert
    <2>3. \A a : LatestIs(g, a) <=> \E i : IsLast(new, g, n, i) /\ new[i].action = a
      <3>1. \A a : LatestIs(g, a) <=> \E i : IsLast(log, g, n, i) /\ log[i].action = a
        BY LatestIsLast
      <3> HIDE DEF log, n, new, g
      <3>2. QED
        BY <2>1, <3>1
    <2>4. /\ new[m].game = g /\ new[m].action = row.action
          /\ new[m].savedBy = row.savedBy /\ m - 1 = n
      BY <1>2, <1>3
    <2> HIDE DEF g, new, row, n, log, m
    <2>5. row.action = "saved" =>
            /\ row.savedBy \in Int /\ row.savedBy > 0
            /\ \A i : IsLast(new, g, n, i) => new[i].action # "paused"
      <3>1. row.savedBy \in Optional(Int)
        BY <1>2, GameLogAssumption DEF Row, Optional, GameLogAssumption
      <3>2. QED
        BY <2>2, <2>3, <3>1 DEF IllegalAction, ChecksHold, Optional, g
    <2>6. row.action = "paused" =>
            \E i : IsLast(new, g, n, i) /\ new[i].action # "paused"
      BY <2>2, <2>3 DEF IllegalAction, g
    <2>7. row.action = "resumed" =>
            \E i : IsLast(new, g, n, i) /\ new[i].action = "paused"
      BY <2>2, <2>3 DEF IllegalAction, g
    <2>8. /\ new[m].action = "saved" =>
                /\ new[m].savedBy \in Int /\ new[m].savedBy > 0
                /\ \A i : IsLast(new, new[m].game, m - 1, i) => new[i].action # "paused"
          /\ new[m].action = "paused" =>
                \E i : IsLast(new, new[m].game, m - 1, i) /\ new[i].action # "paused"
          /\ new[m].action = "resumed" =>
                \E i : IsLast(new, new[m].game, m - 1, i) /\ new[i].action = "paused"
      BY <2>4, <2>5, <2>6, <2>7
    <2>9. LegalAt(new, m)
      BY <2>8 DEF LegalAt
    <2>10. QED
      BY <2>9 DEF m
  <1> HIDE DEF new, n
  <1>7. \A j \in 1..(n + 1) : LegalAt(new, j)
    <2> SUFFICES ASSUME NEW j \in 1..(n + 1) PROVE LegalAt(new, j)
      OBVIOUS
    <2>1. j \in 1..n \/ j = n + 1
      BY <1>2
    <2>2. QED
      BY <2>1, <1>5, <1>6
  <1>8. QED
    BY <1>1, <1>3, <1>4, <1>7 DEF LegalLog

(***************************************************************************)
(* What the query of a replay returns, over a table log.  In a legal table *)
(* it is the game's rows in the order of their ids, so the place of a row  *)
(* is told by how many rows of the game come before it.                    *)
(***************************************************************************)
Earlier(log, i, j) ==
    \/ TextLT(log[i].occurredAt, log[j].occurredAt)
    \/ log[i].occurredAt = log[j].occurredAt /\ i < j

Count(log, g, n) == Cardinality(RowsUpTo(log, g, n))

Nth(log, g, n, k) ==
    CHOOSE i \in RowsUpTo(log, g, n) :
        Cardinality({j \in RowsUpTo(log, g, n) : Earlier(log, j, i)}) = k - 1

HistoryOf(log, g, n) ==
    [k \in 1..Count(log, g, n) |-> ToDomain(log[Nth(log, g, n, k)])]

LEMMA HistoryIs == \A g, n : History(g, n) = HistoryOf(interactions, g, n)
  BY DEF History, HistoryOf, Nth, Count, RowsUpTo, Earlier, RowBefore

LEMMA EarlierIsBefore ==
    ASSUME NEW log, LegalLog(log), NEW i \in 1..Len(log), NEW j \in 1..Len(log),
           log[i].game = log[j].game
    PROVE  Earlier(log, i, j) <=> i < j
  <1>1. log[i].occurredAt \in Text /\ log[j].occurredAt \in Text
    BY LegalRow
  <1>2. Len(log) \in Nat
    BY DEF LegalLog
  <1>3. CASE i < j
    <2>1. ~ TextLT(log[j].occurredAt, log[i].occurredAt)
      BY <1>3 DEF LegalLog, InTextOrder
    <2> QED
      BY <1>1, <1>3, <2>1, TextTotal DEF Earlier
  <1>4. CASE i = j
    BY <1>1, <1>4, TextAsymmetric DEF Earlier
  <1>5. CASE j < i
    <2>1. ~ TextLT(log[i].occurredAt, log[j].occurredAt)
      BY <1>5 DEF LegalLog, InTextOrder
    <2> QED
      BY <1>2, <1>5, <2>1 DEF Earlier
  <1> QED
    BY <1>2, <1>3, <1>4, <1>5

\* One row more counts as one if it is the game's.
LEMMA CountStep ==
    ASSUME NEW log, NEW g, NEW n \in Nat
    PROVE  /\ Count(log, g, n) \in Nat
           /\ Count(log, g, 0) = 0
           /\ Count(log, g, n + 1) =
                IF log[n + 1].game = g THEN Count(log, g, n) + 1 ELSE Count(log, g, n)
           /\ IsFiniteSet(RowsUpTo(log, g, n))
  <1>1. 1 \in Int /\ n \in Int
    OBVIOUS
  <1>2. IsFiniteSet(1..n)
    BY <1>1, FS_Interval
  <1>3. RowsUpTo(log, g, n) \in SUBSET (1..n)
    BY DEF RowsUpTo
  <1>4. IsFiniteSet(RowsUpTo(log, g, n))
    BY <1>2, <1>3, FS_Subset
  <1>5. RowsUpTo(log, g, 0) = {}
    BY DEF RowsUpTo
  <1>6. n + 1 \notin RowsUpTo(log, g, n)
    BY DEF RowsUpTo
  <1>7. RowsUpTo(log, g, n + 1) =
            IF log[n + 1].game = g THEN RowsUpTo(log, g, n) \cup {n + 1}
            ELSE RowsUpTo(log, g, n)
    BY DEF RowsUpTo
  <1>8. Count(log, g, n) \in Nat
    BY <1>4, FS_CardinalityType DEF Count
  <1>9. Count(log, g, 0) = 0
    BY <1>5, FS_EmptySet DEF Count
  <1>10. Cardinality(RowsUpTo(log, g, n) \cup {n + 1}) = Count(log, g, n) + 1
    BY <1>4, <1>6, FS_AddElement DEF Count
  <1>11. Count(log, g, n + 1) =
            IF log[n + 1].game = g THEN Count(log, g, n) + 1 ELSE Count(log, g, n)
    BY <1>7, <1>10 DEF Count
  <1> QED
    BY <1>4, <1>8, <1>9, <1>11

\* The count grows with the ids, strictly over a row of the game.
LEMMA CountGrows ==
    ASSUME NEW log, NEW g, NEW i \in Nat \ {0}, log[i].game = g, NEW k \in Nat, i <= k
    PROVE  Count(log, g, i - 1) < Count(log, g, k)
  <1>1. i - 1 \in Nat /\ (i - 1) + 1 = i
    OBVIOUS
  <1>2. Count(log, g, i) = Count(log, g, i - 1) + 1
    BY <1>1, CountStep
  <1>3. RowsUpTo(log, g, i) \in SUBSET RowsUpTo(log, g, k)
    BY DEF RowsUpTo
  <1>4. Count(log, g, i) <= Count(log, g, k)
    BY <1>3, CountStep, FS_Subset DEF Count
  <1> QED
    BY <1>1, <1>2, <1>4, CountStep

\* The k-th row of a query is the row of the game with k - 1 before it.
LEMMA NthIs ==
    ASSUME NEW log, LegalLog(log), NEW g, NEW n \in 0..Len(log), NEW k \in Nat,
           NEW i \in RowsUpTo(log, g, n), Count(log, g, i - 1) = k - 1
    PROVE  Nth(log, g, n, k) = i
  <1> DEFINE ids == RowsUpTo(log, g, n)
  <1>1. Len(log) \in Nat
    BY DEF LegalLog
  <1>2. \A h \in ids : h \in 1..n /\ h \in 1..Len(log) /\ log[h].game = g
    BY <1>1 DEF RowsUpTo
  <1>3. ASSUME NEW h \in ids
        PROVE  Cardinality({j \in ids : Earlier(log, j, h)}) = Count(log, g, h - 1)
    <2>1. \A j \in ids : Earlier(log, j, h) <=> j < h
      BY <1>2, <1>3, EarlierIsBefore
    <2>2. {j \in ids : Earlier(log, j, h)} = RowsUpTo(log, g, h - 1)
      BY <1>2, <1>3, <2>1 DEF RowsUpTo
    <2> QED
      BY <2>2 DEF Count
  <1>4. ASSUME NEW h \in ids, Count(log, g, h - 1) = k - 1 PROVE h = i
    <2>1. h \in Nat \ {0} /\ i \in Nat \ {0} /\ h - 1 \in Nat /\ i - 1 \in Nat
          /\ log[h].game = g /\ log[i].game = g
      BY <1>2, <1>4
    <2>2. Count(log, g, h - 1) \in Nat
      BY <2>1, CountStep
    <2>3. ASSUME h <= i - 1 PROVE FALSE
      <3>1. Count(log, g, h - 1) < Count(log, g, i - 1)
        BY <2>1, <2>3, CountGrows
      <3> QED
        BY <1>4, <2>2, <3>1
    <2>4. ASSUME i <= h - 1 PROVE FALSE
      <3>1. Count(log, g, i - 1) < Count(log, g, h - 1)
        BY <2>1, <2>4, CountGrows
      <3> QED
        BY <1>4, <2>2, <3>1
    <2> QED
      BY <2>1, <2>3, <2>4
  <1> HIDE DEF ids
  <1>5. \A h \in ids :
            Cardinality({j \in ids : Earlier(log, j, h)}) = k - 1 <=> h = i
    BY <1>3, <1>4
  <1>6. i \in ids
    BY DEF ids
  <1> QED
    BY <1>5, <1>6 DEF Nth, ids

LEMMA NthExists ==
    ASSUME NEW log, NEW g
    PROVE  \A n \in Nat : \A k \in 1..Count(log, g, n) :
              \E i \in RowsUpTo(log, g, n) : Count(log, g, i - 1) = k - 1
  <1> DEFINE Holds(n) == \A k \in 1..Count(log, g, n) :
                            \E i \in RowsUpTo(log, g, n) : Count(log, g, i - 1) = k - 1
             S == {n \in Nat : Holds(n)}
  <1>1. 0 \in S
    BY CountStep
  <1>2. ASSUME NEW n \in Nat, n \in S PROVE n + 1 \in S
    <2> SUFFICES ASSUME NEW k \in 1..Count(log, g, n + 1)
                 PROVE  \E i \in RowsUpTo(log, g, n + 1) : Count(log, g, i - 1) = k - 1
      OBVIOUS
    <2>1. RowsUpTo(log, g, n) \subseteq RowsUpTo(log, g, n + 1)
      BY DEF RowsUpTo
    <2>2. CASE k \in 1..Count(log, g, n)
      BY <1>2, <2>1, <2>2
    <2>3. CASE k \notin 1..Count(log, g, n)
      <3>1. log[n + 1].game = g /\ k = Count(log, g, n) + 1
        BY <2>3, CountStep
      <3>2. n + 1 \in RowsUpTo(log, g, n + 1) /\ (n + 1) - 1 = n
        BY <3>1 DEF RowsUpTo
      <3> QED
        BY <3>1, <3>2, CountStep
    <2> QED
      BY <2>2, <2>3
  <1> HIDE DEF S
  <1>3. \A n \in Nat : n \in S
    BY <1>1, <1>2, Induction
  <1> QED
    BY <1>3 DEF S

LEMMA NthRow ==
    ASSUME NEW log, LegalLog(log), NEW g, NEW n \in 0..Len(log),
           NEW k \in 1..Count(log, g, n)
    PROVE  /\ Nth(log, g, n, k) \in RowsUpTo(log, g, n)
           /\ Count(log, g, Nth(log, g, n, k) - 1) = k - 1
  <1>1. n \in Nat /\ Count(log, g, n) \in Nat
    BY CountStep
  <1>2. PICK i \in RowsUpTo(log, g, n) : Count(log, g, i - 1) = k - 1
    BY <1>1, NthExists
  <1>3. k \in Nat
    BY <1>1
  <1>4. Nth(log, g, n, k) = i
    BY <1>2, <1>3, NthIs
  <1> QED
    BY <1>2, <1>4

LEMMA HistoryLen ==
    ASSUME NEW log, NEW g, NEW n \in Nat
    PROVE  Len(HistoryOf(log, g, n)) = Count(log, g, n)
  <1> DEFINE m == Count(log, g, n)
             s == HistoryOf(log, g, n)
  <1>1. m \in Nat
    BY CountStep
  <1>2. s = [k \in 1..m |-> s[k]]
    BY DEF HistoryOf
  <1> HIDE DEF s, m
  <1>3. s \in Seq({s[k] : k \in 1..m})
    BY <1>1, <1>2
  <1>4. DOMAIN s = 1..m
    BY <1>2
  <1>5. Len(s) \in Nat /\ DOMAIN s = 1..Len(s)
    BY <1>3
  <1>6. Len(s) = m
    BY <1>1, <1>4, <1>5
  <1> QED
    BY <1>6 DEF s, m

\* A row of the game is one more interaction at the end of its history.
LEMMA HistoryExtends ==
    ASSUME NEW log, LegalLog(log), NEW g, NEW n \in Nat, n + 1 <= Len(log),
           log[n + 1].game = g
    PROVE  LET m == Count(log, g, n)
           IN  /\ Count(log, g, n + 1) = m + 1
               /\ \A k \in 1..m : HistoryOf(log, g, n + 1)[k] = HistoryOf(log, g, n)[k]
               /\ HistoryOf(log, g, n + 1)[m + 1] = ToDomain(log[n + 1])
  <1> DEFINE m == Count(log, g, n)
  <1>1. Len(log) \in Nat /\ n \in 0..Len(log) /\ n + 1 \in 0..Len(log)
    BY DEF LegalLog
  <1>2. m \in Nat /\ Count(log, g, n + 1) = m + 1
    BY CountStep
  <1>3. RowsUpTo(log, g, n) \subseteq RowsUpTo(log, g, n + 1)
    BY DEF RowsUpTo
  <1>4. ASSUME NEW k \in 1..m PROVE Nth(log, g, n + 1, k) = Nth(log, g, n, k)
    <2>1. PICK i : i = Nth(log, g, n, k)
      OBVIOUS
    <2>2. i \in RowsUpTo(log, g, n + 1) /\ Count(log, g, i - 1) = k - 1
      BY <1>1, <1>3, <1>4, <2>1, NthRow
    <2>3. k \in Nat
      BY <1>2
    <2> HIDE DEF m
    <2>4. Nth(log, g, n + 1, k) = i
      BY <1>1, <2>2, <2>3, NthIs
    <2> QED
      BY <2>1, <2>4
  <1>5. Nth(log, g, n + 1, m + 1) = n + 1
    <2>1. n + 1 \in RowsUpTo(log, g, n + 1)
      BY DEF RowsUpTo
    <2>2. (n + 1) - 1 = n /\ (m + 1) - 1 = m /\ m + 1 \in Nat
      BY <1>2
    <2>3. Count(log, g, (n + 1) - 1) = (m + 1) - 1
      BY <2>2
    <2> HIDE DEF m
    <2> QED
      BY <1>1, <2>1, <2>2, <2>3, NthIs
  <1> HIDE DEF m
  <1>6. \A k \in 1..(m + 1) : HistoryOf(log, g, n + 1)[k] = ToDomain(log[Nth(log, g, n + 1, k)])
    BY <1>2 DEF HistoryOf
  <1>7. \A k \in 1..m : HistoryOf(log, g, n)[k] = ToDomain(log[Nth(log, g, n, k)])
    BY DEF HistoryOf, m
  <1>8. \A k \in 1..m : HistoryOf(log, g, n + 1)[k] = HistoryOf(log, g, n)[k]
    BY <1>2, <1>4, <1>6, <1>7
  <1>9. HistoryOf(log, g, n + 1)[m + 1] = ToDomain(log[n + 1])
    BY <1>2, <1>5, <1>6
  <1> QED
    BY <1>2, <1>8, <1>9 DEF m

\* So it is one more iteration of the loop.
LEMMA ReplayExtends ==
    ASSUME NEW log, LegalLog(log), NEW g, NEW n \in Nat, n + 1 <= Len(log),
           log[n + 1].game = g, ~ Replay(g, HistoryOf(log, g, n)).failed
    PROVE  Replay(g, HistoryOf(log, g, n + 1))
             = ReplayStep(g, Replay(g, HistoryOf(log, g, n)), ToDomain(log[n + 1]))
  <1>1. PICK m, s, t : /\ m = Count(log, g, n)
                       /\ s = HistoryOf(log, g, n)
                       /\ t = HistoryOf(log, g, n + 1)
    OBVIOUS
  <1>2. m \in Nat /\ Len(s) = m
    BY <1>1, CountStep, HistoryLen
  <1>3. /\ Count(log, g, n + 1) = m + 1
        /\ \A k \in 1..m : t[k] = s[k]
        /\ t[m + 1] = ToDomain(log[n + 1])
    BY <1>1, HistoryExtends
  <1>4. n + 1 \in Nat
    OBVIOUS
  <1>5. Len(t) = m + 1
    BY <1>1, <1>3, <1>4, HistoryLen
  <1>6. Replay(g, t) = Iteration(g, t, Replay(g, s), m + 1)
    BY <1>2, <1>3, <1>5, ReplayUnfolds
  <1> QED
    BY <1>1, <1>3, <1>6 DEF Iteration

\* Rows of other games leave a game's history as it is.
LEMMA HistorySkips ==
    ASSUME NEW log, NEW g, NEW n, NEW m, RowsUpTo(log, g, n) = RowsUpTo(log, g, m)
    PROVE  HistoryOf(log, g, n) = HistoryOf(log, g, m)
  BY DEF HistoryOf, Nth, Count

\* And so do rows beyond those the query saw.
LEMMA HistoryKeeps ==
    ASSUME NEW log, LegalLog(log), NEW new, LegalLog(new), NEW g,
           NEW n \in 0..Len(log), n <= Len(new), \A i \in 1..n : new[i] = log[i]
    PROVE  HistoryOf(new, g, n) = HistoryOf(log, g, n)
  <1>1. Len(log) \in Nat /\ Len(new) \in Nat /\ n \in 0..Len(new)
    BY DEF LegalLog
  <1>2. \A m \in 0..n : RowsUpTo(new, g, m) = RowsUpTo(log, g, m)
    BY DEF RowsUpTo
  <1>3. \A m \in 0..n : Count(new, g, m) = Count(log, g, m)
    BY <1>2 DEF Count
  <1>4. n \in 0..n
    BY <1>1
  <1>5. ASSUME NEW k \in 1..Count(log, g, n)
        PROVE  ToDomain(new[Nth(new, g, n, k)]) = ToDomain(log[Nth(log, g, n, k)])
    <2>1. PICK i : i = Nth(log, g, n, k)
      OBVIOUS
    <2>2. i \in RowsUpTo(log, g, n) /\ Count(log, g, i - 1) = k - 1
      BY <1>5, <2>1, NthRow
    <2>3. i \in 1..n /\ i - 1 \in 0..n /\ k \in Nat
      BY <1>1, <1>5, <2>2, CountStep DEF RowsUpTo
    <2>4. i \in RowsUpTo(new, g, n) /\ Count(new, g, i - 1) = k - 1
      BY <1>2, <1>3, <1>4, <2>2, <2>3
    <2>5. Nth(new, g, n, k) = i
      BY <1>1, <2>3, <2>4, NthIs
    <2> QED
      BY <2>1, <2>3, <2>5
  <1> QED
    BY <1>3, <1>4, <1>5 DEF HistoryOf

\* The invariant of the table and of the replays kept with it.
LogInv ==
    /\ LegalLog(interactions)
    /\ \A g \in Games : LoopInv(interactions, g, Len(interactions), replayed[g])

LEMMA LogInvInit == Init => LogInv
  <1> SUFFICES ASSUME Init PROVE LogInv
    OBVIOUS
  <1>1. interactions = << >>
    BY DEF Init
  <1>2. LegalLog(<< >>)
    BY DEF LegalLog, InTextOrder
  <1>3. \A g : RowsUpTo(<< >>, g, Len(<< >>)) = {}
    BY DEF RowsUpTo
  <1>4. ASSUME NEW g \in Games
        PROVE  LoopInv(<< >>, g, Len(<< >>), NewSharedData)
    <2>1. Replayable(NewSharedData)
      BY DEF NewSharedData, SharedDataType, Replayable, Statuses, Optional
    <2>2. /\ NewSharedData.failed = FALSE
          /\ NewSharedData.status = "not_started"
          /\ NewSharedData.prevOccurredAt = Nil
      BY DEF NewSharedData
    <2>3. QED
      BY <1>3, <2>1, <2>2 DEF LoopInv
  <1>5. QED
    BY <1>1, <1>2, <1>4 DEF LogInv, Init

LEMMA InsertLogInv ==
    ASSUME OneOffset, TypeInv, LogInv, NEW w \in Workers, Insert(w)
    PROVE  LogInv'
  <1> DEFINE log == interactions
             row == worker[w]
             new == Append(log, row)
             n == Len(log)
             h == row.game
  <1>1. interactions' = new
        /\ replayed' = [replayed EXCEPT ![h] = ReplayStep(h, replayed[h], ToDomain(row))]
    BY DEF Insert
  <1>2. /\ log \in Seq(Row) /\ row \in Row /\ n \in Nat /\ h \in Games
        /\ replayed \in [Games -> SharedDataType]
    BY DEF TypeInv, TypeOK, Insert, Optional, Row
  <1>3. /\ Len(new) = n + 1 /\ new[n + 1] = row
        /\ \A i \in 1..n : new[i] = log[i]
    BY <1>2
  <1>4. LegalLog(new)
    BY <1>1, InsertLegal DEF LogInv
  <1>5. ASSUME NEW g \in Games
        PROVE  LoopInv(new, g, n, replayed[g])
    <2>1. LoopInv(log, g, n, replayed[g]) /\ n \in 0..Len(log)
      BY <1>2 DEF LogInv
    <2> HIDE DEF log, n
    <2>2. QED
      BY <1>2, <2>1, AppendKeeps
  <1>6. LoopInv(new, h, n + 1, replayed'[h])
    <2> DEFINE m == n + 1
    <2>1. RowsUpTo(new, h, m - 1) = RowsUpTo(new, h, n)
      BY <1>2
    <2>2. m \in 1..Len(new) /\ n < m
      BY <1>2, <1>3
    <2>3. replayed'[h] = ReplayStep(h, replayed[h], ToDomain(new[m]))
      BY <1>1, <1>2, <1>3
    <2>4. LoopInv(new, h, n, replayed[h])
      BY <1>2, <1>5
    <2>5. new[m].game = h
      BY <1>3
    <2> HIDE DEF new, n, h, m
    <2>6. LoopInv(new, h, m, replayed'[h])
      BY <1>2, <1>4, <2>1, <2>2, <2>3, <2>4, <2>5, LoopStep
    <2>7. QED
      BY <2>6 DEF m
  <1>7. ASSUME NEW g \in Games, g # h
        PROVE  LoopInv(new, g, n + 1, replayed'[g])
    <2>1. RowsUpTo(new, g, n + 1) = RowsUpTo(new, g, n)
      BY <1>2, <1>3, <1>7 DEF RowsUpTo
    <2>2. replayed'[g] = replayed[g]
      BY <1>1, <1>2, <1>7
    <2>3. \A i : IsLast(new, g, n + 1, i) <=> IsLast(new, g, n, i)
      BY <2>1 DEF IsLast
    <2>4. LoopInv(new, g, n, replayed[g])
      BY <1>5
    <2> HIDE DEF new, n, h
    <2>5. QED
      BY <2>1, <2>2, <2>3, <2>4 DEF LoopInv
  <1> HIDE DEF new, n, h
  <1>8. \A g \in Games : LoopInv(new, g, n + 1, replayed'[g])
    BY <1>6, <1>7
  <1>9. QED
    BY <1>1, <1>3, <1>4, <1>8 DEF LogInv

\* Only a successful INSERT writes the table.
LEMMA OnlyInsertWrites ==
    ASSUME [Next]_vars
    PROVE  \/ UNCHANGED <<interactions, replayed>>
           \/ \E w \in Workers : Insert(w)
  BY DEF Next, WorkerStep, SaveGame, ResumeGame, PauseGame, Command, RefuseOutOfOrder,
         RefuseConflict, InsertFails, Tick, SetBack, vars

LEMMA LogInvNext ==
    ASSUME OneOffset
    PROVE  TypeInv /\ LogInv /\ [Next]_vars => LogInv'
  <1> SUFFICES ASSUME TypeInv, LogInv, [Next]_vars PROVE LogInv'
    OBVIOUS
  <1>1. CASE UNCHANGED <<interactions, replayed>>
    BY <1>1 DEF LogInv
  <1>2. ASSUME NEW w \in Workers, Insert(w) PROVE LogInv'
    BY <1>2, InsertLogInv
  <1>3. ASSUME NEW w \in Workers, WorkerStep(w), ~ Insert(w)
        PROVE  UNCHANGED <<interactions, replayed>>
    BY <1>3 DEF WorkerStep, SaveGame, ResumeGame, PauseGame, Command,
                RefuseOutOfOrder, RefuseConflict, InsertFails
  <1>4. Tick \/ SetBack \/ UNCHANGED vars => UNCHANGED <<interactions, replayed>>
    BY DEF Tick, SetBack, vars
  <1>5. QED
    BY <1>1, <1>2, <1>3, <1>4 DEF Next

LEMMA LogInvAlways ==
    ASSUME OneOffset
    PROVE  Spec => [](TypeInv /\ LogInv)
  BY TypeInvInit, TypeInvNext, LogInvInit, LogInvNext, PTL DEF Spec

\* When all writers share a zone, each game's rows are inserted in the order
\* of the instants they denote, however commands overtake one another and
\* however the clock is set back.
THEOREM InsertedInTimeOrder ==
    ASSUME OneOffset
    PROVE  Spec => []RowsInTimeOrder
  <1>1. ASSUME LogInv PROVE RowsInTimeOrder
    <2> SUFFICES ASSUME NEW i \in 1..Len(interactions), NEW j \in 1..Len(interactions),
                        i < j, interactions[i].game = interactions[j].game
                 PROVE  Parse(interactions[i].occurredAt) <= Parse(interactions[j].occurredAt)
      BY DEF RowsInTimeOrder
    <2>1. ~ TextLT(interactions[j].occurredAt, interactions[i].occurredAt)
      BY <1>1 DEF LogInv, LegalLog, InTextOrder
    <2>2. interactions[i].occurredAt \in Text /\ interactions[j].occurredAt \in Text
      BY <1>1, LegalRow DEF LogInv
    <2>3. /\ Parse(interactions[i].occurredAt) \in Int
          /\ Parse(interactions[j].occurredAt) \in Int
      BY <2>2, ParseType
    <2>4. QED
      BY <2>1, <2>2, <2>3, TextIsTime
  <1>2. QED
    BY <1>1, LogInvAlways, PTL

(***************************************************************************)
(* The replays kept with the table are what GetSharedData would compute.   *)
(***************************************************************************)
Follows ==
    \A g \in Games : Replay(g, HistoryOf(interactions, g, Len(interactions))) = replayed[g]

LEMMA FollowsInit == Init => Follows
  <1> SUFFICES ASSUME Init, NEW g \in Games
               PROVE  Replay(g, HistoryOf(interactions, g, Len(interactions))) = replayed[g]
    BY DEF Follows
  <1>1. Len(interactions) = 0 /\ replayed[g] = NewSharedData
    BY DEF Init
  <1>2. Len(HistoryOf(interactions, g, 0)) = 0
    BY HistoryLen, CountStep
  <1> QED
    BY <1>1, <1>2, ReplayNothing

LEMMA InsertFollows ==
    ASSUME OneOffset, TypeInv, LogInv, Follows, NEW w \in Workers, Insert(w)
    PROVE  Follows'
  <1>1. PICK log, row, n, h : log = interactions /\ row = worker[w] /\ n = Len(log)
                              /\ h = row.game
    OBVIOUS
  <1>2. PICK new : new = Append(log, row)
    OBVIOUS
  <1>3. /\ interactions' = new
        /\ replayed' = [replayed EXCEPT ![h] = ReplayStep(h, replayed[h], ToDomain(row))]
    BY <1>1, <1>2 DEF Insert
  <1>4. /\ log \in Seq(Row) /\ row \in Row /\ n \in Nat /\ h \in Games
        /\ replayed \in [Games -> SharedDataType]
    BY <1>1 DEF TypeInv, TypeOK, Insert, Optional, Row
  <1>5. /\ Len(new) = n + 1 /\ new[n + 1] = row
        /\ \A i \in 1..n : new[i] = log[i]
    BY <1>1, <1>2, <1>4
  <1>6. LegalLog(log) /\ LegalLog(new)
    BY <1>1, <1>3, InsertLegal DEF LogInv
  <1>7. \A g \in Games : HistoryOf(new, g, n) = HistoryOf(log, g, n)
    BY <1>1, <1>4, <1>5, <1>6, HistoryKeeps
  <1>8. \A g \in Games : /\ Replay(g, HistoryOf(new, g, n)) = replayed[g]
                         /\ replayed[g].failed = FALSE
    BY <1>1, <1>7 DEF Follows, LogInv, LoopInv
  <1>9. Replay(h, HistoryOf(new, h, n + 1)) = replayed'[h]
    BY <1>1, <1>3, <1>4, <1>5, <1>6, <1>8, ReplayExtends
  <1>10. ASSUME NEW g \in Games, g # h
         PROVE  Replay(g, HistoryOf(new, g, n + 1)) = replayed'[g]
    <2>1. RowsUpTo(new, g, n + 1) = RowsUpTo(new, g, n)
      BY <1>1, <1>4, <1>5, <1>10 DEF RowsUpTo
    <2>2. HistoryOf(new, g, n + 1) = HistoryOf(new, g, n)
      BY <2>1, HistorySkips
    <2> QED
      BY <1>3, <1>4, <1>8, <1>10, <2>2
  <1> QED
    BY <1>3, <1>5, <1>9, <1>10 DEF Follows

LEMMA FollowsNext ==
    ASSUME OneOffset
    PROVE  TypeInv /\ LogInv /\ Follows /\ [Next]_vars => Follows'
  <1> SUFFICES ASSUME TypeInv, LogInv, Follows, [Next]_vars PROVE Follows'
    OBVIOUS
  <1>1. CASE UNCHANGED <<interactions, replayed>>
    BY <1>1 DEF Follows
  <1>2. ASSUME NEW w \in Workers, Insert(w) PROVE Follows'
    BY <1>2, InsertFollows
  <1> QED
    BY <1>1, <1>2, OnlyInsertWrites

\* When all writers share a zone, what a replay of the table computes for a
\* game is what its commands did to it, one by one in the order in which they
\* were stored.
THEOREM TableReplaysItsCommands ==
    ASSUME OneOffset
    PROVE  Spec => []ReplayFollowsInsertion
  <1>1. Follows => ReplayFollowsInsertion
    BY HistoryIs DEF Follows, ReplayFollowsInsertion, Current
  <1> QED
    BY <1>1, TypeInvInit, TypeInvNext, LogInvInit, LogInvNext, FollowsInit, FollowsNext,
       PTL DEF Spec

(***************************************************************************)
(* Arithmetic.                                                             *)
(***************************************************************************)

\* No duration clients ask for leaves the range of time.Duration (run
\* overflow shows what happens otherwise).
NoOverflow ==
    \A s \in Durations : s >= 1 => s * TicksPerSecond < DurationHalf

\* The model's time is shorter than the 292 years time.Duration spans.
ShortHistory == MaxNow < DurationHalf

\* A save buys exactly the time asked for, and that is no less than nothing.
LEMMA ExtensionExact ==
    ASSUME NoOverflow, NEW s \in Durations, s >= 1
    PROVE  Extension(s) = s * TicksPerSecond /\ Extension(s) \in Nat
  <1>1. s \in Int /\ TicksPerSecond \in Nat \ {0} /\ DurationHalf \in Nat \ {0}
    BY SharedDataAssumption, GameLogAssumption DEF SharedDataAssumption, GameLogAssumption
  <1>2. s * TicksPerSecond \in Nat
    BY <1>1
  <1>3. s * TicksPerSecond < DurationHalf
    BY DEF NoOverflow
  <1>4. QED
    BY <1>1, <1>2, <1>3, WrapInRange DEF Extension

\* The events' instants lie within the model's time.
LEMMA InstantsInRange == Instants \subseteq 0..MaxNow
  <1> DEFINE seconds == MaxNow \div TicksPerSecond
  <1>1. TicksPerSecond \in Nat \ {0} /\ MaxNow \in Nat
    BY SharedDataAssumption, GameLogAssumption DEF SharedDataAssumption, GameLogAssumption
  <1>2. seconds \in Nat /\ seconds * TicksPerSecond <= MaxNow
    BY <1>1
  <1> HIDE DEF seconds
  <1>3. ASSUME NEW k \in 0..seconds PROVE k * TicksPerSecond \in 0..MaxNow
    <2>1. k * TicksPerSecond \in Nat
      BY <1>1, <1>2
    <2>2. k * TicksPerSecond <= seconds * TicksPerSecond
      BY <1>1, <1>2
    <2> QED
      BY <1>1, <1>2, <2>1, <2>2
  <1> QED
    BY <1>3 DEF Instants, seconds

\* What the text of a clock reading denotes is one of the events' instants.
LEMMA FormatInstant ==
    ASSUME NEW t \in 0..MaxNow, NEW off \in Offsets
    PROVE  Parse(Format(t, off)) \in Instants
  <1>1. TicksPerSecond \in Nat \ {0} /\ MaxNow \in Nat /\ off \in Int
    BY SharedDataAssumption, GameLogAssumption DEF SharedDataAssumption, GameLogAssumption
  <1> DEFINE k == t \div TicksPerSecond
  <1>2. k \in 0..(MaxNow \div TicksPerSecond)
    BY <1>1
  <1> DEFINE text == Format(t, off)
  <1>3. text.local = k + off /\ text.off = off
    BY DEF Format
  <1> HIDE DEF k, text
  <1>4. text.local - text.off = k
    BY <1>1, <1>2, <1>3
  <1>5. Parse(text) = k * TicksPerSecond
    BY <1>4 DEF Parse
  <1> QED
    BY <1>2, <1>5 DEF Instants, text

(***************************************************************************)
(* One iteration of the replay.                                            *)
(***************************************************************************)

LEMMA PauseClockStep ==
    ASSUME NEW g, NEW d, Replayable(d), PauseClock(d), NEW row \in Row
    PROVE  PauseClock(ReplayStep(g, d, ToDomain(row)))
  BY ToDomainType, IterationPauseClock DEF Typed

\* Whatever row comes next, the deadline stays or moves forward: a save adds a
\* positive time, and a resume comes no earlier than its pause.
LEMMA DeadlineStep ==
    ASSUME NoOverflow, NEW g, NEW d, Replayable(d), PauseClock(d), NEW row \in Row,
           d.deadlineAt # Nil
    PROVE  ReplayStep(g, d, ToDomain(row)).deadlineAt >= d.deadlineAt
  <1> DEFINE ia == ToDomain(row)
  <1>1. ia.occurredAt \in Int /\ ia.action \in Actions /\ ia.savedBy \in Optional(Durations)
    BY ToDomainType DEF ToDomain, Row
  <1>2. d \in SharedDataType /\ d.status # "not_started" /\ d.deadlineAt \in Int
    BY DEF Replayable, PauseClock
  <1> HIDE DEF ia
  <1>3. CASE ReplayError(g, d, ia)
    BY <1>2, <1>3 DEF ReplayStep, SharedDataType, ia
  <1>4. CASE ~ ReplayError(g, d, ia) /\ ia.action = "saved"
    <2>1. ia.savedBy \in Durations /\ ia.savedBy >= 1
      <3>1. ia.savedBy # Nil /\ ~ (ia.savedBy <= 0)
        BY <1>4 DEF ReplayError
      <3>2. ia.savedBy \in Durations /\ ia.savedBy \in Int
        BY <1>1, <3>1, GameLogAssumption DEF Optional, GameLogAssumption
      <3> QED
        BY <3>1, <3>2
    <2>2. Extension(ia.savedBy) \in Nat
      BY <2>1, ExtensionExact
    <2> DEFINE sum == d.deadlineAt + Extension(ia.savedBy)
    <2>3. sum >= d.deadlineAt
      BY <1>2, <2>2
    <2>4. ReplayStep(g, d, ia) =
            [d EXCEPT !.status = "playing", !.deadlineAt = sum,
                      !.lastSavedAt = ia.occurredAt, !.prevOccurredAt = ia.occurredAt]
      BY <1>2, <1>4 DEF ReplayStep, ApplySaved
    <2> HIDE DEF sum
    <2>5. ReplayStep(g, d, ia).deadlineAt = sum
      BY <1>2, <2>4 DEF SharedDataType
    <2> QED
      BY <2>3, <2>5 DEF ia
  <1>5. CASE ~ ReplayError(g, d, ia) /\ ia.action = "paused"
    <2>1. ReplayStep(g, d, ia).deadlineAt = d.deadlineAt
      BY <1>2, <1>5 DEF ReplayStep, ApplyPaused, SharedDataType
    <2> QED
      BY <1>2, <2>1 DEF ia
  <1>6. CASE ~ ReplayError(g, d, ia) /\ ia.action = "resumed"
    <2>1. d.lastPausedAt \in Int /\ ia.occurredAt >= d.lastPausedAt
      BY <1>1, <1>6, SharedDataAssumption
      DEF ReplayError, PauseClock, Replayable, SharedDataAssumption
    <2>2. Sub(ia.occurredAt, d.lastPausedAt) \in Nat
      BY <1>1, <2>1, SharedDataAssumption DEF Sub, SharedDataAssumption
    <2> DEFINE sum == d.deadlineAt + Sub(ia.occurredAt, d.lastPausedAt)
    <2>3. sum >= d.deadlineAt
      BY <1>2, <2>2
    <2>4. ReplayStep(g, d, ia) =
            [d EXCEPT !.status = "playing", !.deadlineAt = sum,
                      !.lastPausedAt = Nil, !.prevOccurredAt = ia.occurredAt]
      BY <1>6 DEF ReplayStep, ApplyResumed
    <2> HIDE DEF sum
    <2>5. ReplayStep(g, d, ia).deadlineAt = sum
      BY <1>2, <2>4 DEF SharedDataType
    <2> QED
      BY <2>3, <2>5 DEF ia
  <1> QED
    BY <1>1, <1>3, <1>4, <1>5, <1>6 DEF Actions

(***************************************************************************)
(* The invariant.                                                          *)
(***************************************************************************)

\* The clock stays in the model's time, so what the commands under way and the
\* replayed games remember of it are instants of events.
ClockInv ==
    /\ now \in 0..MaxNow
    /\ \A w \in Workers : worker[w] # Nil => Parse(worker[w].occurredAt) \in Instants
    /\ \A g \in Games : /\ PauseClock(replayed[g])
                        /\ replayed[g].prevOccurredAt \in Optional(Instants)

LEMMA ClockInit == Init => ClockInv
  BY GameLogAssumption
  DEF Init, ClockInv, PauseClock, NewSharedData, Optional, GameLogAssumption

\* A command's row carries a reading of the clock.
LEMMA ClockCommand ==
    ASSUME TypeOK, ClockInv, NEW w \in Workers, NEW g, NEW a, NEW s, NEW off \in Offsets,
           Command(w, NewRow(g, a, s, off))
    PROVE  ClockInv'
  <1> DEFINE row == NewRow(g, a, s, off)
  <1>1. Parse(row.occurredAt) \in Instants
    BY FormatInstant DEF NewRow, ClockInv
  <1> HIDE DEF row
  <1>2. worker' = [worker EXCEPT ![w] = row] /\ UNCHANGED <<now, replayed>>
    BY DEF Command, row
  <1>3. \A v \in Workers : worker'[v] # Nil => Parse(worker'[v].occurredAt) \in Instants
    BY <1>1, <1>2 DEF TypeOK, ClockInv
  <1> QED
    BY <1>2, <1>3 DEF ClockInv

\* An iteration of the replay remembers the row's instant or, if it fails, none.
LEMMA PrevStep ==
    ASSUME NEW g, NEW d \in SharedDataType, NEW row \in Row
    PROVE  ReplayStep(g, d, ToDomain(row)).prevOccurredAt
                \in {d.prevOccurredAt, Parse(row.occurredAt)}
  <1> DEFINE ia == ToDomain(row)
  <1>1. ia.occurredAt = Parse(row.occurredAt)
    BY ToDomainType
  <1> HIDE DEF ia
  <1> QED
    BY <1>1 DEF ReplayStep, ApplySaved, ApplyPaused, ApplyResumed, SharedDataType, ia

LEMMA ClockInsert ==
    ASSUME TypeInv, ClockInv, NEW w \in Workers, Insert(w)
    PROVE  ClockInv'
  <1> DEFINE row == worker[w]
             g == row.game
             d == ReplayStep(g, replayed[g], ToDomain(row))
  <1>1. /\ row \in Row /\ g \in Games
        /\ Parse(row.occurredAt) \in Instants
    BY DEF TypeInv, TypeOK, Insert, Optional, Row, ClockInv
  <1>2. /\ Replayable(replayed[g]) /\ PauseClock(replayed[g])
        /\ replayed[g] \in SharedDataType
        /\ replayed[g].prevOccurredAt \in Optional(Instants)
    BY <1>1 DEF TypeInv, TypeOK, ClockInv
  <1>3. PauseClock(d)
    BY <1>1, <1>2, PauseClockStep
  <1>4. d.prevOccurredAt \in Optional(Instants)
    BY <1>1, <1>2, PrevStep DEF Optional
  <1>5. /\ replayed' = [replayed EXCEPT ![g] = d]
        /\ worker' = [worker EXCEPT ![w] = Nil]
        /\ now' = now
    BY DEF Insert, Done
  <1> HIDE DEF d, g, row
  <1>6. \A h \in Games : /\ PauseClock(replayed'[h])
                        /\ replayed'[h].prevOccurredAt \in Optional(Instants)
    BY <1>1, <1>3, <1>4, <1>5 DEF TypeInv, TypeOK, ClockInv
  <1>7. \A v \in Workers : worker'[v] # Nil => Parse(worker'[v].occurredAt) \in Instants
    BY <1>5 DEF TypeInv, TypeOK, ClockInv
  <1> QED
    BY <1>5, <1>6, <1>7 DEF ClockInv

LEMMA ClockNext == TypeInv /\ ClockInv /\ [Next]_vars => ClockInv'
  <1> SUFFICES ASSUME TypeInv, ClockInv, [Next]_vars PROVE ClockInv'
    OBVIOUS
  <1>1. ASSUME NEW w \in Workers, NEW g \in Games, NEW duration \in Durations,
               NEW off \in Offsets, SaveGame(w, g, duration, off)
        PROVE  ClockInv'
    BY <1>1, ClockCommand DEF SaveGame, TypeInv
  <1>2. ASSUME NEW w \in Workers, NEW g \in Games, NEW off \in Offsets,
               ResumeGame(w, g, off) \/ PauseGame(w, g, off)
        PROVE  ClockInv'
    BY <1>2, ClockCommand DEF ResumeGame, PauseGame, TypeInv
  <1>3. ASSUME NEW w \in Workers,
               RefuseOutOfOrder(w) \/ RefuseConflict(w) \/ InsertFails(w)
        PROVE  ClockInv'
    BY <1>3 DEF RefuseOutOfOrder, RefuseConflict, InsertFails, Done, ClockInv,
                TypeInv, TypeOK
  <1>4. CASE Tick
    BY <1>4, GameLogAssumption DEF Tick, ClockInv, GameLogAssumption
  <1>5. CASE SetBack
    BY <1>5, GameLogAssumption DEF SetBack, ClockInv, GameLogAssumption
  <1>6. CASE UNCHANGED vars
    BY <1>6 DEF vars, ClockInv
  <1> QED
    BY <1>1, <1>2, <1>3, <1>4, <1>5, <1>6, ClockInsert DEF Next, WorkerStep

(***************************************************************************)
(* Deadlines.                                                              *)
(***************************************************************************)
LEMMA DeadlineNext ==
    ASSUME NoOverflow, TypeInv, ClockInv, [Next]_vars, NEW g \in Games,
           replayed[g].deadlineAt # Nil
    PROVE  replayed'[g].deadlineAt >= replayed[g].deadlineAt
  <1>1. CASE UNCHANGED replayed
    BY <1>1 DEF TypeInv, Replayable, ClockInv, PauseClock
  <1>2. ASSUME NEW w \in Workers, Insert(w)
        PROVE  replayed'[g].deadlineAt >= replayed[g].deadlineAt
    <2> DEFINE row == worker[w]
               d == ReplayStep(row.game, replayed[row.game], ToDomain(row))
    <2>1. row \in Row /\ row.game \in Games
      BY <1>2 DEF TypeInv, TypeOK, Insert, Optional, Row
    <2>2. replayed' = [replayed EXCEPT ![row.game] = d]
      BY <1>2 DEF Insert
    <2>3. Replayable(replayed[g]) /\ PauseClock(replayed[g])
      BY DEF TypeInv, ClockInv
    <2>4. CASE row.game = g
      <3>1. d.deadlineAt >= replayed[g].deadlineAt
        BY <2>1, <2>3, <2>4, DeadlineStep
      <3> HIDE DEF d, row
      <3> QED
        BY <2>2, <2>4, <3>1 DEF TypeInv, TypeOK
    <2>5. CASE row.game # g
      <3> HIDE DEF d, row
      <3>1. replayed'[g] = replayed[g]
        BY <2>2, <2>5 DEF TypeInv, TypeOK
      <3> QED
        BY <2>3, <3>1 DEF Replayable, PauseClock
    <2> QED
      BY <2>4, <2>5
  <1>3. ASSUME NEW w \in Workers, WorkerStep(w), ~ Insert(w)
        PROVE  UNCHANGED replayed
    BY <1>3 DEF WorkerStep, SaveGame, ResumeGame, PauseGame, Command,
                RefuseOutOfOrder, RefuseConflict, InsertFails
  <1>4. Tick \/ SetBack \/ UNCHANGED vars => UNCHANGED replayed
    BY DEF Tick, SetBack, vars
  <1> QED
    BY <1>1, <1>2, <1>3, <1>4 DEF Next

\* As long as no duration overflows, no command of anyone makes a deadline
\* earlier, in whatever zones the writers are and however the clock moves.
THEOREM DeadlinesOnlyGrow ==
    ASSUME NoOverflow
    PROVE  Spec => DeadlineNeverShrinks
  <1>1. TypeInv /\ ClockInv /\ [Next]_vars =>
            [\A g \in Games :
                replayed[g].deadlineAt # Nil =>
                    replayed'[g].deadlineAt >= replayed[g].deadlineAt]_vars
    BY DeadlineNext
  <1> QED
    BY <1>1, TypeInvInit, TypeInvNext, ClockInit, ClockNext, PTL
    DEF Spec, DeadlineNeverShrinks

\* While a game is paused its clock stands still: whether it is valid does not
\* depend on when one asks, if the pause and the save before it were stored
\* with different seconds.
THEOREM PauseFreezes == Spec => []FrozenWhilePaused
  <1>1. TypeInv /\ ClockInv => FrozenWhilePaused
    <2> SUFFICES ASSUME TypeInv, ClockInv, NEW g \in Games,
                        replayed[g].status = "paused",
                        replayed[g].lastPausedAt > replayed[g].lastSavedAt,
                        NEW t \in replayed[g].lastPausedAt..(MaxNow + DurationHalf)
                 PROVE  ComputeValid(replayed[g], t).valid
                            = (replayed[g].lastPausedAt < replayed[g].deadlineAt)
      BY DEF FrozenWhilePaused
    <2> DEFINE d == replayed[g]
    <2>1. /\ d \in SharedDataType
          /\ d.deadlineAt \in Int /\ d.lastPausedAt \in Int /\ d.lastSavedAt \in Int
      BY DEF TypeInv, TypeOK, Replayable, ClockInv, PauseClock
    <2>2. Nil \notin Int
      BY SharedDataAssumption DEF SharedDataAssumption
    <2>3. t \in Int /\ d.lastPausedAt <= t
      BY <2>1, SharedDataAssumption, GameLogAssumption
      DEF SharedDataAssumption, GameLogAssumption
    <2>4. d.status = "paused" /\ d.lastPausedAt > d.lastSavedAt
      OBVIOUS
    <2> HIDE DEF d
    <2>5. PausedInTime(d) <=> d.lastPausedAt < d.deadlineAt
      BY <2>1, <2>2, <2>4 DEF PausedInTime
    <2>6. (t < d.deadlineAt \/ PausedInTime(d)) <=> d.lastPausedAt < d.deadlineAt
      BY <2>1, <2>3, <2>5
    <2>7. ComputeValid(d, t).valid = (t < d.deadlineAt \/ PausedInTime(d))
      BY <2>1, <2>2 DEF ComputeValid, SharedDataType
    <2> QED
      BY <2>6, <2>7 DEF d
  <1> QED
    BY <1>1, TypeInvInit, TypeInvNext, ClockInit, ClockNext, PTL DEF Spec

(***************************************************************************)
(* Refinement.  An insert is one event of the abstract game.               *)
(***************************************************************************)

\* The abstract states of the games the loop did not fail on.
LEMMA AbstractOf ==
    ASSUME NEW d, d.failed = FALSE
    PROVE  /\ d.status = "not_started" => Abstract(d) = Game!NotStarted
           /\ d.status = "playing" =>
                Abstract(d) = Game!Playing(d.deadlineAt, d.prevOccurredAt)
           /\ d.status = "paused" =>
                Abstract(d) = Game!Paused(d.deadlineAt - d.lastPausedAt, d.prevOccurredAt)
  BY DEF Abstract, Game!NotStarted, Game!Playing, Game!Paused

\* What an iteration of the loop does to the abstract state of its game.
Event(a, b, t) ==
    \/ \E x \in Extensions :
        \/ a.status = "not_started" /\ b = Game!Playing(t + x, t)
        \/ a.status = "playing" /\ a.asOf <= t /\ b = Game!Playing(a.deadline + x, t)
    \/ a.status = "playing" /\ a.asOf <= t /\ b = Game!Paused(a.deadline - t, t)
    \/ a.status = "paused" /\ a.asOf <= t /\ b = Game!Playing(t + a.left, t)

LEMMA EventStep ==
    ASSUME NoOverflow, ShortHistory, NEW g, NEW d, NEW row \in Row,
           Replayable(d), PauseClock(d), d.failed = FALSE,
           d.prevOccurredAt \in Optional(Instants),
           Parse(row.occurredAt) \in Instants,
           ~ ReplayError(g, d, ToDomain(row))
    PROVE  Event(Abstract(d), Abstract(ReplayStep(g, d, ToDomain(row))),
                 Parse(row.occurredAt))
  <1> DEFINE ia == ToDomain(row)
             t == Parse(row.occurredAt)
             e == ReplayStep(g, d, ia)
  <1>1. /\ ia.occurredAt = t /\ ia.action \in Actions
        /\ ia.savedBy \in Optional(Durations)
        /\ t \in 0..MaxNow /\ MaxNow \in Nat
    BY ToDomainType, InstantsInRange, GameLogAssumption DEF ToDomain, Row, GameLogAssumption
  <1>2. /\ d \in SharedDataType /\ d.status \in Statuses
        /\ d.status # "not_started" =>
                /\ d.deadlineAt \in Int
                /\ d.prevOccurredAt \in 0..MaxNow
                /\ d.prevOccurredAt <= t
    <2>1. d \in SharedDataType /\ d.status \in Statuses
      BY DEF Replayable, SharedDataType
    <2>2. ASSUME d.status # "not_started"
          PROVE  d.deadlineAt \in Int /\ d.prevOccurredAt \in 0..MaxNow
      BY <2>2, InstantsInRange, SharedDataAssumption
      DEF Replayable, PauseClock, Optional, SharedDataAssumption
    <2>3. ASSUME d.status # "not_started" PROVE d.prevOccurredAt <= t
      <3>1. d.prevOccurredAt # Nil
        BY <2>3, SharedDataAssumption DEF PauseClock, SharedDataAssumption
      <3>2. ~ (t < d.prevOccurredAt)
        BY <1>1, <3>1 DEF ReplayError
      <3> QED
        BY <1>1, <2>2, <2>3, <3>2
    <2> QED
      BY <2>1, <2>2, <2>3
  <1>3. ~ ReplayError(g, d, ia)
    OBVIOUS
  <1> HIDE DEF ia, t
  <1>4. CASE ia.action = "saved"
    <2> DEFINE x == ia.savedBy * TicksPerSecond
               base == IF d.status = "not_started" THEN t ELSE d.deadlineAt
               sum == base + x
    <2>1. ia.savedBy \in Durations /\ ia.savedBy >= 1 /\ d.status # "paused"
      <3>1. ia.savedBy # Nil /\ ~ (ia.savedBy <= 0) /\ d.status # "paused"
        BY <1>3, <1>4 DEF ReplayError
      <3>2. ia.savedBy \in Durations /\ ia.savedBy \in Int
        BY <1>1, <3>1, GameLogAssumption DEF Optional, GameLogAssumption
      <3> QED
        BY <3>1, <3>2
    <2>2. x \in Extensions
      BY <2>1 DEF Extensions
    <2>3. Extension(ia.savedBy) = x
      BY <2>1, ExtensionExact
    <2>4. e = [d EXCEPT !.status = "playing", !.deadlineAt = sum,
                        !.lastSavedAt = t, !.prevOccurredAt = t]
      BY <1>1, <1>3, <1>4, <2>3 DEF ReplayStep, ApplySaved
    <2> HIDE DEF x, sum, e
    <2>5. e.failed = FALSE /\ e.status = "playing" /\ e.deadlineAt = sum
          /\ e.prevOccurredAt = t
      BY <1>2, <2>4 DEF SharedDataType
    <2>6. Abstract(e) = Game!Playing(sum, t)
      BY <2>5, AbstractOf
    <2>7. CASE d.status = "not_started"
      <3>1. Abstract(d).status = "not_started"
        <4>1. Abstract(d) = Game!NotStarted
          BY <2>7, AbstractOf
        <4> QED
          BY <4>1 DEF Game!NotStarted
      <3>2. sum = t + x
        BY <2>7 DEF sum
      <3> QED
        BY <2>2, <2>6, <3>1, <3>2 DEF Event, e, t, ia
    <2>8. CASE d.status = "playing"
      <3>1. Abstract(d) = Game!Playing(d.deadlineAt, d.prevOccurredAt)
        BY <2>8, AbstractOf
      <3>2. Abstract(d).status = "playing" /\ Abstract(d).asOf <= t
            /\ Abstract(d).deadline = d.deadlineAt
        BY <1>2, <2>8, <3>1 DEF Game!Playing
      <3>3. sum = Abstract(d).deadline + x
        BY <2>8, <3>2 DEF sum
      <3> QED
        BY <2>2, <2>6, <3>2, <3>3 DEF Event, e, t, ia
    <2> QED
      BY <1>2, <2>1, <2>7, <2>8 DEF Statuses
  <1>5. CASE ia.action = "paused"
    <2>1. d.status = "playing"
      BY <1>3, <1>5 DEF ReplayError
    <2>2. e = [d EXCEPT !.status = "paused", !.lastPausedAt = t, !.prevOccurredAt = t]
      BY <1>1, <1>3, <1>5 DEF ReplayStep, ApplyPaused
    <2> HIDE DEF e
    <2>3. e.failed = FALSE /\ e.status = "paused" /\ e.deadlineAt = d.deadlineAt
          /\ e.lastPausedAt = t /\ e.prevOccurredAt = t
      BY <1>2, <2>2 DEF SharedDataType
    <2>4. Abstract(e) = Game!Paused(d.deadlineAt - t, t)
      BY <2>3, AbstractOf
    <2>5. Abstract(d) = Game!Playing(d.deadlineAt, d.prevOccurredAt)
      BY <2>1, AbstractOf
    <2>6. Abstract(d).status = "playing" /\ Abstract(d).asOf <= t
          /\ Abstract(d).deadline = d.deadlineAt
      BY <1>2, <2>1, <2>5 DEF Game!Playing
    <2> QED
      BY <2>4, <2>6 DEF Event, e, t, ia
  <1>6. CASE ia.action = "resumed"
    <2>1. d.status = "paused"
      BY <1>3, <1>6 DEF ReplayError
    <2>2. d.lastPausedAt \in 0..MaxNow /\ d.lastPausedAt <= t
      BY <1>2, <2>1 DEF PauseClock
    <2>3. Sub(t, d.lastPausedAt) = t - d.lastPausedAt
      BY <1>1, <2>2, SharedDataAssumption DEF Sub, ShortHistory, SharedDataAssumption
    <2> DEFINE left == d.deadlineAt - d.lastPausedAt
               sum == t + left
    <2>4. d.deadlineAt + Sub(t, d.lastPausedAt) = sum
      BY <1>1, <1>2, <2>1, <2>2, <2>3
    <2>5. e = [d EXCEPT !.status = "playing", !.deadlineAt = sum,
                        !.lastPausedAt = Nil, !.prevOccurredAt = t]
      BY <1>1, <1>3, <1>6, <2>4 DEF ReplayStep, ApplyResumed
    <2> HIDE DEF e, sum
    <2>6. e.failed = FALSE /\ e.status = "playing" /\ e.deadlineAt = sum
          /\ e.prevOccurredAt = t
      BY <1>2, <2>5 DEF SharedDataType
    <2>7. Abstract(e) = Game!Playing(sum, t)
      BY <2>6, AbstractOf
    <2>8. Abstract(d) = Game!Paused(left, d.prevOccurredAt)
      BY <2>1, AbstractOf
    <2>9. Abstract(d).status = "paused" /\ Abstract(d).asOf <= t
          /\ Abstract(d).left = left
      BY <1>2, <2>1, <2>8 DEF Game!Paused
    <2>10. sum = t + Abstract(d).left
      BY <2>9 DEF sum
    <2> QED
      BY <2>7, <2>9, <2>10 DEF Event, e, t, ia
  <1> QED
    BY <1>1, <1>4, <1>5, <1>6 DEF Actions

\* No reachable game is one the loop failed on.
LEMMA NoneFailed ==
    ASSUME LogInv, NEW g \in Games
    PROVE  replayed[g].failed = FALSE
  BY DEF LogInv, LoopInv

AbstractGame == [h \in Games |-> Abstract(replayed[h])]

\* An event of one game is a step of the abstract game.
LEMMA EventIsStep ==
    ASSUME NEW g \in Games, NEW t \in Instants,
           Event(AbstractGame[g], AbstractGame'[g], t),
           AbstractGame' = [AbstractGame EXCEPT ![g] = AbstractGame'[g]]
    PROVE  Game!Next
  <1> DEFINE a == AbstractGame[g]
             b == AbstractGame'[g]
  <1>1. ASSUME NEW x \in Extensions, a.status = "not_started",
               b = Game!Playing(t + x, t)
        PROVE  Game!Start(g, t, x)
    BY <1>1 DEF Game!Start, AbstractGame
  <1>2. ASSUME NEW x \in Extensions, a.status = "playing", a.asOf <= t,
               b = Game!Playing(a.deadline + x, t)
        PROVE  Game!Extend(g, t, x)
    BY <1>2 DEF Game!Extend, AbstractGame
  <1>3. ASSUME a.status = "playing", a.asOf <= t, b = Game!Paused(a.deadline - t, t)
        PROVE  Game!Pause(g, t)
    BY <1>3 DEF Game!Pause, AbstractGame
  <1>4. ASSUME a.status = "paused", a.asOf <= t, b = Game!Playing(t + a.left, t)
        PROVE  Game!Resume(g, t)
    BY <1>4 DEF Game!Resume, AbstractGame
  <1>5. Event(a, b, t)
    OBVIOUS
  <1> HIDE DEF a, b
  <1> QED
    BY <1>1, <1>2, <1>3, <1>4, <1>5 DEF Event, Game!Next

LEMMA InsertRefines ==
    ASSUME NoOverflow, ShortHistory, TypeInv, ClockInv, LogInv, LogInv',
           NEW w \in Workers, Insert(w)
    PROVE  Game!Next
  <1> DEFINE row == worker[w]
             g == row.game
             d == replayed[g]
             e == ReplayStep(g, d, ToDomain(row))
             t == Parse(row.occurredAt)
  <1>1. row \in Row /\ g \in Games /\ t \in Instants
    BY DEF TypeInv, TypeOK, Insert, Optional, Row, ClockInv
  <1>2. replayed' = [replayed EXCEPT ![g] = e]
    BY DEF Insert
  <1>3. /\ Replayable(d) /\ PauseClock(d) /\ d \in SharedDataType
        /\ d.prevOccurredAt \in Optional(Instants)
        /\ d.failed = FALSE
    BY <1>1, NoneFailed DEF TypeInv, ClockInv, Replayable
  <1>4. e.failed = FALSE
    <2>1. replayed'[g].failed = FALSE
      BY <1>1 DEF LogInv, LoopInv
    <2> HIDE DEF e, d, g, row
    <2> QED
      BY <1>1, <1>2, <2>1 DEF TypeInv, TypeOK
  <1>5. ~ ReplayError(g, d, ToDomain(row))
    BY <1>3, <1>4 DEF ReplayStep, SharedDataType
  <1>6. Event(Abstract(d), Abstract(e), t)
    BY <1>1, <1>3, <1>5, EventStep
  <1>7. d = replayed[g] /\ replayed \in [Games -> SharedDataType]
    BY DEF TypeInv, TypeOK
  <1> HIDE DEF e, d, g, row, t
  <1>8. AbstractGame[g] = Abstract(d) /\ AbstractGame'[g] = Abstract(e)
    BY <1>1, <1>2, <1>7 DEF AbstractGame
  <1>9. AbstractGame' = [AbstractGame EXCEPT ![g] = AbstractGame'[g]]
    BY <1>1, <1>2, <1>7, <1>8 DEF AbstractGame
  <1> QED
    BY <1>1, <1>6, <1>8, <1>9, EventIsStep

LEMMA RefinementInit == Init => Game!Init
  <1>1. Abstract(NewSharedData) = Game!NotStarted
    BY AbstractOf DEF NewSharedData
  <1> QED
    BY <1>1 DEF Init, Game!Init

LEMMA RefinementNext ==
    ASSUME NoOverflow, ShortHistory
    PROVE  TypeInv /\ ClockInv /\ LogInv /\ LogInv' /\ [Next]_vars => [Game!Next]_(Game!vars)
  <1> SUFFICES ASSUME TypeInv, ClockInv, LogInv, LogInv', [Next]_vars
               PROVE  [Game!Next]_(Game!vars)
    OBVIOUS
  <1>1. CASE UNCHANGED replayed
    BY <1>1 DEF Game!vars
  <1>2. ASSUME NEW w \in Workers, Insert(w) PROVE Game!Next
    BY <1>2, InsertRefines
  <1>3. ASSUME NEW w \in Workers, WorkerStep(w), ~ Insert(w)
        PROVE  UNCHANGED replayed
    BY <1>3 DEF WorkerStep, SaveGame, ResumeGame, PauseGame, Command,
                RefuseOutOfOrder, RefuseConflict, InsertFails
  <1>4. Tick \/ SetBack \/ UNCHANGED vars => UNCHANGED replayed
    BY DEF Tick, SetBack, vars
  <1> QED
    BY <1>1, <1>2, <1>3, <1>4 DEF Next

\* Commands, trigger and replay implement the shared game: when all writers
\* share a zone and no duration overflows, every insert is one event of one
\* game, in time order, and nothing else moves a game.
THEOREM ImplementsSharedGame ==
    ASSUME OneOffset, NoOverflow, ShortHistory
    PROVE  Spec => RefinesSharedGame
  <1> QED
    BY RefinementInit, RefinementNext, TypeInvInit, TypeInvNext, ClockInit, ClockNext,
       LogInvInit, LogInvNext, PTL
    DEF Spec, RefinesSharedGame, Game!Spec
=============================================================================
