------------------------- MODULE ReplayCheckProofs -------------------------
(***************************************************************************)
(* Proofs about ReplayCheck, for lists of any length: BuildSharedData      *)
(* fails exactly on the lists that are no history, and computes of a       *)
(* history the deadline that its saves and pauses add up to, as long as no *)
(* duration overflows.                                                     *)
(***************************************************************************)
EXTENDS ReplayCheck, SharedDataProofs

(***************************************************************************)
(* The sum, unfolded from its last term.                                   *)
(***************************************************************************)

IsSum(amount, n, f) == f = [k \in 0..n |-> IF k = 0 THEN 0 ELSE f[k-1] + amount[k]]

LEMMA SumExists ==
    ASSUME NEW amount
    PROVE  \A n \in Nat : \E f : IsSum(amount, n, f)
<1> DEFINE S == {n \in Nat : \E f : IsSum(amount, n, f)}
<1>1. 0 \in S
  <2>1. IsSum(amount, 0, [k \in 0..0 |-> 0])
    BY DEF IsSum
  <2> QED
    BY <2>1
<1>2. ASSUME NEW n \in Nat, n \in S PROVE n + 1 \in S
  <2>1. PICK f : IsSum(amount, n, f)
    BY <1>2
  <2> DEFINE h == [k \in 0..(n + 1) |-> IF k <= n THEN f[k] ELSE f[n] + amount[n + 1]]
  <2>2. \A k \in 0..n : f[k] = IF k = 0 THEN 0 ELSE f[k-1] + amount[k]
    BY <2>1 DEF IsSum
  <2>3. \A k \in 0..(n + 1) : h[k] = IF k = 0 THEN 0 ELSE h[k-1] + amount[k]
    BY <2>2
  <2>4. h = [k \in 0..(n + 1) |-> h[k]]
    OBVIOUS
  <2> HIDE DEF h
  <2>5. IsSum(amount, n + 1, h)
    BY <2>3, <2>4 DEF IsSum
  <2> QED
    BY <2>5
<1> HIDE DEF S
<1>3. \A n \in Nat : n \in S
  BY <1>1, <1>2, Induction
<1> QED
  BY <1>3 DEF S

LEMMA SumUnique ==
    ASSUME NEW a, NEW b, NEW m \in Nat, NEW n \in Nat, m <= n,
           \A k \in 1..m : a[k] = b[k],
           NEW f, IsSum(a, m, f), NEW h, IsSum(b, n, h)
    PROVE  \A k \in 0..m : f[k] = h[k]
<1> DEFINE S == {k \in Nat : k <= m => f[k] = h[k]}
<1>1. /\ \A k \in 0..m : f[k] = IF k = 0 THEN 0 ELSE f[k-1] + a[k]
      /\ \A k \in 0..n : h[k] = IF k = 0 THEN 0 ELSE h[k-1] + b[k]
  BY DEF IsSum
<1>2. 0 \in S
  BY <1>1
<1>3. ASSUME NEW k \in Nat, k \in S PROVE k + 1 \in S
  <2> SUFFICES ASSUME k + 1 <= m PROVE f[k + 1] = h[k + 1]
    OBVIOUS
  <2>1. f[k] = h[k] /\ a[k + 1] = b[k + 1]
    BY <1>3
  <2>2. f[k + 1] = f[k] + a[k + 1] /\ h[k + 1] = h[k] + b[k + 1]
    BY <1>1
  <2> QED
    BY <2>1, <2>2
<1> HIDE DEF S
<1>4. \A k \in Nat : k \in S
  BY <1>2, <1>3, Induction
<1> QED
  BY <1>4 DEF S

LEMMA TotalIsSum ==
    ASSUME NEW amount, NEW n \in Nat, NEW f, IsSum(amount, n, f)
    PROVE  Total(amount, n) = f[n]
<1> DEFINE sum == CHOOSE h : IsSum(amount, n, h)
<1>1. IsSum(amount, n, sum)
  BY SumExists
<1>2. Total(amount, n) = sum[n]
  BY DEF Total, IsSum
<1> HIDE DEF sum
<1>3. PICK h : IsSum(amount, n, h) /\ Total(amount, n) = h[n]
  BY <1>1, <1>2
<1>4. \A k \in 0..n : f[k] = h[k]
  <2>1. PICK b, m : b = amount /\ m = n
    OBVIOUS
  <2>2. m \in Nat /\ n <= m /\ (\A k \in 1..n : amount[k] = b[k]) /\ IsSum(b, m, h)
    BY <1>3, <2>1
  <2> QED
    BY <2>2, SumUnique
<1> QED
  BY <1>3, <1>4

LEMMA TotalNothing == \A amount : Total(amount, 0) = 0
<1> SUFFICES ASSUME NEW amount PROVE Total(amount, 0) = 0
  OBVIOUS
<1>1. PICK f : IsSum(amount, 0, f)
  BY SumExists
<1>2. Total(amount, 0) = f[0]
  BY <1>1, TotalIsSum
<1> QED
  BY <1>1, <1>2 DEF IsSum

LEMMA TotalUnfolds ==
    ASSUME NEW a, NEW b, NEW n \in Nat, \A k \in 1..n : b[k] = a[k]
    PROVE  Total(b, n + 1) = Total(a, n) + b[n + 1]
<1>1. PICK f : IsSum(a, n, f)
  BY SumExists
<1>2. PICK m \in Nat : m = n + 1
  OBVIOUS
<1>3. PICK h : IsSum(b, m, h)
  BY SumExists
<1>4. Total(a, n) = f[n] /\ Total(b, m) = h[m]
  BY <1>1, <1>3, TotalIsSum
<1>5. f[n] = h[n]
  <2>1. n <= m /\ \A k \in 1..n : a[k] = b[k]
    BY <1>2
  <2>2. \A k \in 0..n : f[k] = h[k]
    BY <1>1, <1>3, <2>1, SumUnique
  <2> QED
    BY <2>2
<1>6. h[m] = h[n] + b[m]
  BY <1>2, <1>3 DEF IsSum
<1> QED
  BY <1>2, <1>4, <1>5, <1>6

(***************************************************************************)
(* The hypothesis: every saved_by fits time.Duration when it is turned     *)
(* into ticks (9 * 10^9 seconds, 292 years), and so does the time between  *)
(* any two occurred_at.                                                    *)
(***************************************************************************)
NoOverflow ==
    /\ \A s \in SavedBys : s * TicksPerSecond < DurationHalf
    /\ \A t, u \in Times : t - u < DurationHalf

LEMMA ExactExtension ==
    ASSUME NoOverflow, NEW s \in SavedBys, s > 0
    PROVE  Extension(s) = s * TicksPerSecond /\ s * TicksPerSecond \in Nat
<1>1. s \in Nat /\ TicksPerSecond \in Nat
  BY ReplayCheckAssumption, SharedDataAssumption
  DEF ReplayCheckAssumption, SharedDataAssumption
<1>2. s * TicksPerSecond \in Nat
  BY <1>1
<1>3. DurationHalf \in Nat /\ s * TicksPerSecond < DurationHalf
  BY SharedDataAssumption DEF SharedDataAssumption, NoOverflow
<1>4. PICK n : n = s * TicksPerSecond
  OBVIOUS
<1>5. n \in 0..(DurationHalf - 1)
  BY <1>2, <1>3, <1>4
<1>6. Wrap(n) = n
  BY <1>5, WrapInRange
<1> QED
  BY <1>2, <1>4, <1>6 DEF Extension

LEMMA ExactSub ==
    ASSUME NoOverflow, NEW t \in Times, NEW u \in Times, u <= t
    PROVE  Sub(t, u) = t - u
<1>1. t \in Int /\ u \in Int /\ DurationHalf \in Nat \ {0}
  BY ReplayCheckAssumption, SharedDataAssumption
  DEF ReplayCheckAssumption, SharedDataAssumption
<1>2. t - u < DurationHalf
  BY DEF NoOverflow
<1> QED
  BY <1>1, <1>2 DEF Sub

(***************************************************************************)
(* The invariant.  Of a history the replay holds the status its last       *)
(* interaction gives, the times of the last interaction, of the last save  *)
(* and of a pause that lasts, and the deadline of the reference.           *)
(***************************************************************************)
StatusAfter(action) == IF action = "paused" THEN "paused" ELSE "playing"

\* What is known of the data d after the list's n-th interaction.
Holds(d, n) ==
    /\ d.failed = FALSE
    /\ d.status = StatusAfter(ias[n].action)
    /\ d.prevOccurredAt = ias[n].occurredAt
    /\ Bought \in Int /\ TimePaused \in Int
    /\ d.deadlineAt = ias[1].occurredAt + Bought * TicksPerSecond + TimePaused
    /\ d.lastSavedAt \in Int
    /\ d.lastSavedAt <= ias[n].occurredAt
    /\ d.status = "paused" => d.lastPausedAt = ias[n].occurredAt

RefInv ==
    LET d == Replay(Game, ias)
    IN /\ ias \in Seq(Interactions)
       /\ Replayable(d)
       /\ \/ d.failed = TRUE /\ ~ Legal
          \/ d = NewSharedData /\ ias = << >>
          \/ Holds(d, Len(ias)) /\ Legal /\ ias # << >>

(***************************************************************************)
(* One interaction more.                                                   *)
(***************************************************************************)

LEMMA Grown ==
    ASSUME ias \in Seq(Interactions), NEW ia \in Interactions, ias' = Append(ias, ia),
           NEW n, n = Len(ias)
    PROVE  /\ n \in Nat
           /\ ias' \in Seq(Interactions) /\ Len(ias') = n + 1 /\ ias' # << >>
           /\ ias'[n + 1] = ia
           /\ \A i \in 1..n : ias'[i] = ias[i] /\ ias[i] \in Interactions
  OBVIOUS

LEMMA InteractionTyped ==
    ASSUME NEW ia \in Interactions
    PROVE  /\ Typed(ia)
           /\ ia.occurredAt \in Times /\ ia.occurredAt \in Int
           /\ ia.savedBy # Nil => ia.savedBy \in SavedBys /\ ia.savedBy \in Int
  BY ReplayCheckAssumption DEF Interactions, Typed, Optional, ReplayCheckAssumption

\* A list is a history if all but its last interaction are one, and that one
\* may follow.
LEMMA LegalGrows ==
    ASSUME ias \in Seq(Interactions), NEW ia \in Interactions, ias' = Append(ias, ia),
           NEW n, n = Len(ias)
    PROVE  Legal' <=> Legal /\ LegalAt(n + 1)'
<1>1. /\ n \in Nat /\ Len(ias') = n + 1
      /\ \A i \in 1..n : ias'[i] = ias[i]
  BY Grown
<1>2. ASSUME NEW i \in 1..n PROVE LegalAt(i)' <=> LegalAt(i)
  <2>1. i > 1 => i - 1 \in 1..n
    BY <1>1, <1>2
  <2> QED
    BY <1>1, <1>2, <2>1 DEF LegalAt, Is
<1>3. Legal' <=> \A i \in 1..(n + 1) : LegalAt(i)'
  BY <1>1 DEF Legal
<1>4. \A i \in 1..(n + 1) : i \in 1..n \/ i = n + 1
  BY <1>1
<1>5. 1..n \subseteq 1..(n + 1) /\ n + 1 \in 1..(n + 1)
  BY <1>1
<1>6. Legal <=> \A i \in 1..n : LegalAt(i)
  BY DEF Legal
<1> QED
  BY <1>2, <1>3, <1>4, <1>5, <1>6

\* The iteration fails exactly if the interaction may not follow.
LEMMA FailsIfIllegal ==
    ASSUME RefInv, Replay(Game, ias).failed = FALSE,
           NEW ia \in Interactions, ias' = Append(ias, ia), NEW n, n = Len(ias)
    PROVE  ReplayError(Game, Replay(Game, ias), ia) <=> ~ LegalAt(n + 1)'
<1>1. PICK d : d = Replay(Game, ias)
  OBVIOUS
<1>2. /\ n \in Nat /\ ias'[n + 1] = ia
      /\ n # 0 => n \in 1..n /\ ias'[n] = ias[n] /\ ias[n] \in Interactions
  BY <1>1, Grown DEF RefInv
<1>3. /\ ia.occurredAt \in Int
      /\ ia.savedBy # Nil => ia.savedBy \in Int
  BY InteractionTyped
<1>4. LegalAt(n + 1)' <=>
        /\ ia.game = Game
        /\ n > 0 => ias[n].occurredAt <= ia.occurredAt
        /\ \/ ia.action = "saved" /\ ia.savedBy # Nil /\ ia.savedBy > 0
              /\ (n > 0 => ias[n].action # "paused")
           \/ ia.action = "paused" /\ n > 0 /\ ias[n].action # "paused"
           \/ ia.action = "resumed" /\ n > 0 /\ ias[n].action = "paused"
  BY <1>1, <1>2 DEF LegalAt, Is
<1>5. CASE d = NewSharedData /\ ias = << >>
  BY <1>1, <1>3, <1>4, <1>5 DEF ReplayError, NewSharedData, Actions
<1>6. CASE Holds(d, n) /\ ias # << >>
  <2>1. n > 0
    BY <1>1, <1>2, <1>6 DEF RefInv
  <2>2. /\ d.status = StatusAfter(ias[n].action)
        /\ d.prevOccurredAt = ias[n].occurredAt
    BY <1>6 DEF Holds
  <2>3. ias[n].occurredAt \in Int /\ ias[n].occurredAt # Nil
    BY <1>2, <2>1, InteractionTyped, SharedDataAssumption DEF SharedDataAssumption
  <2> QED
    BY <1>1, <1>3, <1>4, <2>1, <2>2, <2>3 DEF ReplayError, StatusAfter, Actions
<1> QED
  BY <1>1, <1>5, <1>6 DEF RefInv

\* What the reference's sums gain when a history grows.
LEMMA SumsGrow ==
    ASSUME ias \in Seq(Interactions), Legal,
           NEW ia \in Interactions, ias' = Append(ias, ia), NEW n, n = Len(ias)
    PROVE  /\ Bought' = Bought + (IF ia.action = "saved" THEN ia.savedBy ELSE 0)
           /\ TimePaused' = TimePaused +
                (IF ia.action = "resumed" THEN ia.occurredAt - ias'[n].occurredAt ELSE 0)
<1>1. /\ n \in Nat /\ Len(ias') = n + 1 /\ ias'[n + 1] = ia
      /\ \A i \in 1..n : ias'[i] = ias[i]
  BY Grown
<1>2. 1..n \subseteq 1..(n + 1) /\ n + 1 \in 1..(n + 1) /\ (n + 1) - 1 = n
  BY <1>1
<1>3. Bought' = Bought + (IF ia.action = "saved" THEN ia.savedBy ELSE 0)
  <2>1. PICK a, b : a = Purchase /\ b = Purchase'
    OBVIOUS
  <2>2. \A k \in 1..n : b[k] = a[k]
    BY <1>1, <1>2, <2>1 DEF Purchase, Is
  <2>3. b[n + 1] = IF ia.action = "saved" THEN ia.savedBy ELSE 0
    BY <1>1, <1>2, <2>1 DEF Purchase, Is
  <2>4. Total(b, n + 1) = Total(a, n) + b[n + 1]
    BY <1>1, <2>2, TotalUnfolds
  <2> QED
    BY <1>1, <2>1, <2>3, <2>4 DEF Bought
<1>4. TimePaused' = TimePaused +
        (IF ia.action = "resumed" THEN ia.occurredAt - ias'[n].occurredAt ELSE 0)
  <2>1. PICK a, b : a = Break /\ b = Break'
    OBVIOUS
  <2>2. \A k \in 1..n : b[k] = a[k]
    <3> SUFFICES ASSUME NEW k \in 1..n PROVE b[k] = a[k]
      OBVIOUS
    <3>1. CASE k = 1
      <4>1. ias'[k].action # "resumed" /\ ias[k].action # "resumed"
        BY <1>1, <3>1 DEF Legal, LegalAt, Is
      <4> QED
        BY <1>1, <1>2, <2>1, <4>1 DEF Break, Is
    <3>2. CASE k - 1 \in 1..n
      BY <1>1, <1>2, <2>1, <3>2 DEF Break, Is
    <3> QED
      BY <1>1, <3>1, <3>2
  <2>3. b[n + 1] = IF ia.action = "resumed" THEN ia.occurredAt - ias'[n].occurredAt ELSE 0
    BY <1>1, <1>2, <2>1 DEF Break, Is
  <2>4. Total(b, n + 1) = Total(a, n) + b[n + 1]
    BY <1>1, <2>2, TotalUnfolds
  <2> QED
    BY <1>1, <2>1, <2>3, <2>4 DEF TimePaused
<1> QED
  BY <1>3, <1>4

LEMMA Distributes == \A a, b, c \in Int : (a + b) * c = a * c + b * c
  OBVIOUS

\* The replay of the longer list is one iteration more.
LEMMA ReplayGrows ==
    ASSUME ias \in Seq(Interactions), NEW ia \in Interactions, ias' = Append(ias, ia),
           Replay(Game, ias).failed = FALSE
    PROVE  Replay(Game, ias)' = ReplayStep(Game, Replay(Game, ias), ia)
<1>1. PICK n, s, t : n = Len(ias) /\ s = ias /\ t = ias'
  OBVIOUS
<1>2. /\ n \in Nat /\ Len(s) = n /\ Len(t) = n + 1 /\ t[n + 1] = ia
      /\ \A i \in 1..n : t[i] = s[i]
  BY <1>1, Grown
<1>3. Replay(Game, t) = Iteration(Game, t, Replay(Game, s), n + 1)
  BY <1>2, ReplayUnfolds
<1>4. Iteration(Game, t, Replay(Game, s), n + 1) = ReplayStep(Game, Replay(Game, s), ia)
  BY <1>1, <1>2 DEF Iteration
<1>5. Replay(Game, ias)' = Replay(Game, t)
  BY <1>1
<1> QED
  BY <1>1, <1>3, <1>4, <1>5

\* An iteration that does not fail keeps what is known of the data.
LEMMA HoldsGrows ==
    ASSUME NoOverflow, RefInv, NEW d, d = Replay(Game, ias), d.failed = FALSE,
           NEW ia \in Interactions, ias' = Append(ias, ia), NEW n, n = Len(ias),
           ~ ReplayError(Game, d, ia), Legal
    PROVE  Holds(ReplayStep(Game, d, ia), n + 1)'
<1>1. /\ n \in Nat /\ ias'[n + 1] = ia /\ n + 1 \in Nat
      /\ n # 0 => /\ n \in 1..n /\ 1 \in 1..n
                  /\ ias'[n] = ias[n] /\ ias'[1] = ias[1]
                  /\ ias[n] \in Interactions /\ ias[1] \in Interactions
  BY Grown DEF RefInv
<1>2. /\ ia.occurredAt \in Int /\ ia.occurredAt \in Times
      /\ ia.savedBy # Nil => ia.savedBy \in SavedBys /\ ia.savedBy \in Int
      /\ Nil \notin Int
  BY InteractionTyped, SharedDataAssumption DEF SharedDataAssumption
<1>3. d \in SharedDataType
  BY DEF RefInv, Replayable
<1>4. /\ Bought' = Bought + (IF ia.action = "saved" THEN ia.savedBy ELSE 0)
      /\ TimePaused' = TimePaused +
           (IF ia.action = "resumed" THEN ia.occurredAt - ias'[n].occurredAt ELSE 0)
  BY SumsGrow DEF RefInv
<1>5. TicksPerSecond \in Int
  BY SharedDataAssumption DEF SharedDataAssumption
<1>6. ASSUME NEW e, e.failed = FALSE, e.status = StatusAfter(ia.action),
             e.prevOccurredAt = ia.occurredAt,
             Bought' \in Int, TimePaused' \in Int,
             e.deadlineAt = ias'[1].occurredAt + Bought' * TicksPerSecond + TimePaused',
             e.lastSavedAt \in Int, e.lastSavedAt <= ia.occurredAt,
             e.status = "paused" => e.lastPausedAt = ia.occurredAt
      PROVE  Holds(e, n + 1)'
  BY <1>1, <1>6 DEF Holds
<1>7. CASE n = 0
  <2>1. d = NewSharedData /\ ia.action = "saved"
    <3>1. ias = << >>
      <4>1. ias \in Seq(Interactions) /\ Len(ias) = 0
        BY <1>7 DEF RefInv
      <4> QED
        BY <4>1
    <3>2. d = NewSharedData
      BY <3>1 DEF RefInv
    <3> QED
      BY <3>2 DEF ReplayError, NewSharedData, Actions
  <2>2. Bought = 0 /\ TimePaused = 0
    BY <1>7, TotalNothing DEF Bought, TimePaused
  <2>3. ia.savedBy \in SavedBys /\ ia.savedBy \in Int /\ ia.savedBy > 0
    BY <1>2, <2>1 DEF ReplayError
  <2>4. Extension(ia.savedBy) = ia.savedBy * TicksPerSecond
        /\ ia.savedBy * TicksPerSecond \in Int
    BY <2>3, ExactExtension
  <2>5. Bought' = ia.savedBy /\ TimePaused' = 0
    BY <1>4, <2>1, <2>2, <2>3
  <2>6. ias'[1] = ia
    BY <1>1, <1>7
  <2> DEFINE e == ReplayStep(Game, d, ia)
  <2>7. e = [NewSharedData EXCEPT !.status = "playing",
                                  !.deadlineAt = ia.occurredAt + Extension(ia.savedBy),
                                  !.lastSavedAt = ia.occurredAt,
                                  !.prevOccurredAt = ia.occurredAt]
    BY <2>1 DEF ReplayStep, ApplySaved, NewSharedData
  <2> HIDE DEF e
  <2>8. /\ e.failed = FALSE /\ e.status = "playing"
        /\ e.prevOccurredAt = ia.occurredAt /\ e.lastSavedAt = ia.occurredAt
        /\ e.deadlineAt = ia.occurredAt + Extension(ia.savedBy)
    BY <2>7 DEF NewSharedData
  <2>9. e.deadlineAt = ias'[1].occurredAt + Bought' * TicksPerSecond + TimePaused'
    BY <1>2, <2>4, <2>5, <2>6, <2>8
  <2>10. /\ Bought' \in Int /\ TimePaused' \in Int
         /\ e.lastSavedAt \in Int /\ e.lastSavedAt <= ia.occurredAt
         /\ e.status = StatusAfter(ia.action) /\ e.status # "paused"
    BY <1>2, <2>1, <2>3, <2>5, <2>8 DEF StatusAfter
  <2>11. Holds(e, n + 1)'
    BY <1>6, <2>8, <2>9, <2>10
  <2> QED
    BY <2>11 DEF e
<1>8. CASE n # 0
  <2>1. Holds(d, n)
    BY <1>8 DEF RefInv
  <2>2. PICK D, first, B, P, t :
            /\ D = d.deadlineAt /\ first = ias[1].occurredAt /\ t = ias[n].occurredAt
            /\ B = Bought /\ P = TimePaused
    OBVIOUS
  <2>3. /\ B \in Int /\ P \in Int /\ first \in Int /\ t \in Int /\ t \in Times
        /\ D = first + B * TicksPerSecond + P
        /\ ias'[1].occurredAt = first /\ ias'[n].occurredAt = t
        /\ d.status = StatusAfter(ias[n].action)
        /\ d.lastSavedAt \in Int /\ d.lastSavedAt <= t
        /\ d.status = "paused" => d.lastPausedAt = t
        /\ d.prevOccurredAt = t
    BY <1>1, <1>8, <2>1, <2>2, InteractionTyped DEF Holds
  <2>4. t <= ia.occurredAt
    BY <1>2, <2>3 DEF ReplayError
  <2>5. B * TicksPerSecond \in Int /\ D \in Int
    BY <1>5, <2>3
  <2> DEFINE e == ReplayStep(Game, d, ia)
  <2>6. CASE ia.action = "saved"
    <3>1. /\ ia.savedBy \in SavedBys /\ ia.savedBy \in Int /\ ia.savedBy > 0
          /\ d.status # "not_started"
      BY <1>2, <2>3, <2>6 DEF ReplayError, StatusAfter
    <3>2. PICK x : x = ia.savedBy * TicksPerSecond
      OBVIOUS
    <3>3. Extension(ia.savedBy) = x /\ x \in Int
      BY <3>1, <3>2, ExactExtension
    <3>4. e = [d EXCEPT !.status = "playing", !.deadlineAt = D + x,
                        !.lastSavedAt = ia.occurredAt, !.prevOccurredAt = ia.occurredAt]
      BY <2>2, <2>6, <3>1, <3>3 DEF ReplayStep, ApplySaved
    <3> HIDE DEF e
    <3>5. /\ e.failed = FALSE /\ e.status = "playing" /\ e.deadlineAt = D + x
          /\ e.lastSavedAt = ia.occurredAt /\ e.prevOccurredAt = ia.occurredAt
      BY <1>3, <3>4 DEF SharedDataType
    <3>6. Bought' = B + ia.savedBy /\ TimePaused' = P
      BY <1>4, <2>2, <2>3, <2>6
    <3>7. (B + ia.savedBy) * TicksPerSecond = B * TicksPerSecond + x
      BY <1>5, <2>3, <3>1, <3>2, Distributes
    <3>8. e.deadlineAt = ias'[1].occurredAt + Bought' * TicksPerSecond + TimePaused'
      BY <2>3, <2>5, <3>3, <3>5, <3>6, <3>7
    <3>9. /\ Bought' \in Int /\ TimePaused' \in Int
          /\ e.lastSavedAt \in Int /\ e.lastSavedAt <= ia.occurredAt
          /\ e.status = StatusAfter(ia.action) /\ e.status # "paused"
      BY <1>2, <2>3, <2>6, <3>1, <3>5, <3>6 DEF StatusAfter
    <3>10. Holds(e, n + 1)'
      BY <1>6, <3>5, <3>8, <3>9
    <3> QED
      BY <3>10 DEF e
  <2>7. CASE ia.action = "paused"
    <3>1. e = ApplyPaused(d, ia)
      BY <2>7 DEF ReplayStep
    <3> HIDE DEF e
    <3>2. /\ e.failed = FALSE /\ e.status = "paused" /\ e.deadlineAt = D
          /\ e.lastSavedAt = d.lastSavedAt /\ e.prevOccurredAt = ia.occurredAt
          /\ e.lastPausedAt = ia.occurredAt
      BY <1>3, <2>2, <3>1 DEF ApplyPaused, SharedDataType
    <3>3. Bought' = B /\ TimePaused' = P
      BY <1>4, <2>2, <2>3, <2>7
    <3>4. e.deadlineAt = ias'[1].occurredAt + Bought' * TicksPerSecond + TimePaused'
      BY <2>3, <3>2, <3>3
    <3>5. e.lastSavedAt <= ia.occurredAt
      BY <1>2, <2>3, <2>4, <3>2
    <3>6. Holds(e, n + 1)'
      BY <1>6, <2>3, <2>7, <3>2, <3>3, <3>4, <3>5 DEF StatusAfter
    <3> QED
      BY <3>6 DEF e
  <2>8. CASE ia.action = "resumed"
    <3>1. d.status = "paused" /\ d.lastPausedAt = t
      BY <2>3, <2>8 DEF ReplayError
    <3>2. Sub(ia.occurredAt, t) = ia.occurredAt - t
      BY <1>2, <2>3, <2>4, ExactSub
    <3>3. e = [d EXCEPT !.status = "playing", !.deadlineAt = D + (ia.occurredAt - t),
                        !.lastPausedAt = Nil, !.prevOccurredAt = ia.occurredAt]
      BY <2>2, <2>8, <3>1, <3>2 DEF ReplayStep, ApplyResumed
    <3> HIDE DEF e
    <3>4. /\ e.failed = FALSE /\ e.status = "playing"
          /\ e.deadlineAt = D + (ia.occurredAt - t)
          /\ e.lastSavedAt = d.lastSavedAt /\ e.prevOccurredAt = ia.occurredAt
      BY <1>3, <3>3 DEF SharedDataType
    <3>5. Bought' = B /\ TimePaused' = P + (ia.occurredAt - t)
      BY <1>4, <2>2, <2>3, <2>8
    <3>6. e.deadlineAt = ias'[1].occurredAt + Bought' * TicksPerSecond + TimePaused'
      BY <1>2, <2>3, <2>5, <3>4, <3>5
    <3>7. e.lastSavedAt <= ia.occurredAt
      BY <1>2, <2>3, <2>4, <3>4
    <3>8. Bought' \in Int /\ TimePaused' \in Int
      BY <1>2, <2>3, <3>5
    <3>9. Holds(e, n + 1)'
      BY <1>6, <2>3, <2>8, <3>4, <3>6, <3>7, <3>8 DEF StatusAfter
    <3> QED
      BY <3>9 DEF e
  <2> QED
    BY <2>6, <2>7, <2>8 DEF ReplayError, Actions
<1> QED
  BY <1>7, <1>8

LEMMA RefInvInit == Init => RefInv
<1> SUFFICES ASSUME Init PROVE RefInv
  OBVIOUS
<1>1. ias = << >> /\ Len(ias) = 0 /\ ias \in Seq(Interactions)
  BY DEF Init
<1>2. Replay(Game, ias) = NewSharedData
  BY <1>1, ReplayNothing
<1>3. Replayable(NewSharedData)
  BY DEF NewSharedData, Replayable, SharedDataType, Statuses, Optional
<1> QED
  BY <1>1, <1>2, <1>3 DEF RefInv

LEMMA RefInvStep ==
    ASSUME NoOverflow, RefInv, Replay(Game, ias).failed = FALSE,
           NEW ia \in Interactions, ias' = Append(ias, ia)
    PROVE  RefInv'
<1>1. PICK n, d, e : n = Len(ias) /\ d = Replay(Game, ias) /\ e = ReplayStep(Game, d, ia)
  OBVIOUS
<1>2. Replay(Game, ias)' = e
  BY <1>1, ReplayGrows DEF RefInv
<1>3. Legal
  <2>1. ias = << >> => Legal
    BY DEF Legal
  <2> QED
    BY <2>1 DEF RefInv
<1>4. Replayable(d) /\ Replayable(e)
  BY <1>1, InteractionTyped, IterationReplayable DEF RefInv
<1>5. /\ Len(ias') = n + 1 /\ ias' \in Seq(Interactions) /\ ias' # << >>
  BY <1>1, Grown DEF RefInv
<1>6. /\ ReplayError(Game, d, ia) <=> ~ LegalAt(n + 1)'
      /\ Legal' <=> LegalAt(n + 1)'
  BY <1>1, <1>3, FailsIfIllegal, LegalGrows DEF RefInv
<1>7. CASE ReplayError(Game, d, ia)
  <2>1. e.failed = TRUE
    BY <1>1, <1>4, <1>7 DEF ReplayStep, Replayable, SharedDataType
  <2> QED
    BY <1>2, <1>4, <1>5, <1>6, <1>7, <2>1 DEF RefInv
<1>8. CASE ~ ReplayError(Game, d, ia)
  <2>1. Holds(e, n + 1)'
    BY <1>1, <1>3, <1>8, HoldsGrows
  <2>2. Holds(Replay(Game, ias), Len(ias))'
    BY <1>2, <1>5, <2>1
  <2> QED
    BY <1>2, <1>4, <1>5, <1>6, <1>8, <2>2 DEF RefInv
<1> QED
  BY <1>7, <1>8

LEMMA RefInvNext ==
    ASSUME NoOverflow
    PROVE  RefInv /\ [Next]_ias => RefInv'
<1> SUFFICES ASSUME RefInv, [Next]_ias PROVE RefInv'
  OBVIOUS
<1>1. CASE UNCHANGED ias
  BY <1>1 DEF RefInv, Holds, Bought, TimePaused, Purchase, Break, Is, Legal, LegalAt
<1>2. CASE Next
  <2>1. PICK ia \in Interactions : ias' = Append(ias, ia)
    BY <1>2 DEF Next
  <2>2. Replay(Game, ias).failed = FALSE
    BY <1>2 DEF Next, RefInv, Replayable, SharedDataType
  <2> QED
    BY <2>1, <2>2, RefInvStep
<1> QED
  BY <1>1, <1>2

LEMMA RefInvAlways ==
    ASSUME NoOverflow
    PROVE  Spec => []RefInv
  BY RefInvInit, RefInvNext, PTL DEF Spec

(***************************************************************************)
(* Validity at the moment of a pause or a resume.                          *)
(***************************************************************************)

\* ComputeValid writes nothing but the flag.
LEMMA ValidOnly ==
    ASSUME NEW d \in SharedDataType, NEW t
    PROVE  LET v == ComputeValid(d, t)
           IN /\ v.status = d.status /\ v.failed = d.failed
              /\ v.lastPausedAt = d.lastPausedAt /\ v.lastSavedAt = d.lastSavedAt
              /\ d.deadlineAt # Nil => v.valid = (t < d.deadlineAt \/ PausedInTime(d))
  BY DEF ComputeValid, SharedDataType

LEMMA ValidityKept ==
    ASSUME NoOverflow, NEW d, d \in SharedDataType, NEW t \in Times, d.failed = FALSE,
           d.status # "not_started" =>
               /\ d.deadlineAt \in Int /\ d.prevOccurredAt \in Times
               /\ d.lastSavedAt \in Int /\ d.lastSavedAt <= d.prevOccurredAt,
           d.status = "paused" => d.lastPausedAt = d.prevOccurredAt,
           NEW ia \in Interactions, t = ia.occurredAt, ia.action # "saved",
           ~ ReplayError(Game, d, ia),
           NEW e, e = ReplayStep(Game, d, ia), e \in SharedDataType,
           PauseApart(d)
    PROVE  ComputeValid(d, t).valid = ComputeValid(e, t).valid
<1>1. /\ t \in Int /\ Nil \notin Int
      /\ \A u \in Times : u \in Int
  BY ReplayCheckAssumption, SharedDataAssumption
  DEF ReplayCheckAssumption, SharedDataAssumption
<1>2. d.status # "not_started"
  BY DEF ReplayError, Actions
<1>3. /\ d.deadlineAt \in Int /\ d.deadlineAt # Nil
      /\ d.lastSavedAt \in Int /\ d.prevOccurredAt \in Int
      /\ d.prevOccurredAt \in Times /\ d.lastSavedAt <= d.prevOccurredAt
      /\ d.prevOccurredAt <= t
  BY <1>1, <1>2 DEF ReplayError
<1>4. ComputeValid(d, t).valid = (t < d.deadlineAt \/ PausedInTime(d))
  BY <1>3, ValidOnly
<1>5. CASE ia.action = "paused"
  <2>1. d.status = "playing"
    BY <1>5 DEF ReplayError
  <2>2. e = ApplyPaused(d, ia)
    BY <1>5 DEF ReplayStep
  <2>3. e.deadlineAt = d.deadlineAt /\ e.lastPausedAt = t
    BY <2>2 DEF ApplyPaused, SharedDataType
  <2>4. ComputeValid(e, t).valid = (t < e.deadlineAt \/ PausedInTime(e))
    BY <1>3, <2>3, ValidOnly
  <2>5. PausedInTime(e) => t < e.deadlineAt
    BY <2>3 DEF PausedInTime
  <2>6. ~ PausedInTime(d)
    BY <2>1 DEF PausedInTime
  <2> QED
    BY <1>4, <2>3, <2>4, <2>5, <2>6
<1>6. CASE ia.action = "resumed"
  <2>1. PICK p : p = d.prevOccurredAt
    OBVIOUS
  <2>2. d.status = "paused" /\ d.lastPausedAt = p
    BY <1>6, <2>1 DEF ReplayError
  <2>3. Sub(t, p) = t - p
    BY <1>3, <2>1, ExactSub
  <2>4. e = [d EXCEPT !.status = "playing", !.deadlineAt = d.deadlineAt + (t - p),
                      !.lastPausedAt = Nil, !.prevOccurredAt = t]
    BY <1>6, <2>2, <2>3 DEF ReplayStep, ApplyResumed
  <2>5. e.deadlineAt = d.deadlineAt + (t - p) /\ e.status = "playing"
    BY <2>4 DEF SharedDataType
  <2>6. e.deadlineAt \in Int /\ e.deadlineAt # Nil
    BY <1>1, <1>3, <2>1, <2>5
  <2>7. ComputeValid(e, t).valid = (t < e.deadlineAt \/ PausedInTime(e))
    BY <2>6, ValidOnly
  <2>8. ~ PausedInTime(e)
    BY <2>5 DEF PausedInTime
  <2>9. t < e.deadlineAt <=> p < d.deadlineAt
    BY <1>1, <1>3, <2>1, <2>5
  <2>10. d.lastSavedAt < p /\ d.lastSavedAt # Nil /\ p # Nil
    BY <1>1, <1>3, <2>1, <2>2 DEF PauseApart
  <2>11. PausedInTime(d) <=> p < d.deadlineAt
    BY <1>3, <2>2, <2>10 DEF PausedInTime
  <2>12. t < d.deadlineAt => p < d.deadlineAt
    BY <1>1, <1>3, <2>1
  <2>13. (t < d.deadlineAt \/ PausedInTime(d)) <=> (t < e.deadlineAt \/ PausedInTime(e))
    BY <2>8, <2>9, <2>11, <2>12
  <2> QED
    BY <1>4, <2>7, <2>13
<1> QED
  BY <1>5, <1>6 DEF ReplayError, Actions

(***************************************************************************)
(* The theorems.                                                           *)
(***************************************************************************)

\* BuildSharedData returns an error exactly on the lists that are no history
\* of the game, and gives a history the deadline that its saves and pauses
\* add up to: for any number of interactions, as long as no saved_by and no
\* span of time overflows.
THEOREM ReplayIsReference ==
    ASSUME NoOverflow
    PROVE  Spec => []ReplayMatchesReference
<1>1. RefInv => ReplayMatchesReference
  <2> SUFFICES ASSUME RefInv PROVE ReplayMatchesReference
    OBVIOUS
  <2>1. CASE Replay(Game, ias) = NewSharedData /\ ias = << >>
    <3>1. Legal /\ NewSharedData.failed = FALSE
      BY <2>1 DEF Legal, NewSharedData
    <3> QED
      BY <2>1, <3>1 DEF ReplayMatchesReference
  <2> QED
    BY <2>1 DEF RefInv, Holds, ReplayMatchesReference
<1> QED
  BY <1>1, RefInvAlways, PTL

\* At the moment of a pause or a resume the game is valid after it exactly if
\* it was before it, unless the pause falls on the very time of the last save:
\* in any history, as long as nothing overflows.
THEOREM ValidityNeedsSaveOrTime ==
    ASSUME NoOverflow
    PROVE  Spec => PauseAndResumeKeepValidity
<1> DEFINE Kept ==
        LET n == Len(ias')
            t == ias'[n].occurredAt
            before == BuildSharedData(Game, ias, t)
            after == BuildSharedData(Game, ias', t)
        IN ~ after.failed /\ ias'[n].action # "saved"
            /\ PauseApart(before) /\ PauseApart(after)
            => before.valid = after.valid
<1>1. RefInv /\ RefInv' /\ [Next]_ias => [Kept]_ias
  <2> SUFFICES ASSUME RefInv, RefInv', Next PROVE Kept
    OBVIOUS
  <2>1. PICK ia \in Interactions : ias' = Append(ias, ia)
    BY DEF Next
  <2>2. PICK n, d, e, t : /\ n = Len(ias) /\ d = Replay(Game, ias)
                          /\ e = ReplayStep(Game, d, ia) /\ t = ia.occurredAt
    OBVIOUS
  <2>3. /\ n \in Nat /\ Len(ias') = n + 1 /\ ias'[n + 1] = ia
        /\ n # 0 => n \in 1..n /\ ias[n] \in Interactions
    BY <2>1, <2>2, Grown DEF RefInv
  <2>4. d \in SharedDataType /\ d.failed = FALSE
    BY <2>2 DEF Next, RefInv, Replayable, SharedDataType
  <2>5. Replay(Game, ias') = e
    BY <2>1, <2>2, <2>4, ReplayGrows DEF RefInv
  <2>6. e \in SharedDataType
    BY <2>5 DEF RefInv, Replayable
  <2>7. t \in Times
    BY <2>2, InteractionTyped
  <2>8. SUFFICES ASSUME ~ ComputeValid(e, t).failed, ia.action # "saved",
                        PauseApart(ComputeValid(d, t))
                 PROVE  ComputeValid(d, t).valid = ComputeValid(e, t).valid
    BY <2>2, <2>3, <2>5 DEF BuildSharedData
  <2>9. ~ e.failed /\ PauseApart(d)
    BY <2>4, <2>6, <2>8, ValidOnly DEF PauseApart
  <2>10. ~ ReplayError(Game, d, ia)
    <3>1. ReplayError(Game, d, ia) => e = [d EXCEPT !.failed = TRUE]
      BY <2>2 DEF ReplayStep
    <3> QED
      BY <2>4, <2>9, <3>1 DEF SharedDataType
  <2>11. d.status # "not_started" =>
            /\ d.deadlineAt \in Int /\ d.prevOccurredAt \in Times
            /\ d.lastSavedAt \in Int /\ d.lastSavedAt <= d.prevOccurredAt
            /\ d.status = "paused" => d.lastPausedAt = d.prevOccurredAt
    <3> SUFFICES ASSUME d.status # "not_started"
                 PROVE  /\ d.deadlineAt \in Int /\ d.prevOccurredAt \in Times
                        /\ d.lastSavedAt \in Int /\ d.lastSavedAt <= d.prevOccurredAt
                        /\ d.status = "paused" => d.lastPausedAt = d.prevOccurredAt
      OBVIOUS
    <3>1. Holds(d, n) /\ ias # << >> /\ d.deadlineAt \in Int
      BY <2>2, <2>4 DEF RefInv, NewSharedData, Replayable
    <3>2. n # 0
      BY <2>2, <3>1 DEF RefInv
    <3>3. ias[n].occurredAt \in Times
      BY <2>3, <3>2, InteractionTyped
    <3> QED
      BY <3>1, <3>3 DEF Holds
  <2> QED
    BY <2>2, <2>4, <2>6, <2>7, <2>8, <2>9, <2>10, <2>11, ValidityKept
<1> QED
  BY <1>1, RefInvAlways, PTL DEF Spec, PauseAndResumeKeepValidity
=============================================================================
