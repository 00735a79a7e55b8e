-------------------------- MODULE SharedDataProofs --------------------------
(***************************************************************************)
(* Proofs about SharedData, for lists of interactions of any length: the   *)
(* loop of BuildSharedData is well defined, one more interaction is one    *)
(* more iteration, and what an iteration keeps of the data's types.        *)
(***************************************************************************)
EXTENDS SharedData, FiniteSetTheorems, TLAPS

(***************************************************************************)
(* Induction.  The library's theorems take the induction hypothesis as an  *)
(* operator; here it is a set, whose least missing element is looked at.   *)
(***************************************************************************)
LEMMA LessWellFounded == IsWellFoundedOn({p \in Nat \X Nat : p[1] < p[2]}, Nat)
  BY NatLessThanWellFounded DEF OpToRel

\* A set of numbers that is not empty has a least element.
LEMMA LeastElement ==
    ASSUME NEW T \in SUBSET Nat, T # {}
    PROVE  \E m \in T : \A k \in T : m <= k
<1> DEFINE R == {p \in Nat \X Nat : p[1] < p[2]}
<1>1. PICK m \in T : \A k \in T : <<k, m>> \notin R
  <2>1. IsWellFoundedOn(R, Nat)
    BY LessWellFounded
  <2> HIDE DEF R
  <2> QED
    BY <2>1, WFMin
<1>2. \A k \in T : ~ (k < m)
  BY <1>1
<1> QED
  BY <1>2

\* A set with 0 and with the successor of each of its numbers has them all.
LEMMA Induction ==
    ASSUME NEW S, 0 \in S, \A n \in Nat : n \in S => n + 1 \in S
    PROVE  \A n \in Nat : n \in S
<1> SUFFICES ASSUME NEW n \in Nat, n \notin S PROVE FALSE
  OBVIOUS
<1> DEFINE T == Nat \ S
<1>1. PICK m \in T : \A k \in T : m <= k
  BY LeastElement
<1>2. m - 1 \in Nat /\ m - 1 \notin T
  BY <1>1
<1> QED
  BY <1>1, <1>2

(***************************************************************************)
(* The loop.                                                               *)
(***************************************************************************)

\* What the loop does to the data with the interaction at index n.
Iteration(g, ias, d, n) == IF d.failed THEN d ELSE ReplayStep(g, d, ias[n])

\* f tells what the loop has made of the first n interactions, n up to N.
IsLoop(g, ias, N, f) ==
    f = [n \in 0..N |-> IF n = 0 THEN NewSharedData ELSE Iteration(g, ias, f[n - 1], n)]

LEMMA LoopExists ==
    ASSUME NEW g, NEW ias
    PROVE  \A N \in Nat : \E f : IsLoop(g, ias, N, f)
<1> DEFINE S == {N \in Nat : \E f : IsLoop(g, ias, N, f)}
<1>1. 0 \in S
  <2>1. IsLoop(g, ias, 0, [n \in 0..0 |-> NewSharedData])
    BY DEF IsLoop
  <2> QED
    BY <2>1
<1>2. ASSUME NEW N \in Nat, N \in S PROVE N + 1 \in S
  <2>1. PICK f : IsLoop(g, ias, N, f)
    BY <1>2
  <2> DEFINE h == [n \in 0..(N + 1) |->
                      IF n <= N THEN f[n] ELSE Iteration(g, ias, f[N], N + 1)]
  <2>2. \A n \in 0..N : f[n] = IF n = 0 THEN NewSharedData
                               ELSE Iteration(g, ias, f[n - 1], n)
    BY <2>1 DEF IsLoop
  <2>3. \A n \in 0..(N + 1) : h[n] = IF n = 0 THEN NewSharedData
                                     ELSE Iteration(g, ias, h[n - 1], n)
    BY <2>2
  <2>4. h = [n \in 0..(N + 1) |-> h[n]]
    OBVIOUS
  <2> HIDE DEF h
  <2>5. IsLoop(g, ias, N + 1, h)
    BY <2>3, <2>4 DEF IsLoop
  <2> QED
    BY <2>5
<1> HIDE DEF S
<1>3. \A N \in Nat : N \in S
  BY <1>1, <1>2, Induction
<1> QED
  BY <1>3 DEF S

\* Two such functions agree, also for lists that only begin alike.
LEMMA LoopUnique ==
    ASSUME NEW g, NEW s, NEW t, NEW M \in Nat, NEW N \in Nat, M <= N,
           \A n \in 1..M : s[n] = t[n],
           NEW f, IsLoop(g, s, M, f), NEW h, IsLoop(g, t, N, h)
    PROVE  \A n \in 0..M : f[n] = h[n]
<1> DEFINE S == {n \in Nat : n <= M => f[n] = h[n]}
<1>1. /\ \A n \in 0..M : f[n] = IF n = 0 THEN NewSharedData
                                ELSE Iteration(g, s, f[n - 1], n)
      /\ \A n \in 0..N : h[n] = IF n = 0 THEN NewSharedData
                                ELSE Iteration(g, t, h[n - 1], n)
  BY DEF IsLoop
<1>2. 0 \in S
  BY <1>1
<1>3. ASSUME NEW n \in Nat, n \in S PROVE n + 1 \in S
  <2> SUFFICES ASSUME n + 1 <= M PROVE f[n + 1] = h[n + 1]
    OBVIOUS
  <2>1. f[n] = h[n] /\ s[n + 1] = t[n + 1]
    BY <1>3
  <2>2. /\ f[n + 1] = Iteration(g, s, f[n], n + 1)
        /\ h[n + 1] = Iteration(g, t, h[n], n + 1)
    BY <1>1
  <2> QED
    BY <2>1, <2>2 DEF Iteration
<1> HIDE DEF S
<1>4. \A n \in Nat : n \in S
  BY <1>2, <1>3, Induction
<1> QED
  BY <1>4 DEF S

LEMMA ReplayIsLoop ==
    ASSUME NEW g, NEW ias, NEW N \in Nat, Len(ias) = N, NEW f, IsLoop(g, ias, N, f)
    PROVE  Replay(g, ias) = f[N]
<1> DEFINE loop == CHOOSE h : IsLoop(g, ias, N, h)
<1>1. IsLoop(g, ias, N, loop)
  BY LoopExists
<1>2. Replay(g, ias) = loop[N]
  BY DEF Replay, IsLoop, Iteration
<1> HIDE DEF loop
<1>3. loop[N] = f[N]
  BY <1>1, LoopUnique
<1> QED
  BY <1>2, <1>3

\* The replay of no interactions, and of a list that is another with one
\* interaction more: a list is a history the loop takes from left to right.
THEOREM ReplayUnfolds ==
    ASSUME NEW g, NEW s, NEW t, NEW N \in Nat, Len(s) = N, Len(t) = N + 1,
           \A n \in 1..N : t[n] = s[n]
    PROVE  Replay(g, t) = Iteration(g, t, Replay(g, s), N + 1)
<1>1. PICK f : IsLoop(g, s, N, f)
  BY LoopExists
<1>2. PICK M \in Nat : M = N + 1
  OBVIOUS
<1>3. PICK h : IsLoop(g, t, M, h)
  BY LoopExists
<1>4. Replay(g, s) = f[N] /\ Replay(g, t) = h[M]
  BY <1>1, <1>2, <1>3, ReplayIsLoop
<1>5. f[N] = h[N]
  <2>1. N <= M /\ \A n \in 1..N : s[n] = t[n]
    BY <1>2
  <2>2. \A n \in 0..N : f[n] = h[n]
    BY <1>1, <1>3, <2>1, LoopUnique
  <2> QED
    BY <2>2
<1>6. h[M] = Iteration(g, t, h[N], M)
  BY <1>2, <1>3 DEF IsLoop
<1> QED
  BY <1>2, <1>4, <1>5, <1>6

LEMMA ReplayNothing ==
    ASSUME NEW g, NEW s, Len(s) = 0
    PROVE  Replay(g, s) = NewSharedData
<1>1. PICK f : IsLoop(g, s, 0, f)
  BY LoopExists
<1>2. Replay(g, s) = f[0]
  BY <1>1, ReplayIsLoop
<1> QED
  BY <1>1, <1>2 DEF IsLoop

(***************************************************************************)
(* Arithmetic.                                                             *)
(***************************************************************************)

LEMMA WrapType == \A n \in Int : Wrap(n) \in Int
  <1>1. DurationHalf \in Nat \ {0}
    BY SharedDataAssumption DEF SharedDataAssumption
  <1>2. SUFFICES ASSUME NEW n \in Int PROVE (n + DurationHalf) % (2 * DurationHalf) \in Int
    BY <1>1 DEF Wrap
  <1>3. QED
    BY <1>1

LEMMA ExtensionType == \A n \in Int : Extension(n) \in Int
  <1>1. TicksPerSecond \in Int
    BY SharedDataAssumption DEF SharedDataAssumption
  <1>2. QED
    BY <1>1, WrapType DEF Extension

LEMMA SubType == \A t, u \in Int : Sub(t, u) \in Int
  <1>1. DurationHalf \in Int
    BY SharedDataAssumption DEF SharedDataAssumption
  <1>2. QED
    BY <1>1 DEF Sub

\* Wrap leaves the non-negative half of time.Duration's range alone.
LEMMA WrapInRange ==
    ASSUME NEW n \in 0..(DurationHalf - 1)
    PROVE  Wrap(n) = n
  <1>1. DurationHalf \in Nat \ {0}
    BY SharedDataAssumption DEF SharedDataAssumption
  <1>2. n + DurationHalf \in 0..(2 * DurationHalf - 1)
    BY <1>1
  <1>3. \A a, b \in Nat : a < b => a % b = a
    OBVIOUS
  <1>4. (n + DurationHalf) % (2 * DurationHalf) = n + DurationHalf
    BY <1>1, <1>2, <1>3
  <1>5. QED
    BY <1>1, <1>4 DEF Wrap

(***************************************************************************)
(* One iteration of the loop.                                              *)
(***************************************************************************)

\* An interaction with the types of the code's.
Typed(ia) == ia.occurredAt \in Int /\ ia.savedBy \in Optional(Int)

\* What one iteration of the replay loop may be given so that it yields data
\* of the model: a deadline is there whenever the loop adds to it.
Replayable(d) ==
    /\ d \in SharedDataType
    /\ d.status # "not_started" => d.deadlineAt \in Int
    /\ d.status = "paused" => d.lastPausedAt \in Int

\* An iteration of the replay loop keeps the data replayable, whatever
\* interaction it is given.
LEMMA IterationReplayable ==
    ASSUME NEW g, NEW d, Replayable(d), NEW ia, Typed(ia)
    PROVE  Replayable(ReplayStep(g, d, ia))
  <1> USE DEF Replayable
  <1>1. /\ d \in SharedDataType
        /\ d.status # "not_started" => d.deadlineAt \in Int
        /\ d.status = "paused" => d.lastPausedAt \in Int
    OBVIOUS
  <1>2. /\ ia.occurredAt \in Int
        /\ ia.savedBy \in Optional(Int)
    BY DEF Typed
  <1>3. CASE ReplayError(g, d, ia)
    BY <1>1, <1>3 DEF ReplayStep, SharedDataType
  <1>4. CASE ~ ReplayError(g, d, ia) /\ ia.action = "saved"
    <2>1. ia.savedBy \in Int
      BY <1>2, <1>4 DEF ReplayError, Optional
    <2>2. Extension(ia.savedBy) \in Int
      BY <2>1, ExtensionType
    <2>3. ReplayStep(g, d, ia) = ApplySaved(d, ia)
      BY <1>4 DEF ReplayStep
    <2>4. Replayable(ApplySaved(d, ia))
      <3> DEFINE base == IF d.status = "not_started" THEN ia.occurredAt ELSE d.deadlineAt
                 sum == base + Extension(ia.savedBy)
      <3>1. sum \in Int
        BY <1>1, <1>2, <2>2
      <3>2. ApplySaved(d, ia) = [d EXCEPT !.status = "playing", !.deadlineAt = sum,
                                          !.lastSavedAt = ia.occurredAt,
                                          !.prevOccurredAt = ia.occurredAt]
        BY DEF ApplySaved
      <3> HIDE DEF sum
      <3>3. QED
        BY <1>1, <1>2, <3>1, <3>2 DEF SharedDataType, Statuses, Optional
    <2>5. QED
      BY <2>3, <2>4
  <1>5. CASE ~ ReplayError(g, d, ia) /\ ia.action = "paused"
    <2>1. ReplayStep(g, d, ia) = ApplyPaused(d, ia)
      BY <1>5 DEF ReplayStep
    <2>2. d.status = "playing"
      BY <1>5 DEF ReplayError
    <2>3. Replayable(ApplyPaused(d, ia))
      BY <1>1, <1>2, <2>2 DEF ApplyPaused, SharedDataType, Statuses, Optional
    <2>4. QED
      BY <2>1, <2>3
  <1>6. CASE ~ ReplayError(g, d, ia) /\ ia.action = "resumed"
    <2>1. ReplayStep(g, d, ia) = ApplyResumed(d, ia)
      BY <1>6 DEF ReplayStep
    <2>2. d.status = "paused"
      BY <1>6 DEF ReplayError
    <2>3. Sub(ia.occurredAt, d.lastPausedAt) \in Int
      BY <1>1, <1>2, <2>2, SubType
    <2>4. Replayable(ApplyResumed(d, ia))
      <3> DEFINE sum == d.deadlineAt + Sub(ia.occurredAt, d.lastPausedAt)
      <3>1. sum \in Int
        BY <1>1, <2>2, <2>3
      <3>2. ApplyResumed(d, ia) = [d EXCEPT !.status = "playing", !.deadlineAt = sum,
                                            !.lastPausedAt = Nil,
                                            !.prevOccurredAt = ia.occurredAt]
        BY DEF ApplyResumed
      <3> HIDE DEF sum
      <3>3. QED
        BY <1>1, <1>2, <3>1, <3>2 DEF SharedDataType, Statuses, Optional
    <2>5. QED
      BY <2>1, <2>4
  <1>7. QED
    BY <1>3, <1>4, <1>5, <1>6 DEF ReplayError, Actions

\* A game that was not started has neither deadline nor history; a game that
\* was has a last event and a last save, and if it is paused the last event is
\* the pause.
PauseClock(d) ==
    /\ d.status = "not_started" => d.deadlineAt = Nil /\ d.prevOccurredAt = Nil
    /\ d.status # "not_started" => d.prevOccurredAt \in Int /\ d.lastSavedAt \in Int
    /\ d.status = "paused" => d.lastPausedAt = d.prevOccurredAt

LEMMA IterationPauseClock ==
    ASSUME NEW g, NEW d, Replayable(d), PauseClock(d), NEW ia, Typed(ia)
    PROVE  PauseClock(ReplayStep(g, d, ia))
  <1>1. ia.occurredAt \in Int
    BY DEF Typed
  <1>2. d \in SharedDataType
    BY DEF Replayable
  <1>3. CASE ReplayError(g, d, ia)
    BY <1>2, <1>3 DEF ReplayStep, PauseClock, SharedDataType
  <1>4. CASE ~ ReplayError(g, d, ia) /\ ia.action = "saved"
    <2> DEFINE base == IF d.status = "not_started" THEN ia.occurredAt ELSE d.deadlineAt
               sum == base + Extension(ia.savedBy)
    <2>1. ReplayStep(g, d, ia) =
            [d EXCEPT !.status = "playing", !.deadlineAt = sum,
                      !.lastSavedAt = ia.occurredAt, !.prevOccurredAt = ia.occurredAt]
      BY <1>4 DEF ReplayStep, ApplySaved
    <2> HIDE DEF sum
    <2> QED
      BY <1>1, <1>2, <2>1 DEF PauseClock, SharedDataType
  <1>5. CASE ~ ReplayError(g, d, ia) /\ ia.action = "paused"
    <2>1. d.status = "playing"
      BY <1>5 DEF ReplayError
    <2>2. ReplayStep(g, d, ia) = ApplyPaused(d, ia)
      BY <1>5 DEF ReplayStep
    <2>3. d.lastSavedAt \in Int
      BY <2>1 DEF PauseClock
    <2> QED
      BY <1>1, <1>2, <2>2, <2>3 DEF ApplyPaused, PauseClock, SharedDataType
  <1>6. CASE ~ ReplayError(g, d, ia) /\ ia.action = "resumed"
    <2> DEFINE sum == d.deadlineAt + Sub(ia.occurredAt, d.lastPausedAt)
    <2>1. ReplayStep(g, d, ia) =
            [d EXCEPT !.status = "playing", !.deadlineAt = sum,
                      !.lastPausedAt = Nil, !.prevOccurredAt = ia.occurredAt]
      BY <1>6 DEF ReplayStep, ApplyResumed
    <2>2. d.lastSavedAt \in Int
      BY <1>6 DEF ReplayError, PauseClock
    <2> HIDE DEF sum
    <2> QED
      BY <1>1, <1>2, <2>1, <2>2 DEF PauseClock, SharedDataType
  <1> QED
    BY <1>3, <1>4, <1>5, <1>6 DEF ReplayError, Actions
=============================================================================
