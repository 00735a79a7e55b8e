----------------------------- MODULE SharedData -----------------------------
(***************************************************************************)
(* The domain core: the SharedData record of internal/core/model and the   *)
(* replay of internal/core/service/shared_data.go, which recomputes a      *)
(* game's current state from its interactions.                             *)
(*                                                                         *)
(* Instants and durations count clock ticks.  One second is TicksPerSecond *)
(* ticks (10^9 in the code); time.Duration is a signed integer of          *)
(* 2*DurationHalf values (DurationHalf is 2^63 in the code).               *)
(***************************************************************************)
EXTENDS Integers, Sequences

CONSTANTS
    Nil,             \* a nil pointer or an SQL NULL
    TicksPerSecond,
    DurationHalf

ASSUME SharedDataAssumption ==
    /\ Nil \notin Int
    /\ TicksPerSecond \in Nat \ {0}
    /\ DurationHalf \in Nat \ {0}

(***************************************************************************)
(* Go's arithmetic on time.Duration and time.Time.                         *)
(***************************************************************************)

\* Two's complement wrap-around of an integer to the range of time.Duration.
Wrap(n) == ((n + DurationHalf) % (2 * DurationHalf)) - DurationHalf

\* time.Duration(savedBy) * time.Second: the product wraps silently.
Extension(savedBy) == Wrap(savedBy * TicksPerSecond)

\* t.Sub(u): saturates at the ends of time.Duration's range.
Sub(t, u) ==
    IF t - u >= DurationHalf THEN DurationHalf - 1
    ELSE IF t - u < -DurationHalf THEN -DurationHalf
    ELSE t - u

(***************************************************************************)
(* The data model.                                                         *)
(***************************************************************************)
Actions == {"saved", "paused", "resumed"}
Statuses == {"not_started", "playing", "paused"}

Optional(S) == S \cup {Nil}

\* model.SharedData, with the two locals of BuildSharedData that live across
\* iterations: the previous occurred_at, and whether the loop returned an error.
SharedDataType ==
    [status : Statuses, deadlineAt : Optional(Int), lastSavedAt : Optional(Int),
     lastPausedAt : Optional(Int), valid : Optional(BOOLEAN),
     prevOccurredAt : Optional(Int), failed : BOOLEAN]

NewSharedData ==
    [status |-> "not_started", deadlineAt |-> Nil, lastSavedAt |-> Nil,
     lastPausedAt |-> Nil, valid |-> Nil, prevOccurredAt |-> Nil, failed |-> FALSE]

(***************************************************************************)
(* One iteration of BuildSharedData's loop.  ia is a domain interaction    *)
(* with fields game, action, occurredAt (an instant) and savedBy.          *)
(***************************************************************************)

\* The conditions under which the iteration returns an error.
ReplayError(g, d, ia) ==
    \/ ia.game # g
    \/ d.prevOccurredAt # Nil /\ ia.occurredAt < d.prevOccurredAt
    \/ ia.action \notin Actions
    \/ ia.action = "saved" /\ (d.status = "paused" \/ ia.savedBy = Nil \/ ia.savedBy <= 0)
    \/ ia.action = "paused" /\ d.status # "playing"
    \/ ia.action = "resumed" /\ d.status # "paused"

ApplySaved(d, ia) ==
    LET base == IF d.status = "not_started" THEN ia.occurredAt ELSE d.deadlineAt
    IN [d EXCEPT !.status = "playing",
                 !.deadlineAt = base + Extension(ia.savedBy),
                 !.lastSavedAt = ia.occurredAt,
                 !.prevOccurredAt = ia.occurredAt]

ApplyPaused(d, ia) ==
    [d EXCEPT !.status = "paused",
              !.lastPausedAt = ia.occurredAt,
              !.prevOccurredAt = ia.occurredAt]

\* Mutant: the deadline is not moved by the length of the pause.
MutApplyResumed(d, ia) ==
    [d EXCEPT !.status = "playing",
              !.lastPausedAt = Nil,
              !.prevOccurredAt = ia.occurredAt]

\* Mutant: the operands of Sub are swapped.
MutResumedSwapped(d, ia) ==
    [d EXCEPT !.status = "playing",
              !.deadlineAt = d.deadlineAt + Sub(d.lastPausedAt, ia.occurredAt),
              !.lastPausedAt = Nil,
              !.prevOccurredAt = ia.occurredAt]

ApplyResumed(d, ia) ==
    [d EXCEPT !.status = "playing",
              !.deadlineAt = d.deadlineAt + Sub(ia.occurredAt, d.lastPausedAt),
              !.lastPausedAt = Nil,
              !.prevOccurredAt = ia.occurredAt]

ReplayStep(g, d, ia) ==
    IF ReplayError(g, d, ia) THEN [d EXCEPT !.failed = TRUE]
    ELSE CASE ia.action = "saved" -> ApplySaved(d, ia)
           [] ia.action = "paused" -> ApplyPaused(d, ia)
           [] OTHER -> ApplyResumed(d, ia)

(***************************************************************************)
(* ComputeValid: the deadline test, and the exception for a game paused    *)
(* after its last save and before its deadline.                            *)
(***************************************************************************)

\* Mutant: the exception ignores the deadline.
MutPausedInTime(d) ==
    /\ d.status = "paused"
    /\ d.lastPausedAt # Nil
    /\ d.lastSavedAt # Nil
    /\ d.lastPausedAt > d.lastSavedAt

PausedInTime(d) ==
    /\ d.status = "paused"
    /\ d.lastPausedAt # Nil
    /\ d.lastSavedAt # Nil
    /\ d.lastPausedAt < d.deadlineAt
    /\ d.lastPausedAt > d.lastSavedAt

ComputeValid(d, t) ==
    [d EXCEPT !.valid = IF d.deadlineAt = Nil THEN Nil
                        ELSE t < d.deadlineAt \/ PausedInTime(d)]

(***************************************************************************)
(* BuildSharedData over a sequence of interactions: the loop as a          *)
(* recursive function of the number of rows replayed.  A failed iteration  *)
(* is the early return.                                                    *)
(***************************************************************************)
Replay(g, ias) ==
    LET after[n \in 0..Len(ias)] ==
            IF n = 0 THEN NewSharedData
            ELSE LET d == after[n-1]
                 IN IF d.failed THEN d ELSE ReplayStep(g, d, ias[n])
    IN after[Len(ias)]

BuildSharedData(g, ias, t) == ComputeValid(Replay(g, ias), t)
=============================================================================
