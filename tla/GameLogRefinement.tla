------------------------- MODULE GameLogRefinement --------------------------
(***************************************************************************)
(* GameLog implements SharedGame.  The abstract state of a game is what    *)
(* its rows replay to, with the time left counted from the pause; a game   *)
(* that cannot be replayed has no abstract state, so the refinement also   *)
(* says that the replay of a game never fails.                             *)
(***************************************************************************)
EXTENDS GameLog

Abstract(d) ==
    CASE d.failed -> Nil
      [] ~ d.failed /\ d.status = "not_started" ->
            [status |-> d.status, deadline |-> Nil, left |-> Nil, asOf |-> Nil]
      [] ~ d.failed /\ d.status = "playing" ->
            [status |-> d.status, deadline |-> d.deadlineAt, left |-> Nil,
             asOf |-> d.prevOccurredAt]
      [] ~ d.failed /\ d.status = "paused" ->
            [status |-> d.status, deadline |-> Nil,
             left |-> d.deadlineAt - d.lastPausedAt, asOf |-> d.prevOccurredAt]

\* Events happen on whole seconds; a save buys what was asked for.
Instants == {k * TicksPerSecond : k \in 0..(MaxNow \div TicksPerSecond)}
Extensions == {s * TicksPerSecond : s \in {x \in Durations : x >= 1}}

Game == INSTANCE SharedGame WITH game <- [g \in Games |-> Abstract(replayed[g])]

(***************************************************************************)
(* Properties.                                                             *)
(***************************************************************************)

\* Whatever the interleaving, the replay of the table moves as the abstract
\* game does: each insert is one event of one game, in time order, and every
\* other step leaves all games alone.
RefinesSharedGame == Game!Spec
=============================================================================
