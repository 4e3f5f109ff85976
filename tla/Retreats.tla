------------------------------ MODULE Retreats ------------------------------
(***************************************************************************)
(* Where a losing stack may or must go: packages/game/src/retreat.ts.      *)
(* A stack retreats hex by hex through friendly counters to the first      *)
(* empty hex, or over the edge of the board, avoiding enemy zones of       *)
(* control where it can.  A stack with nowhere to go holds its hex and     *)
(* takes an extra loss instead.                                            *)
(***************************************************************************)
EXTENDS Board

\* retreatMap
Friendly(units, ids, side) ==
  {units[u].location : u \in (Deployed(units) \cap Army(side)) \ ids}

Passable(units, ids, side) == Terrain(ids) \ EnemyOccupied(units, side, ids)

\* (A variant that takes any opening for a way out.)
CanFinish_Opening(units, ids, side, start, excluded) == TRUE

\* canFinish: some way on from `start` that avoids the excluded hexes reaches an
\* empty hex or the edge.
CanFinish(units, ids, side, start, excluded) ==
  LET passable == Passable(units, ids, side)
      reached[n \in 0..Cardinality(Hex)] ==
        IF n = 0
          THEN {start}
          ELSE UNION {{h} \cup ((AdjacentHexes[h] \cap passable) \ excluded) : h \in reached[n - 1]}
  IN \E h \in reached[Cardinality(Hex)] :
       h \notin Friendly(units, ids, side) \/ h \in EdgeHexes

\* The steps on from a path that a retreat can be finished from.
ViableSteps(units, ids, side, path) ==
  LET visited == {path[k] : k \in DOMAIN path}
      steps == (AdjacentHexes[path[Len(path)]] \cap Passable(units, ids, side)) \ visited
  IN {h \in steps : CanFinish(units, ids, side, h, visited)}

\* nextSteps: only among those do the zones of control decide.
NextSteps(units, ids, side, path) ==
  LET viable == ViableSteps(units, ids, side, path)
      safe == viable \ EnemyZone(units, side)
  IN IF safe # {} THEN safe ELSE viable

\* validPrefix, as the set of the prefixes it accepts
Prefixes(units, ids, side) ==
  LET origin == Source(units, ids)
      grown[n \in 1..Cardinality(Hex)] ==
        IF n = 1
          THEN {<<origin>>}
          ELSE LET last == {p \in grown[n - 1] :
                              n > 2 => p[n - 1] \in Friendly(units, ids, side)}
               IN UNION {{Append(path, h) : h \in NextSteps(units, ids, side, path)} :
                           path \in last}
  IN UNION {grown[n] : n \in 1..Cardinality(Hex)}

\* retreatOptions(...).complete, can_exit and can_hold
Complete(units, ids, side, path) ==
  Len(path) > 1 /\ path[Len(path)] \notin Friendly(units, ids, side)

CanExit(units, ids, side, path) ==
  /\ ~Complete(units, ids, side, path)
  /\ path[Len(path)] \in EdgeHexes
  /\ Len(path) > 1 \/ NextSteps(units, ids, side, path) = {}

CanHold(units, ids, side) ==
  StackFits(ids) /\ NextSteps(units, ids, side, <<Source(units, ids)>>) = {}

\* validateRetreatPath
RetreatPaths(units, ids, side, exit) ==
  {path \in Prefixes(units, ids, side) :
     /\ StackFits(ids)
     /\ IF exit THEN CanExit(units, ids, side, path)
                ELSE Complete(units, ids, side, path)}

\* prepareForcedRetreat: the stack enters every hex of its path.
AfterRetreat(units, ids, path) ==
  LET walk[k \in 1..Len(path)] ==
        IF k = 1
          THEN Settled(units)
          ELSE LET last == walk[k - 1] IN
               Settled(Updated(last, [u \in ids |-> [last[u] EXCEPT !.location = path[k]]]))
  IN walk[Len(path)]

=============================================================================
