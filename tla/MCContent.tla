------------------------------- MODULE MCContent -------------------------------
(* The content service: reviews of gates, and the edges between tasks.  They  *)
(* share no state, so a behaviour is one of the one or of the other.          *)
EXTENDS GateReview

CONSTANTS Task, Caller, MaxDepth, MaxEdges

VARIABLES edges, next, at, want,
          side    \* the part of the service at work

Edges == INSTANCE DependencyEdges WITH pc <- at
ASSUME EdgesAssumed == Edges!DepthAssumption

edgeVars == <<edges, next, at, want>>
contentVars == <<vars, edgeVars, side>>

ContentInit == Init /\ Edges!Init /\ side \in {"review", "edges"}

ContentNext ==
  /\ UNCHANGED side
  /\ \/ side = "review" /\ Next /\ UNCHANGED edgeVars
     \/ side = "edges" /\ Edges!Next /\ UNCHANGED vars

ContentSpec == ContentInit /\ [][ContentNext]_contentVars /\ Fairness

\* No task waits for itself, over whatever edges are emitted and retracted.
Acyclic == Edges!Acyclic
================================================================================
