------------------------------- MODULE MCClip -------------------------------
(* Instances of Clip: a window of 4 by 3 points, and requests that reach     *)
(* over each of its edges.                                                   *)
EXTENDS Clip

LeastCoord == -3

Places == ((-1)..4) \X ((-1)..3)

PointRequests(S) == {[op |-> "point", from |-> p] : p \in S}

Lines == {[op |-> "line", from |-> p, to |-> q] : p \in Places, q \in Places}

Areas == {r \in {Box(p[1], p[2], q[1], q[2]) : p \in Places, q \in Places} :
            r.left <= r.right /\ r.top <= r.bottom}

EveryRequest ==
  PointRequests(Places)
    \cup {q \in Lines : Onward(q.from, q.to)}
    \cup [op : {"rect", "fill"}, area : Areas]

Covering == {Box(l, t, r, b) : l \in {-1, 1, 2}, t \in {-1, 1}, r \in {0, 1, 2, 4}, b \in {0, 1, 2}}

CutSets == {S \in {{q, r} : q \in Covering, r \in Covering} :
              \A r \in S : r.left < r.right /\ r.top < r.bottom} \cup {{}}

\* What decides how the system goes on.
Relevant == <<region, cache>>

=============================================================================
