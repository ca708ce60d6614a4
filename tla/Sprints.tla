------------------------------- MODULE Sprints -------------------------------
(* The package sprint: which sprint a day is in, given the anchors the       *)
(* administrator has entered. Days are integers, a sprint is half open.      *)
EXTENDS Integers

Length == 14
PerYear == 26

Anchor(y, n, s)    == [year |-> y, number |-> n, start |-> s]
Sprint(y, n, s, e) == [year |-> y, number |-> n, start |-> s, end |-> e]

\* sprintAfter and sprintBefore: numbers run from 1 to 26 and around.
After(a)   == IF a.number = PerYear THEN Anchor(a.year + 1, 1, a.start) ELSE Anchor(a.year, a.number + 1, a.start)
Before(a)  == IF a.number = 1 THEN Anchor(a.year - 1, PerYear, a.start) ELSE Anchor(a.year, a.number - 1, a.start)
Later(a)   == [After(a) EXCEPT !.start = @ + Length]
Earlier(a) == [Before(a) EXCEPT !.start = @ - Length]

\* Slip: the first day of the next sprint still counts.
ForwardTooLong(a, d) ==
  LET step[b \in [year : Int, number : 1..PerYear, start : Int]] ==
        IF d <= b.start + Length THEN Sprint(b.year, b.number, b.start, b.start + Length)
                                 ELSE step[Later(b)]
  IN step[a]
\* Slip: the number is taken on from where the step started.
ForwardUnnumbered(a, d) ==
  LET step[b \in [year : Int, number : 1..PerYear, start : Int]] ==
        IF d < b.start + Length THEN Sprint(b.year, b.number, b.start, b.start + Length)
                                ELSE step[[b EXCEPT !.start = @ + Length]]
  IN step[a]
\* extrapolateForward steps on from an anchor until the day is reached ...
Forward(a, d) ==
  LET step[b \in [year : Int, number : 1..PerYear, start : Int]] ==
        IF d < b.start + Length THEN Sprint(b.year, b.number, b.start, b.start + Length)
                                ELSE step[Later(b)]
  IN step[a]
\* ... and extrapolateBackward back from it.
Backward(a, d) ==
  LET step[b \in [year : Int, number : 1..PerYear, start : Int]] ==
        LET p == Earlier(b)
        IN IF p.start <= d THEN Sprint(p.year, p.number, p.start, b.start) ELSE step[p]
  IN step[a]

Reached(A, d)  == {a \in A : a.start <= d}
Latest(S)      == {a \in S : \A b \in S : b.start <= a.start}
Earliest(S)    == {a \in S : \A b \in S : a.start <= b.start}

\* Resolve: before the first anchor, after the last one, or between two. Of anchors that
\* start on the same day the order of the sort picks one.
Resolutions(A, d) ==
  IF Reached(A, d) = {} THEN {Backward(a, d) : a \in Earliest(A)}
  ELSE IF Reached(A, d) = A THEN {Forward(a, d) : a \in Latest(A)}
  ELSE {Sprint(a.year, a.number, a.start, b.start) :
          a \in Latest(Reached(A, d)), b \in Earliest(A \ Reached(A, d))}

\* NextStart.
NextStarts(A, d) == {s.end : s \in Resolutions(A, d)}
=============================================================================
