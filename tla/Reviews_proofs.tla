---------------------------- MODULE Reviews_proofs ----------------------------
(***************************************************************************)
(* Sprints and review days, for any anchors, zone and week, any number of  *)
(* edits and messages, and all of time.  The sprint a day is in has a      *)
(* closed form: the k-th after the one an anchor names, with its number    *)
(* carried over from year to year.  Days and numbers are then arithmetic.  *)
(***************************************************************************)
EXTENDS Reviews, FiniteSetTheorems, TLAPS

----------------------------------------------------------------------------
(* Counting. *)

\* Induction over the natural numbers, for a set that holds 0 and every successor: the
\* members of 0..n it lacks would move down one by one without end.
LEMMA UpTo ==
  ASSUME NEW T, 0 \in T, \A n \in Nat : n \in T => n + 1 \in T
  PROVE  Nat \subseteq T
<1> SUFFICES ASSUME NEW n \in Nat, n \notin T PROVE FALSE
  OBVIOUS
<1> DEFINE D == {m \in 0..n : m \notin T}
           down == [m \in D |-> m - 1]
<1>1. IsFiniteSet(D)
  <2>1. IsFiniteSet(0..n)
    BY FS_Interval
  <2>2. D \in SUBSET (0..n)
    OBVIOUS
  <2> QED
    BY <2>1, <2>2, FS_Subset
<1>2. \A m \in D : m - 1 \in D
  BY SMT
<1>3. down \in [D -> D]
  BY <1>2
<1>4. down \in Injection(D, D)
  BY <1>3 DEF Injection, IsInjective
<1>5. down \in Surjection(D, D)
  BY <1>1, <1>4, FS_Injection
<1>6. n \in D
  OBVIOUS
<1>7. PICK m \in D : down[m] = n
  <2> HIDE DEF D, down
  <2> QED
    BY <1>5, <1>6 DEF Surjection
<1>8. m - 1 = n /\ m \in 0..n
  BY <1>7
<1> QED
  BY <1>8

----------------------------------------------------------------------------
(* The sprints an anchor numbers. *)

Anch == [year : Int, number : 1..PerYear, start : Int]
\* The k-th sprint after the one an anchor names, before it if k is negative.
Nth(a, k) ==
  LET o == Ordinal(a) + k - 1
  IN Sprint(o \div PerYear, (o % PerYear) + 1, a.start + k * Length, a.start + (k + 1) * Length)

\* The anchor's own.
LEMMA Zero ==
  ASSUME NEW a \in Anch
  PROVE  Nth(a, 0) = Sprint(a.year, a.number, a.start, a.start + Length)
<1>1. (Ordinal(a) + 0 - 1) \div PerYear = a.year /\ (Ordinal(a) + 0 - 1) % PerYear = a.number - 1
  BY DEF Anch, Ordinal, PerYear
<1> QED
  BY <1>1 DEF Nth, Sprint, Length, Anch

\* sprintAfter and sprintBefore move by one sprint.
LEMMA Shift ==
  ASSUME NEW a \in Anch
  PROVE  /\ Later(a) \in Anch /\ Ordinal(Later(a)) = Ordinal(a) + 1 /\ Later(a).start = a.start + 14
         /\ Earlier(a) \in Anch /\ Ordinal(Earlier(a)) = Ordinal(a) - 1 /\ Earlier(a).start = a.start - 14
<1>1. a = [year |-> a.year, number |-> a.number, start |-> a.start]
      /\ a.year \in Int /\ a.number \in 1..26 /\ a.start \in Int
  BY DEF Anch, PerYear
<1>2. Later(a) = IF a.number = 26 THEN [year |-> a.year + 1, number |-> 1, start |-> a.start + 14]
                 ELSE [year |-> a.year, number |-> a.number + 1, start |-> a.start + 14]
  <2>1. After(a) = IF a.number = 26 THEN [year |-> a.year + 1, number |-> 1, start |-> a.start]
                   ELSE [year |-> a.year, number |-> a.number + 1, start |-> a.start]
    BY DEF After, Anchor, PerYear
  <2> QED
    BY <2>1 DEF Later, Length
<1>3. Earlier(a) = IF a.number = 1 THEN [year |-> a.year - 1, number |-> 26, start |-> a.start - 14]
                   ELSE [year |-> a.year, number |-> a.number - 1, start |-> a.start - 14]
  <2>1. Before(a) = IF a.number = 1 THEN [year |-> a.year - 1, number |-> 26, start |-> a.start]
                    ELSE [year |-> a.year, number |-> a.number - 1, start |-> a.start]
    BY DEF Before, Anchor, PerYear
  <2> QED
    BY <2>1 DEF Earlier, Length
<1>4. Later(a) \in Anch /\ Earlier(a) \in Anch
  BY <1>1, <1>2, <1>3 DEF Anch, PerYear
<1>5. Later(a).start = a.start + 14 /\ Earlier(a).start = a.start - 14
  BY <1>1, <1>2, <1>3
<1>6. Ordinal(Later(a)) = Ordinal(a) + 1 /\ Ordinal(Earlier(a)) = Ordinal(a) - 1
  BY <1>1, <1>2, <1>3 DEF Ordinal, PerYear
<1> QED
  BY <1>4, <1>5, <1>6

\* Counting on from the next anchor, or from the one before.
LEMMA NthShift ==
  ASSUME NEW a \in Anch, NEW k \in Int
  PROVE  Nth(Later(a), k) = Nth(a, k + 1) /\ Nth(Earlier(a), k) = Nth(a, k - 1)
<1>1. Ordinal(a) \in Int /\ a.start \in Int
  BY DEF Anch, Ordinal, PerYear
<1>0. /\ Ordinal(Later(a)) = Ordinal(a) + 1 /\ Later(a).start = a.start + 14
      /\ Ordinal(Earlier(a)) = Ordinal(a) - 1 /\ Earlier(a).start = a.start - 14
  BY Shift
<1>2. /\ Ordinal(Later(a)) + k - 1 = Ordinal(a) + (k + 1) - 1
      /\ Ordinal(Earlier(a)) + k - 1 = Ordinal(a) + (k - 1) - 1
  BY <1>0, <1>1
<1>3. /\ Later(a).start + k * Length = a.start + (k + 1) * Length
      /\ Later(a).start + (k + 1) * Length = a.start + ((k + 1) + 1) * Length
      /\ Earlier(a).start + k * Length = a.start + (k - 1) * Length
      /\ Earlier(a).start + (k + 1) * Length = a.start + ((k - 1) + 1) * Length
  BY <1>0, <1>1 DEF Length
<1> QED
  BY <1>2, <1>3 DEF Nth

\* What the loop of extrapolateForward computes from every anchor; that some function is so
\* is seen from the closed form.
Steps(f, d) ==
  f = [b \in Anch |-> IF d < b.start + Length THEN Sprint(b.year, b.number, b.start, b.start + Length)
                                              ELSE f[Later(b)]]
LEMMA ForwardRec ==
  ASSUME NEW a \in Anch, NEW d \in Int
  PROVE  \E f : Steps(f, d) /\ Forward(a, d) = f[a]
<1> DEFINE far(b) == IF d < b.start + 14 THEN 0 ELSE (d - b.start) \div 14
           g == [b \in Anch |-> Nth(b, far(b))]
<1>1. ASSUME NEW b \in Anch
      PROVE  g[b] = IF d < b.start + Length THEN Sprint(b.year, b.number, b.start, b.start + Length)
                                            ELSE g[Later(b)]
  <2>0. b.start \in Int /\ Length = 14 /\ g[b] = Nth(b, far(b))
    BY DEF Anch, Length
  <2>1. CASE d < b.start + 14
    BY <2>0, <2>1, Zero
  <2>2. CASE ~ (d < b.start + 14)
    <3>1. Later(b) \in Anch /\ Later(b).start = b.start + 14
      BY Shift
    <3>2. far(b) = far(Later(b)) + 1 /\ far(Later(b)) \in Int
      BY <2>0, <2>2, <3>1
    <3>3. g[Later(b)] = Nth(Later(b), far(Later(b)))
      BY <3>1
    <3>4. g[Later(b)] = Nth(b, far(b))
      <4> HIDE DEF g, far
      <4> QED
        BY <3>2, <3>3, NthShift
    <3> QED
      BY <2>0, <2>2, <3>4
  <2> QED
    BY <2>1, <2>2
<1>2. Steps(g, d)
  BY <1>1 DEF Steps
<1> HIDE DEF g
<1>3. Steps(CHOOSE f : Steps(f, d), d)
  BY <1>2
<1>4. Forward(a, d) = (CHOOSE f : Steps(f, d))[a]
  BY DEF Forward, Steps, Anch
<1> QED
  BY <1>3, <1>4

\* The days of the k-th sprint.
LEMMA NthStarts ==
  ASSUME NEW a \in Anch, NEW k \in Int
  PROVE  Nth(a, k).start = a.start + 14 * k /\ Nth(a, k).end = a.start + 14 * k + 14
<1>1. a.start \in Int /\ a.start + (k + 1) * 14 = a.start + 14 * k + 14 /\ a.start + k * 14 = a.start + 14 * k
  BY DEF Anch
<1> QED
  BY <1>1 DEF Nth, Sprint, Length

\* extrapolateForward gives the sprint the day is in, counted from the anchor.
LEMMA ForwardIs ==
  ASSUME NEW a \in Anch, NEW d \in Int, a.start <= d
  PROVE  \E k \in Nat : /\ Forward(a, d) = Nth(a, k)
                        /\ a.start + 14 * k <= d /\ d < a.start + 14 * k + 14
<1>1. PICK f : Steps(f, d) /\ Forward(a, d) = f[a]
  BY ForwardRec
<1> DEFINE Right(b) == \E k \in Nat : /\ f[b] = Nth(b, k)
                                      /\ b.start + 14 * k <= d /\ d < b.start + 14 * k + 14
           T == {n \in Nat : \A b \in Anch : b.start <= d /\ d < b.start + 14 * n + 14 => Right(b)}
<1>2. ASSUME NEW b \in Anch
      PROVE  f[b] = IF d < b.start + 14 THEN Nth(b, 0) ELSE f[Later(b)]
  BY <1>1, Zero DEF Steps, Length
<1>3. 0 \in T
  <2> SUFFICES ASSUME NEW b \in Anch, b.start <= d, d < b.start + 14 PROVE Right(b)
    BY DEF Anch
  <2>1. f[b] = Nth(b, 0) /\ b.start + 14 * 0 <= d /\ d < b.start + 14 * 0 + 14
    BY <1>2 DEF Anch
  <2> QED
    BY <2>1
<1>4. ASSUME NEW n \in Nat, n \in T PROVE n + 1 \in T
  <2> SUFFICES ASSUME NEW b \in Anch, b.start <= d, d < b.start + 14 * (n + 1) + 14 PROVE Right(b)
    OBVIOUS
  <2>0. b.start \in Int
    BY DEF Anch
  <2>1. CASE d < b.start + 14
    <3>1. d < b.start + 14 * 0 + 14
      BY <2>0, <2>1
    <3> QED
      BY <1>3, <3>1
  <2>2. CASE ~ (d < b.start + 14)
    <3>1. Later(b) \in Anch /\ Later(b).start = b.start + 14
      BY Shift
    <3>2. Later(b).start <= d /\ d < Later(b).start + 14 * n + 14
      BY <2>0, <2>2, <3>1
    <3>3. Right(Later(b))
      BY <1>4, <3>1, <3>2
    <3>4. PICK k \in Nat : /\ f[Later(b)] = Nth(Later(b), k)
                           /\ Later(b).start + 14 * k <= d /\ d < Later(b).start + 14 * k + 14
      BY <3>3
    <3>5. f[b] = Nth(b, k + 1)
      BY <1>2, <2>2, <3>4, NthShift
    <3>6. b.start + 14 * (k + 1) <= d /\ d < b.start + 14 * (k + 1) + 14
      BY <2>0, <3>1, <3>4
    <3> QED
      BY <3>5, <3>6
  <2> QED
    BY <2>1, <2>2
<1>5. Nat \subseteq T
  <2> HIDE DEF T
  <2> QED
    BY <1>3, <1>4, UpTo
<1>6. d - a.start \in T /\ d < a.start + 14 * (d - a.start) + 14
  <2>1. d - a.start \in Nat /\ d < a.start + 14 * (d - a.start) + 14
    BY DEF Anch
  <2> HIDE DEF T
  <2> QED
    BY <1>5, <2>1
<1>7. Right(a)
  <2> HIDE DEF Right
  <2> QED
    BY <1>6
<1> QED
  BY <1>1, <1>7

\* What the loop of extrapolateBackward computes, again seen from the closed form.
StepsBack(f, d) ==
  f = [b \in Anch |-> LET p == Earlier(b)
                      IN IF p.start <= d THEN Sprint(p.year, p.number, p.start, b.start) ELSE f[p]]

LEMMA BackwardRec ==
  ASSUME NEW a \in Anch, NEW d \in Int
  PROVE  \E f : StepsBack(f, d) /\ Backward(a, d) = f[a]
<1> DEFINE far(b) == IF b.start - 14 <= d THEN 1 ELSE (b.start - d + 13) \div 14
           g == [b \in Anch |-> Nth(b, 0 - far(b))]
<1>1. ASSUME NEW b \in Anch, NEW p, p = Earlier(b)
      PROVE  g[b] = IF p.start <= d THEN Sprint(p.year, p.number, p.start, b.start) ELSE g[p]
  <2>0. b.start \in Int /\ g[b] = Nth(b, 0 - far(b))
    BY DEF Anch
  <2>1. p \in Anch /\ p.start = b.start - 14 /\ b.start = p.start + Length
    <3>1. p \in Anch /\ p.start = b.start - 14
      BY <1>1, Shift
    <3> QED
      BY <2>0, <3>1 DEF Length
  <2>2. CASE p.start <= d
    <3>1. far(b) = 1 /\ 0 - far(b) = 0 - 1
      BY <2>1, <2>2
    <3>2. Nth(b, 0 - 1) = Nth(p, 0)
      BY <1>1, NthShift
    <3>3. Nth(p, 0) = Sprint(p.year, p.number, p.start, b.start)
      BY <2>1, Zero
    <3> QED
      BY <2>0, <2>2, <3>1, <3>2, <3>3
  <2>3. CASE ~ (p.start <= d)
    <3>1. far(b) = far(p) + 1 /\ far(p) \in Int
      BY <2>0, <2>1, <2>3
    <3>2. g[p] = Nth(p, 0 - far(p))
      BY <2>1
    <3>3. g[p] = Nth(b, 0 - far(b))
      <4>1. 0 - far(p) \in Int /\ (0 - far(p)) - 1 = 0 - far(b)
        BY <3>1
      <4> HIDE DEF g, far
      <4> QED
        BY <1>1, <3>2, <4>1, NthShift
    <3> QED
      BY <2>0, <2>3, <3>3
  <2> QED
    BY <2>2, <2>3
<1>2. StepsBack(g, d)
  BY <1>1 DEF StepsBack
<1> HIDE DEF g
<1>3. StepsBack(CHOOSE f : StepsBack(f, d), d)
  BY <1>2
<1>4. Backward(a, d) = (CHOOSE f : StepsBack(f, d))[a]
  BY DEF Backward, StepsBack, Anch
<1> QED
  BY <1>3, <1>4

\* extrapolateBackward gives the sprint the day is in, counted back from the anchor.
LEMMA BackwardIs ==
  ASSUME NEW a \in Anch, NEW d \in Int, d < a.start
  PROVE  \E k \in Nat : /\ Backward(a, d) = Nth(a, 0 - k - 1)
                        /\ a.start - 14 * k - 14 <= d /\ d < a.start - 14 * k
<1>1. PICK f : StepsBack(f, d) /\ Backward(a, d) = f[a]
  BY BackwardRec
<1> DEFINE Right(b) == \E k \in Nat : /\ f[b] = Nth(b, 0 - k - 1)
                                      /\ b.start - 14 * k - 14 <= d /\ d < b.start - 14 * k
           T == {n \in Nat : \A b \in Anch : d < b.start /\ b.start - 14 * n - 14 <= d => Right(b)}
<1>2. ASSUME NEW b \in Anch
      PROVE  f[b] = IF b.start - 14 <= d THEN Nth(b, 0 - 0 - 1) ELSE f[Earlier(b)]
  <2>1. b.start \in Int
    BY DEF Anch
  <2>2. Earlier(b) \in Anch /\ Earlier(b).start = b.start - 14 /\ b.start = Earlier(b).start + Length
    <3>1. Earlier(b) \in Anch /\ Earlier(b).start = b.start - 14
      BY Shift
    <3> QED
      BY <2>1, <3>1 DEF Length
  <2>3. Nth(b, 0 - 0 - 1) = Sprint(Earlier(b).year, Earlier(b).number, Earlier(b).start, b.start)
    <3>1. Nth(Earlier(b), 0) = Nth(b, 0 - 1)
      BY NthShift
    <3> QED
      BY <2>2, <3>1, Zero
  <2>4. f[b] = IF Earlier(b).start <= d THEN Sprint(Earlier(b).year, Earlier(b).number, Earlier(b).start, b.start)
                                        ELSE f[Earlier(b)]
    BY <1>1 DEF StepsBack
  <2> QED
    BY <2>2, <2>3, <2>4
<1>3. 0 \in T
  <2> SUFFICES ASSUME NEW b \in Anch, d < b.start, b.start - 14 * 0 - 14 <= d PROVE Right(b)
    OBVIOUS
  <2>1. f[b] = Nth(b, 0 - 0 - 1) /\ b.start - 14 * 0 - 14 <= d /\ d < b.start - 14 * 0
    BY <1>2 DEF Anch
  <2> QED
    BY <2>1
<1>4. ASSUME NEW n \in Nat, n \in T PROVE n + 1 \in T
  <2> SUFFICES ASSUME NEW b \in Anch, d < b.start, b.start - 14 * (n + 1) - 14 <= d PROVE Right(b)
    OBVIOUS
  <2>0. b.start \in Int
    BY DEF Anch
  <2>1. CASE b.start - 14 <= d
    <3>1. b.start - 14 * 0 - 14 <= d
      BY <2>0, <2>1
    <3> QED
      BY <1>3, <3>1
  <2>2. CASE ~ (b.start - 14 <= d)
    <3>1. Earlier(b) \in Anch /\ Earlier(b).start = b.start - 14
      BY Shift
    <3>2. d < Earlier(b).start /\ Earlier(b).start - 14 * n - 14 <= d
      BY <2>0, <2>2, <3>1
    <3>3. Right(Earlier(b))
      BY <1>4, <3>1, <3>2
    <3>4. PICK k \in Nat : /\ f[Earlier(b)] = Nth(Earlier(b), 0 - k - 1)
                           /\ Earlier(b).start - 14 * k - 14 <= d /\ d < Earlier(b).start - 14 * k
      BY <3>3
    <3>5. PICK j \in Nat : j = k + 1
      OBVIOUS
    <3>6. f[b] = Nth(b, 0 - j - 1)
      <4>1. 0 - k - 1 \in Int /\ (0 - k - 1) - 1 = 0 - j - 1
        BY <3>5
      <4> QED
        BY <1>2, <2>2, <3>4, <4>1, NthShift
    <3>7. b.start - 14 * j - 14 <= d /\ d < b.start - 14 * j
      BY <2>0, <3>1, <3>4, <3>5
    <3> QED
      BY <3>6, <3>7
  <2> QED
    BY <2>1, <2>2
<1>5. Nat \subseteq T
  <2> HIDE DEF T
  <2> QED
    BY <1>3, <1>4, UpTo
<1>6. a.start - d \in T /\ a.start - 14 * (a.start - d) - 14 <= d
  <2>1. a.start - d \in Nat /\ a.start - 14 * (a.start - d) - 14 <= d
    BY DEF Anch
  <2> HIDE DEF T
  <2> QED
    BY <1>5, <2>1
<1>7. Right(a)
  <2> HIDE DEF Right
  <2> QED
    BY <1>6
<1> QED
  BY <1>1, <1>7

\* The three cases of Resolve: the sprint a day is in comes before the first anchor, after
\* the last one, or is that of an anchor and runs to the next.
BeforeAll(A, d, s) ==
  \E a \in Earliest(A), k \in Nat :
     s = Nth(a, 0 - k - 1) /\ a.start - 14 * k - 14 <= d /\ d < a.start - 14 * k
AfterAll(A, d, s) ==
  \E a \in Latest(A), k \in Nat :
     s = Nth(a, k) /\ a.start + 14 * k <= d /\ d < a.start + 14 * k + 14
Between(A, d, s) ==
  \E a \in Latest(Reached(A, d)), b \in Earliest(A \ Reached(A, d)) :
     s = Sprint(a.year, a.number, a.start, b.start) /\ a.start <= d /\ d < b.start

\* interpolate: a sprint runs from one anchor to the next.
LEMMA InterpolatedIs ==
  ASSUME NEW A, NEW d, NEW s \in Resolutions(A, d), Reached(A, d) # {}, Reached(A, d) # A
  PROVE  \E a \in Latest(Reached(A, d)), b \in Earliest(A \ Reached(A, d)) :
           s = Sprint(a.year, a.number, a.start, b.start)
BY DEF Resolutions

LEMMA ResolvedIs ==
  ASSUME NEW A \in SUBSET Anch, NEW d \in Int, NEW s \in Resolutions(A, d)
  PROVE  \/ Reached(A, d) = {} /\ BeforeAll(A, d, s)
         \/ Reached(A, d) # {} /\ Reached(A, d) = A /\ AfterAll(A, d, s)
         \/ Reached(A, d) # {} /\ Reached(A, d) # A /\ Between(A, d, s)
<1>1. CASE Reached(A, d) = {}
  <2>1. PICK a \in Earliest(A) : s = Backward(a, d)
    BY <1>1 DEF Resolutions
  <2>2. a \in A /\ a \in Anch /\ d < a.start
    BY <1>1 DEF Earliest, Reached, Anch
  <2> QED
    BY <1>1, <2>1, <2>2, BackwardIs DEF BeforeAll
<1>2. CASE Reached(A, d) # {} /\ Reached(A, d) = A
  <2>1. PICK a \in Latest(A) : s = Forward(a, d)
    BY <1>2 DEF Resolutions
  <2>2. a \in A /\ a \in Anch /\ a.start <= d
    BY <1>2 DEF Latest, Reached
  <2> QED
    BY <1>2, <2>1, <2>2, ForwardIs DEF AfterAll
<1>3. CASE Reached(A, d) # {} /\ Reached(A, d) # A
  <2>1. PICK a \in Latest(Reached(A, d)), b \in Earliest(A \ Reached(A, d)) :
           s = Sprint(a.year, a.number, a.start, b.start)
    BY <1>3, InterpolatedIs
  <2>2. a \in Reached(A, d) /\ b \in A /\ b \notin Reached(A, d) /\ b.start \in Int
    BY <2>1 DEF Latest, Earliest, Anch
  <2>3. a.start <= d /\ d < b.start
    BY <2>2 DEF Reached
  <2> QED
    BY <1>3, <2>1, <2>3 DEF Between
<1> QED
  BY <1>1, <1>2, <1>3

\* From one day to the next the sprint stays the same, or one ends where the other begins.
LEMMA Following ==
  ASSUME NEW A \in SUBSET Anch, Distinct(A), NEW d \in Int,
         NEW s \in Resolutions(A, d), NEW n \in Resolutions(A, d + 1)
  PROVE  Follow(s, n, d)
<1>0. \A a \in A : a \in Anch /\ a.start \in Int
  BY DEF Anch
<1>1. s.start <= d /\ d < s.end
  <2>1. ASSUME NEW a \in Earliest(A), NEW k \in Nat, s = Nth(a, 0 - k - 1),
               a.start - 14 * k - 14 <= d, d < a.start - 14 * k
        PROVE  s.start <= d /\ d < s.end
    <3>1. a \in Anch /\ a.start \in Int /\ 0 - k - 1 \in Int
      BY <1>0 DEF Earliest
    <3>2. s.start = a.start + 14 * (0 - k - 1) /\ s.end = a.start + 14 * (0 - k - 1) + 14
      BY <2>1, <3>1, NthStarts
    <3> QED
      BY <2>1, <3>1, <3>2
  <2>2. ASSUME NEW a \in Latest(A), NEW k \in Nat, s = Nth(a, k),
               a.start + 14 * k <= d, d < a.start + 14 * k + 14
        PROVE  s.start <= d /\ d < s.end
    <3>1. a \in Anch
      BY <1>0 DEF Latest
    <3> QED
      BY <2>2, <3>1, NthStarts
  <2>3. Between(A, d, s) => s.start <= d /\ d < s.end
    BY DEF Between, Sprint
  <2> QED
    BY <2>1, <2>2, <2>3, ResolvedIs DEF BeforeAll, AfterAll
<1>2. ASSUME NEW z \in A, z.start = d + 1
      PROVE  s.end = d + 1 /\ n.start = d + 1
  <2>1. z \notin Reached(A, d) /\ z \in Reached(A, d + 1)
    BY <1>2 DEF Reached
  <2>2. s.end = d + 1
    <3>1. ASSUME NEW a \in Earliest(A), NEW k \in Nat, s = Nth(a, 0 - k - 1), d < a.start - 14 * k
          PROVE  s.end = d + 1
      <4>1. a \in Anch /\ a.start \in Int /\ a.start <= z.start /\ 0 - k - 1 \in Int
        BY <1>0 DEF Earliest
      <4>2. s.end = a.start + 14 * (0 - k - 1) + 14
        BY <3>1, <4>1, NthStarts
      <4>3. k = 0 /\ a.start = d + 1
        BY <1>2, <3>1, <4>1
      <4> QED
        BY <4>2, <4>3
    <3>2. ASSUME NEW b \in Earliest(A \ Reached(A, d)), d < b.start, s.end = b.start
          PROVE  s.end = d + 1
      <4>1. b \in A /\ b.start <= z.start
        BY <2>1 DEF Earliest
      <4> QED
        BY <1>0, <1>2, <3>2, <4>1
    <3>3. ASSUME Between(A, d, s)
          PROVE  \E b \in Earliest(A \ Reached(A, d)) : d < b.start /\ s.end = b.start
      BY <3>3 DEF Between, Sprint
    <3> QED
      BY <2>1, <3>1, <3>2, <3>3, ResolvedIs DEF BeforeAll
  <2>3. n.start = d + 1
    <3>1. ASSUME NEW a \in Latest(A), NEW k \in Nat, n = Nth(a, k), a.start + 14 * k <= d + 1
          PROVE  n.start = d + 1
      <4>1. a \in Anch /\ a.start \in Int /\ z.start <= a.start
        BY <1>0 DEF Latest
      <4>2. n.start = a.start + 14 * k
        <5>1. k \in Int
          OBVIOUS
        <5> QED
          BY <3>1, <4>1, <5>1, NthStarts
      <4> QED
        BY <1>2, <3>1, <4>1, <4>2
    <3>2. ASSUME NEW a \in Latest(Reached(A, d + 1)), a.start <= d + 1, n.start = a.start
          PROVE  n.start = d + 1
      <4>1. a \in A /\ z.start <= a.start
        BY <2>1 DEF Latest, Reached
      <4> QED
        BY <1>0, <1>2, <3>2, <4>1
    <3>3. ASSUME Between(A, d + 1, n)
          PROVE  \E a \in Latest(Reached(A, d + 1)) : a.start <= d + 1 /\ n.start = a.start
      BY <3>3 DEF Between, Sprint
    <3> QED
      BY <2>1, <3>1, <3>2, <3>3, ResolvedIs DEF AfterAll
  <2> QED
    BY <2>2, <2>3
<1>3. ASSUME \A z \in A : z.start # d + 1
      PROVE  s = n \/ (n.start = d + 1 /\ s.end = d + 1)
  <2>0. Reached(A, d + 1) = Reached(A, d)
    BY <1>0, <1>3 DEF Reached
  <2>1. ASSUME BeforeAll(A, d, s), BeforeAll(A, d + 1, n)
        PROVE  s = n \/ (n.start = d + 1 /\ s.end = d + 1)
    <3>1. PICK a \in Earliest(A), k \in Nat :
             s = Nth(a, 0 - k - 1) /\ a.start - 14 * k - 14 <= d /\ d < a.start - 14 * k
      BY <2>1 DEF BeforeAll
    <3>2. PICK b \in Earliest(A), m \in Nat :
             n = Nth(b, 0 - m - 1) /\ b.start - 14 * m - 14 <= d + 1 /\ d + 1 < b.start - 14 * m
      BY <2>1 DEF BeforeAll
    <3>3. a = b /\ a \in Anch /\ a.start \in Int /\ 0 - k - 1 \in Int /\ 0 - m - 1 \in Int
      BY <1>0 DEF Earliest, Distinct
    <3>4. s.end = a.start + 14 * (0 - k - 1) + 14 /\ n.start = a.start + 14 * (0 - m - 1)
      BY <3>1, <3>2, <3>3, NthStarts
    <3>5. m = k \/ m = k - 1
      BY <3>1, <3>2, <3>3
    <3> QED
      BY <3>1, <3>2, <3>3, <3>4, <3>5
  <2>2. ASSUME AfterAll(A, d, s), AfterAll(A, d + 1, n)
        PROVE  s = n \/ (n.start = d + 1 /\ s.end = d + 1)
    <3>1. PICK a \in Latest(A), k \in Nat :
             s = Nth(a, k) /\ a.start + 14 * k <= d /\ d < a.start + 14 * k + 14
      BY <2>2 DEF AfterAll
    <3>2. PICK b \in Latest(A), m \in Nat :
             n = Nth(b, m) /\ b.start + 14 * m <= d + 1 /\ d + 1 < b.start + 14 * m + 14
      BY <2>2 DEF AfterAll
    <3>3. a = b /\ a \in Anch /\ a.start \in Int /\ k \in Int /\ m \in Int
      BY <1>0 DEF Latest, Distinct
    <3>4. s.end = a.start + 14 * k + 14 /\ n.start = a.start + 14 * m
      BY <3>1, <3>2, <3>3, NthStarts
    <3>5. m = k \/ m = k + 1
      BY <3>1, <3>2, <3>3
    <3> QED
      BY <3>1, <3>2, <3>3, <3>4, <3>5
  <2>3. ASSUME Between(A, d, s), Between(A, d + 1, n)
        PROVE  s = n
    <3>1. PICK a \in Latest(Reached(A, d)), b \in Earliest(A \ Reached(A, d)) :
             s = Sprint(a.year, a.number, a.start, b.start)
      BY <2>3 DEF Between
    <3>2. PICK e \in Latest(Reached(A, d)), f \in Earliest(A \ Reached(A, d)) :
             n = Sprint(e.year, e.number, e.start, f.start)
      BY <2>0, <2>3 DEF Between
    <3>3. a = e
      BY <1>0 DEF Latest, Reached, Distinct
    <3>4. b = f
      BY <1>0 DEF Earliest, Distinct
    <3> QED
      BY <3>1, <3>2, <3>3, <3>4
  <2>4. \/ Reached(A, d) = {} /\ BeforeAll(A, d, s)
        \/ Reached(A, d) # {} /\ Reached(A, d) = A /\ AfterAll(A, d, s)
        \/ Reached(A, d) # {} /\ Reached(A, d) # A /\ Between(A, d, s)
    BY ResolvedIs
  <2>5. \/ Reached(A, d) = {} /\ BeforeAll(A, d + 1, n)
        \/ Reached(A, d) # {} /\ Reached(A, d) = A /\ AfterAll(A, d + 1, n)
        \/ Reached(A, d) # {} /\ Reached(A, d) # A /\ Between(A, d + 1, n)
    BY <2>0, ResolvedIs
  <2> QED
    BY <2>1, <2>2, <2>3, <2>4, <2>5
<1> QED
  BY <1>1, <1>2, <1>3 DEF Follow

----------------------------------------------------------------------------
(* The administrator edits the anchors. *)

AnchorsKnown == place \in Places /\ anchors \subseteq Anchors

\* Every anchor was entered with a number from 1 to 26.
LEMMA NextAnchors == AnchorsKnown /\ [Next]_vars => AnchorsKnown'
<1> SUFFICES ASSUME AnchorsKnown, [Next]_vars PROVE AnchorsKnown'
  OBVIOUS
<1>1. place' = place
  BY DEF Next, vars, DeferTo, DeferTomorrow, DeferNextSprint, Defer, Undefer, AddAnchor, DeleteAnchor,
         Message, Tick, Forget, PageStep, Open, Look, Ask, Store, Build, Decide
<1>2. ASSUME NEW a \in place.anchors, AddAnchor(a) PROVE anchors' \subseteq Anchors
  <2>1. a \in Anchors
    BY ReviewsAssumption DEF AnchorsKnown
  <2> QED
    BY <1>2, <2>1 DEF AddAnchor, AnchorsKnown
<1>3. ASSUME NEW a, DeleteAnchor(a) PROVE anchors' \subseteq Anchors
  BY <1>3 DEF DeleteAnchor, AnchorsKnown
<1>4. CASE ~ (\E a \in place.anchors : AddAnchor(a)) /\ ~ (\E a \in anchors : DeleteAnchor(a))
  <2>1. anchors' = anchors
    BY <1>4 DEF Next, vars, DeferTo, DeferTomorrow, DeferNextSprint, Defer, Undefer,
                Message, Tick, Forget, PageStep, Open, Look, Ask, Store, Build, Decide
  <2> QED
    BY <1>1, <2>1 DEF AnchorsKnown
<1> QED
  BY <1>1, <1>2, <1>3, <1>4 DEF AnchorsKnown

LEMMA AnchorsAre == Anchors \subseteq Anch
BY ReviewsAssumption DEF Anch

LEMMA Days == Window \subseteq Int
BY AnchorsAre DEF Window, Anch

(* sprint.go: however many anchors there are and however they are edited,  *)
(* each day is in its sprint, and the sprints of two days next to each     *)
(* other are the same or the second begins where the first ends.           *)
THEOREM Sprinting == Spec => SprintsPartition
<1>1. Init => AnchorsKnown
  BY DEF Init, AnchorsKnown
<1>2. ASSUME AnchorsKnown, [Next]_vars, Distinct(anchors')
      PROVE  Partition(anchors')
  <2>1. anchors' \in SUBSET Anch
    BY <1>2, NextAnchors, AnchorsAre DEF AnchorsKnown
  <2> QED
    BY <1>2, <2>1, Days, Following DEF Partition
<1>3. AnchorsKnown /\ [Next]_vars =>
        [anchors' # anchors /\ anchors' # {} /\ Distinct(anchors') => Partition(anchors')]_anchors
  BY <1>2
<1> QED
  BY <1>1, <1>3, NextAnchors, PTL DEF Spec, SprintsPartition

----------------------------------------------------------------------------
\* The number and year of a sprint give back its place among all sprints.
LEMMA OrdinalOf ==
  ASSUME NEW a \in Anch, NEW k \in Int
  PROVE  Ordinal(Nth(a, k)) = Ordinal(a) + k /\ Ordinal(a) \in Int
<1>1. Ordinal(a) \in Int
  BY DEF Anch, Ordinal, PerYear
<1> DEFINE o == Ordinal(a) + k - 1
<1>2. o \in Int /\ o = 26 * (o \div 26) + (o % 26)
  BY <1>1
<1>3. Nth(a, k).year = o \div 26 /\ Nth(a, k).number = (o % 26) + 1
  BY DEF Nth, Sprint, PerYear
<1>4. o \div 26 \in Int /\ o % 26 \in Int
  BY <1>2
<1>5. Ordinal(Nth(a, k)) = (o \div 26) * 26 + ((o % 26) + 1)
  BY <1>3 DEF Ordinal, PerYear
<1>6. o + 1 = Ordinal(a) + k
  BY <1>1
<1> HIDE DEF o
<1>7. Ordinal(Nth(a, k)) = o + 1
  BY <1>2, <1>4, <1>5
<1> QED
  BY <1>1, <1>6, <1>7

\* With anchors numbered in the order of their dates, Resolve numbers sprints in that order.
LEMMA Ordered ==
  ASSUME NEW A \in SUBSET Anch, InOrder(A), Distinct(A), NEW a \in A, NEW b \in A
  PROVE  /\ Ordinal(a) \in Int /\ Ordinal(b) \in Int /\ a.start \in Int /\ b.start \in Int
         /\ a.start <= b.start => Ordinal(a) <= Ordinal(b)
         /\ Ordinal(a) = Ordinal(b) => a = b
<1>1. a \in Anch /\ b \in Anch
  OBVIOUS
<1>2. Ordinal(a) \in Int /\ Ordinal(b) \in Int /\ a.start \in Int /\ b.start \in Int
  BY <1>1 DEF Anch, Ordinal, PerYear
<1>3. a.start < b.start => Ordinal(a) < Ordinal(b)
  BY DEF InOrder
<1>4. b.start < a.start => Ordinal(b) < Ordinal(a)
  BY DEF InOrder
<1>5. a.start = b.start => a = b
  BY DEF Distinct
<1> QED
  BY <1>2, <1>3, <1>4, <1>5

\* Two sprints with one label are one sprint, wherever the days they were asked for lie.
LEMMA Telling ==
  ASSUME NEW A \in SUBSET Anch, InOrder(A), Distinct(A),
         NEW d \in Int, NEW e \in Int, NEW s \in Resolutions(A, d), NEW n \in Resolutions(A, e),
         Label(s) = Label(n)
  PROVE  s = n
<1>0. \A a \in A : a \in Anch /\ a.start \in Int /\ Ordinal(a) \in Int
  <2> TAKE a \in A
  <2> QED
    BY Ordered
<1>1. Ordinal(s) = Ordinal(n)
  BY DEF Label, Ordinal
<1> DEFINE Ahead(x) == \E a \in Earliest(A), k \in Nat : x = Nth(a, 0 - k - 1)
           Behind(x) == \E a \in Latest(A), k \in Nat : x = Nth(a, k)
           Inside(x, a, b) == /\ a \in A /\ b \in A /\ a.start < b.start
                              /\ \A c \in A : c.start <= a.start \/ b.start <= c.start
                              /\ x = Sprint(a.year, a.number, a.start, b.start)
           Kind(x) == Ahead(x) \/ Behind(x) \/ \E a, b \in A : Inside(x, a, b)
<1>2. ASSUME NEW f \in Int, NEW x \in Resolutions(A, f)
      PROVE  Kind(x)
  <2>1. ASSUME Between(A, f, x)
        PROVE  \E a, b \in A : Inside(x, a, b)
    <3>1. PICK a \in Latest(Reached(A, f)), b \in Earliest(A \ Reached(A, f)) :
             x = Sprint(a.year, a.number, a.start, b.start) /\ a.start <= f /\ f < b.start
      BY <2>1 DEF Between
    <3>2. a \in A /\ b \in A
      BY DEF Latest, Earliest, Reached
    <3>3. \A c \in A : c.start <= a.start \/ b.start <= c.start
      BY DEF Latest, Earliest, Reached
    <3>4. a.start < b.start
      BY <1>0, <3>1, <3>2
    <3> QED
      BY <3>1, <3>2, <3>3, <3>4
  <2>2. BeforeAll(A, f, x) => Ahead(x)
    BY DEF BeforeAll
  <2>3. AfterAll(A, f, x) => Behind(x)
    BY DEF AfterAll
  <2> QED
    BY <1>2, <2>1, <2>2, <2>3, ResolvedIs
<1>3. ASSUME NEW x, Ahead(x), NEW c \in A
      PROVE  Ordinal(x) \in Int /\ Ordinal(x) < Ordinal(c)
  <2>1. PICK a \in Earliest(A), k \in Nat : x = Nth(a, 0 - k - 1)
    BY <1>3
  <2>2. a \in A /\ a.start <= c.start /\ 0 - k - 1 \in Int
    BY DEF Earliest
  <2>3. Ordinal(x) = Ordinal(a) + (0 - k - 1)
    BY <1>0, <2>1, <2>2, OrdinalOf
  <2>4. Ordinal(a) <= Ordinal(c)
    BY <2>2, Ordered
  <2> QED
    BY <1>0, <2>2, <2>3, <2>4
<1>4. ASSUME NEW x, Behind(x), NEW c \in A
      PROVE  Ordinal(x) \in Int /\ Ordinal(c) <= Ordinal(x)
  <2>1. PICK a \in Latest(A), k \in Nat : x = Nth(a, k)
    BY <1>4
  <2>2. a \in A /\ c.start <= a.start /\ k \in Int
    BY DEF Latest
  <2>3. Ordinal(x) = Ordinal(a) + k
    BY <1>0, <2>1, <2>2, OrdinalOf
  <2>4. Ordinal(c) <= Ordinal(a)
    BY <2>2, Ordered
  <2> QED
    BY <1>0, <2>2, <2>3, <2>4
<1>5. ASSUME NEW x, NEW a, NEW b, Inside(x, a, b)
      PROVE  Ordinal(x) = Ordinal(a) /\ Ordinal(a) < Ordinal(b) /\ Ordinal(x) \in Int
  <2>1. Ordinal(x) = Ordinal(a)
    BY <1>5 DEF Ordinal, Sprint
  <2>2. Ordinal(a) < Ordinal(b)
    BY <1>5 DEF InOrder
  <2> QED
    BY <1>0, <1>5, <2>1, <2>2
<1>6. ASSUME Ahead(s), Ahead(n)
      PROVE  s = n
  <2>1. PICK a \in Earliest(A), k \in Nat : s = Nth(a, 0 - k - 1)
    BY <1>6
  <2>2. PICK b \in Earliest(A), m \in Nat : n = Nth(b, 0 - m - 1)
    BY <1>6
  <2>3. a = b /\ a \in A /\ 0 - k - 1 \in Int /\ 0 - m - 1 \in Int
    BY <1>0 DEF Earliest, Distinct
  <2>4. Ordinal(s) = Ordinal(a) + (0 - k - 1) /\ Ordinal(n) = Ordinal(a) + (0 - m - 1)
    BY <1>0, <2>1, <2>2, <2>3, OrdinalOf
  <2>5. k = m
    <3>1. Ordinal(a) \in Int
      BY <1>0, <2>3
    <3>2. k \in Nat /\ m \in Nat
      OBVIOUS
    <3>3. Ordinal(s) = Ordinal(n)
      BY <1>1
    <3> HIDE DEF Ahead, Behind, Inside, Kind
    <3> QED
      BY <2>4, <3>1, <3>2, <3>3
  <2> QED
    BY <2>1, <2>2, <2>3, <2>5
<1>7. ASSUME Behind(s), Behind(n)
      PROVE  s = n
  <2>1. PICK a \in Latest(A), k \in Nat : s = Nth(a, k)
    BY <1>7
  <2>2. PICK b \in Latest(A), m \in Nat : n = Nth(b, m)
    BY <1>7
  <2>3. a = b /\ a \in A /\ k \in Int /\ m \in Int
    BY <1>0 DEF Latest, Distinct
  <2>4. Ordinal(s) = Ordinal(a) + k /\ Ordinal(n) = Ordinal(a) + m
    BY <1>0, <2>1, <2>2, <2>3, OrdinalOf
  <2>5. k = m
    <3>1. Ordinal(a) \in Int
      BY <1>0, <2>3
    <3>2. k \in Nat /\ m \in Nat
      OBVIOUS
    <3>3. Ordinal(s) = Ordinal(n)
      BY <1>1
    <3> HIDE DEF Ahead, Behind, Inside, Kind
    <3> QED
      BY <2>4, <3>1, <3>2, <3>3
  <2> QED
    BY <2>1, <2>2, <2>3, <2>5
<1>8. ASSUME NEW a, NEW b, Inside(s, a, b), NEW f, NEW g, Inside(n, f, g)
      PROVE  s = n
  <2>1. Ordinal(a) = Ordinal(f)
    BY <1>1, <1>5, <1>8
  <2>2. a = f
    BY <1>8, <2>1, Ordered
  <2>3. b.start = g.start
    BY <1>0, <1>8, <2>2
  <2> QED
    BY <1>8, <2>2, <2>3
<1>9. ASSUME NEW x, NEW y, Ordinal(x) = Ordinal(y), Ahead(x)
      PROVE  ~ Behind(y) /\ \A a, b \in A : ~ Inside(y, a, b)
  <2>1. ASSUME Behind(y) PROVE FALSE
    <3>1. PICK a \in A : TRUE
      BY <1>9 DEF Earliest
    <3>2. Ordinal(x) < Ordinal(a) /\ Ordinal(a) <= Ordinal(y) /\ Ordinal(x) \in Int
      BY <1>3, <1>4, <1>9, <2>1
    <3> QED
      BY <1>0, <1>9, <3>2
  <2>2. ASSUME NEW a \in A, NEW b \in A, Inside(y, a, b) PROVE FALSE
    <3>1. Ordinal(x) < Ordinal(a) /\ Ordinal(y) = Ordinal(a)
      BY <1>3, <1>5, <1>9, <2>2
    <3> QED
      BY <1>0, <1>9, <3>1
  <2> QED
    BY <2>1, <2>2
<1>10. ASSUME NEW x, NEW y, Ordinal(x) = Ordinal(y), Behind(x), NEW a \in A, NEW b \in A, Inside(y, a, b)
       PROVE  FALSE
  <2>1. Ordinal(b) <= Ordinal(x) /\ Ordinal(y) = Ordinal(a) /\ Ordinal(a) < Ordinal(b) /\ Ordinal(x) \in Int
    BY <1>4, <1>5, <1>10
  <2> QED
    BY <1>0, <1>10, <2>1
<1>11. Kind(s) /\ Kind(n)
  BY <1>2
<1> HIDE DEF Ahead, Behind, Inside
<1> QED
  BY <1>1, <1>6, <1>7, <1>8, <1>9, <1>10, <1>11

(* dashboard.go:231: for any anchors numbered in the order of their dates, *)
(* the year and number that IsCurrentSprint compares tell any two sprints  *)
(* apart.                                                                  *)
THEOREM Numbering == Spec => NumbersTellApart
<1>1. Init => AnchorsKnown
  BY DEF Init, AnchorsKnown
<1>2. ASSUME AnchorsKnown, [Next]_vars, Distinct(anchors'), InOrder(anchors')
      PROVE  ToldApart(anchors')
  <2>1. anchors' \in SUBSET Anch
    BY <1>2, NextAnchors, AnchorsAre DEF AnchorsKnown
  <2> QED
    BY <1>2, <2>1, Days, Telling DEF ToldApart
<1>3. AnchorsKnown /\ [Next]_vars =>
        [anchors' # anchors /\ Distinct(anchors') /\ InOrder(anchors') => ToldApart(anchors')]_anchors
  BY <1>2
<1> QED
  BY <1>1, <1>3, NextAnchors, PTL DEF Spec, NumbersTellApart

----------------------------------------------------------------------------
(* Days.                                                                   *)

\* The quotient and what is left of it.
LEMMA Division ==
  ASSUME NEW x \in Int, NEW D \in Nat \ {0}
  PROVE  x \div D \in Int /\ D * (x \div D) <= x /\ x < D * (x \div D) + D
OBVIOUS

LEMMA Quotient ==
  ASSUME NEW x \in Int, NEW q \in Int, NEW D \in Nat \ {0}, D * q <= x, x < D * q + D
  PROVE  x \div D = q
OBVIOUS

LEMMA DivisionGrows ==
  ASSUME NEW x \in Int, NEW y \in Int, NEW D \in Nat \ {0}, x <= y
  PROVE  x \div D <= y \div D
OBVIOUS

LEMMA DivisionBelow ==
  ASSUME NEW x \in Int, NEW q \in Int, NEW D \in Nat \ {0}, x < q * D
  PROVE  x \div D < q
OBVIOUS

\* The zone is less than a day away from UTC; both it and the first weekday stay.
PlaceTyped == place \in Places

LEMMA ZoneIs ==
  ASSUME PlaceTyped
  PROVE  /\ place.zone \in Int /\ 0 - DayLength < place.zone /\ place.zone < DayLength
         /\ place.weekday \in Int /\ DayLength \in Nat \ {0} /\ Parts \in Nat \ {0}
<1>1. /\ place.zone \in Int /\ place.weekday \in 0..6
      /\ -DayLength < place.zone /\ place.zone < DayLength
  BY ReviewsAssumption DEF PlaceTyped
<1>2. DayLength \in Nat \ {0} /\ Parts \in Nat \ {0}
  BY ReviewsAssumption
<1>3. 0 - DayLength = -DayLength /\ place.weekday \in Int
  BY <1>1, <1>2
<1> QED
  BY <1>1, <1>2, <1>3

\* Midnight UTC of a day is that day in a zone at or east of Greenwich, the day before west of it.
LEMMA MidnightIs ==
  ASSUME PlaceTyped, NEW u \in Int
  PROVE  /\ u * DayLength \in Int
         /\ LocalDay(u * DayLength) = IF place.zone >= 0 THEN u ELSE u - 1
         /\ (u * DayLength + 0) \div DayLength = u
<1> DEFINE D == DayLength
           z == place.zone
<1>0. z \in Int /\ 0 - D < z /\ z < D /\ D \in Nat \ {0}
  BY ZoneIs
<1>1. u * D \in Int /\ D * u = u * D /\ D * (u - 1) = u * D - D
  BY <1>0
<1>2. CASE z >= 0
  <2>1. D * u <= u * D + z /\ u * D + z < D * u + D
    BY <1>0, <1>1, <1>2
  <2> QED
    BY <1>0, <1>1, <1>2, <2>1, Quotient DEF LocalDay
<1>3. CASE ~ (z >= 0)
  <2>1. D * (u - 1) <= u * D + z /\ u * D + z < D * (u - 1) + D
    BY <1>0, <1>1, <1>3
  <2> QED
    BY <1>0, <1>1, <1>3, <2>1, Quotient DEF LocalDay
<1>4. (u * D + 0) \div D = u
  BY <1>0, <1>1, Quotient
<1> QED
  BY <1>1, <1>2, <1>3, <1>4

\* The day in the server's zone is that in UTC, or the next one, or the one before.
LEMMA LocalIs ==
  ASSUME PlaceTyped, NEW t \in Int
  PROVE  /\ UTCDay(t) \in Int /\ LocalDay(t) \in Int
         /\ place.zone >= 0 => LocalDay(t) \in {UTCDay(t), UTCDay(t) + 1}
         /\ place.zone <= 0 => LocalDay(t) \in {UTCDay(t) - 1, UTCDay(t)}
<1> DEFINE D == DayLength
           z == place.zone
           u == t \div D
           v == (t + z) \div D
<1>0. z \in Int /\ 0 - D < z /\ z < D /\ D \in Nat \ {0} /\ t + z \in Int
  BY ZoneIs
<1>1. u \in Int /\ v \in Int /\ D * u <= t /\ t < D * u + D /\ D * v <= t + z /\ t + z < D * v + D
  BY <1>0, Division
<1>2. /\ D * (u + 1) = D * u + D /\ D * (u + 2) = D * u + D + D /\ D * (u - 1) = D * u - D
      /\ u + 1 \in Int /\ u + 2 \in Int /\ u - 1 \in Int /\ D * u \in Int
  BY <1>0, <1>1
<1> HIDE DEF u
<1>3. CASE t + z < D * u
  <2>0. D * (u - 1) <= t + z /\ t + z < D * (u - 1) + D
    BY <1>0, <1>1, <1>2, <1>3
  <2>1. v = u - 1
    BY <1>0, <1>2, <2>0, Quotient
  <2> QED
    BY <1>0, <1>1, <1>2, <1>3, <2>1 DEF UTCDay, LocalDay, u
<1>4. CASE D * u <= t + z /\ t + z < D * u + D
  <2>1. v = u
    BY <1>0, <1>1, <1>4, Quotient
  <2> QED
    BY <1>0, <1>1, <1>2, <1>4, <2>1 DEF UTCDay, LocalDay, u
<1>5. CASE D * u + D <= t + z
  <2>0. D * (u + 1) <= t + z /\ t + z < D * (u + 1) + D
    BY <1>0, <1>1, <1>2, <1>5
  <2>1. v = u + 1
    BY <1>0, <1>2, <2>0, Quotient
  <2> QED
    BY <1>0, <1>1, <1>2, <1>5, <2>1 DEF UTCDay, LocalDay, u
<1> QED
  BY <1>0, <1>1, <1>2, <1>3, <1>4, <1>5

\* Of three days one is a working day.
LEMMA Workdays ==
  ASSUME PlaceTyped, NEW d \in Int
  PROVE  ~ Weekend(d) \/ ~ Weekend(d + 1) \/ ~ Weekend(d + 2)
BY ZoneIs DEF Weekend, Weekday

\* The first working day after d.
First(d, e) == e \in d + 1..d + 3 /\ ~ Weekend(e) /\ \A f \in d + 1..e - 1 : Weekend(f)

LEMMA FirstIs ==
  ASSUME PlaceTyped, NEW d \in Int
  PROVE  First(d, NextWorkday(d)) /\ \A e : First(d, e) => e = NextWorkday(d)
<1>1. \E e : First(d, e)
  <2>1. CASE ~ Weekend(d + 1)
    <3>1. First(d, d + 1)
      BY <2>1 DEF First
    <3> QED
      BY <3>1
  <2>2. CASE Weekend(d + 1) /\ ~ Weekend(d + 2)
    <3>1. First(d, d + 2)
      BY <2>2 DEF First
    <3> QED
      BY <3>1
  <2>3. CASE Weekend(d + 1) /\ Weekend(d + 2) /\ ~ Weekend(d + 3)
    <3>1. First(d, d + 3)
      BY <2>3 DEF First
    <3> QED
      BY <3>1
  <2>4. ~ Weekend(d + 1) \/ ~ Weekend(d + 2) \/ ~ Weekend(d + 3)
    <3>1. d + 1 \in Int /\ (d + 1) + 1 = d + 2 /\ (d + 1) + 2 = d + 3
      OBVIOUS
    <3> QED
      BY <3>1, Workdays
  <2> QED
    BY <2>1, <2>2, <2>3, <2>4
<1>2. First(d, NextWorkday(d))
  BY <1>1 DEF First, NextWorkday
<1>3. ASSUME NEW e, NEW f, First(d, e), First(d, f) PROVE e = f
  BY <1>3 DEF First
<1> QED
  BY <1>2, <1>3

\* The date of "tomorrow" is the next working day as the zone has it, counted from the day
\* in UTC: from the day before where the zone is west of Greenwich.
LEMMA TomorrowIs ==
  ASSUME PlaceTyped, NEW t \in Int
  PROVE  /\ NextWeekday(t) \in Int
         /\ First(IF place.zone >= 0 THEN UTCDay(t) ELSE UTCDay(t) - 1, LocalDay(NextWeekday(t)))
<1> DEFINE u == UTCDay(t)
           days == {i \in 1..3 : ~ Weekend(LocalDay((u + i) * DayLength))}
           base == IF place.zone >= 0 THEN u ELSE u - 1
<1>0. u \in Int /\ place.zone \in Int
  BY LocalIs, ZoneIs
<1>1. \A i \in 1..3 : (u + i) * DayLength \in Int /\ LocalDay((u + i) * DayLength) = base + i
  BY <1>0, MidnightIs
<1>2. base \in Int
  BY <1>0
<1> HIDE DEF u, base
<1>3. days = {i \in 1..3 : ~ Weekend(base + i)}
  BY <1>1
<1>4. \E i \in days : \A j \in days : i <= j
  <2>1. ~ Weekend(base + 1) \/ ~ Weekend(base + 2) \/ ~ Weekend(base + 3)
    <3>1. base + 1 \in Int /\ (base + 1) + 1 = base + 2 /\ (base + 1) + 2 = base + 3
      BY <1>2
    <3> QED
      BY <3>1, Workdays
  <2>2. CASE 1 \in days
    BY <2>2
  <2>3. CASE 1 \notin days /\ 2 \in days
    BY <2>3
  <2>4. CASE 1 \notin days /\ 2 \notin days /\ 3 \in days
    BY <2>4
  <2> QED
    BY <1>3, <2>1, <2>2, <2>3, <2>4
<1>5. PICK i \in days : /\ \A j \in days : i <= j
                        /\ NextWeekday(t) = (u + i) * DayLength
  BY <1>4 DEF NextWeekday, u
<1>6. i \in 1..3 /\ ~ Weekend(base + i) /\ \A f \in base + 1..base + i - 1 : Weekend(f)
  <2>1. i \in 1..3 /\ ~ Weekend(base + i)
    BY <1>3
  <2>2. ASSUME NEW f \in base + 1..base + i - 1 PROVE Weekend(f)
    <3>1. f - base \in 1..3 /\ f - base < i /\ base + (f - base) = f
      BY <1>2, <2>1
    <3>2. f - base \notin days
      <4>1. f - base \in Int /\ i \in Int
        BY <3>1, <2>1
      <4> HIDE DEF days
      <4> QED
        BY <1>5, <3>1, <4>1
    <3> QED
      BY <1>3, <3>1, <3>2
  <2> QED
    BY <2>1, <2>2
<1>7. LocalDay(NextWeekday(t)) = base + i /\ NextWeekday(t) \in Int
  BY <1>1, <1>5, <1>6
<1>8. base + i \in base + 1..base + 3
  BY <1>2, <1>6
<1>9. First(base, base + i)
  <2> HIDE DEF days
  <2> QED
    BY <1>2, <1>6, <1>8 DEF First
<1>10. First(base, LocalDay(NextWeekday(t)))
  BY <1>7, <1>9
<1> QED
  BY <1>7, <1>10 DEF base, u

----------------------------------------------------------------------------
(* The review of the ticket.                                               *)

Rows   == [at : Int \cup {None}, zone : Int, deferred : Int \cup {None}]
Ways   == {"none", "date", "tomorrow", "sprint"}
Wishes == [day : Int \cup {None}, at : Int, how : Ways]
PageSteps == {"closed", "look", "ask", "store", "known", "shown"}
UsualSections == {"assigned", "historic", "unassigned"}
Board  == [step : PageSteps, row : Rows, wish : Wishes, start : Int, got : Nat \cup {None},
           asof : Int, usual : {"none"} \cup UsualSections,
           sections : SUBSET ({"review_now", "for_later"} \cup UsualSections)]
Messages == [kind : {"client", "other"}, at : Int]

\* The day a row is put off to is the day asked for; on a server whose zone is not UTC
\* "tomorrow" can be an earlier one.
Right(r, w) ==
  r.at # None =>
    /\ r.deferred = Sec(w.at) /\ w.day \in Int
    /\ ReviewDay(r) <= w.day
    /\ CutEarly(w) \/ ReviewDay(r) = w.day
RowRight == row \in Rows /\ wish \in Wishes /\ Right(row, wish)

\* Conversations are in the order of time.
ConvsRight ==
  /\ convs \in Seq(Messages)
  /\ \A i, j \in 1..Len(convs) : i <= j => convs[i].at <= convs[j].at
  /\ \A i \in 1..Len(convs) : convs[i].at <= Sec(now)
\* What the first n conversations lack came in second s or later.
Lacks(n, s) == \A i \in 1..Len(convs) : i > n => convs[i].at >= s
\* None of them is a reply later than s.
Quiet(n, s) == \A i \in 1..n : convs[i].kind = "client" => ~ (convs[i].at > s)

\* Whoever stored it, and whatever was stored before, an entry lacks nothing that came
\* more than CallTime before its stamp.
CachedRight ==
  cached # None =>
    /\ cached.count \in Nat /\ cached.count <= Len(convs)
    /\ cached.at \in Int /\ cached.at <= Sec(now)
    /\ Lacks(cached.count, cached.at - CallTime)

\* Where a board shows a ticket with a review date: outside Review Now only one whose day had
\* not come and of whose replies it has none; inside, or in its usual section, only one whose
\* day has come or whose client has replied.
Settled(b) ==
  /\ \/ "review_now" \in b.sections
     \/ LocalDay(b.start) < ReviewDay(b.row) /\ (b.got # None => Quiet(b.got, b.row.deferred))
  /\ \/ b.sections = {"for_later"}
     \/ ReviewDay(b.row) <= Today
     \/ \E i \in 1..Len(convs) : convs[i].kind = "client" /\ convs[i].at > b.row.deferred

\* An answer on its way is younger than CallTime; conversations a board has are those of its
\* start, or of an entry it could trust then.
Bound(b) == Sec(b.start) - ConvAge - CallTime + 1
OnItsWay(b) ==
  /\ b.got # None
  /\ b.start <= b.asof /\ b.asof <= now /\ now <= b.asof + CallTime * Parts
  /\ Lacks(b.got, Sec(b.asof))
BoardRight(b) ==
  /\ b \in Board /\ Right(b.row, b.wish) /\ b.start <= now
  /\ b.got # None => b.got <= Len(convs)
  /\ b.step = "store" => OnItsWay(b)
  /\ b.step \in {"known", "shown"} /\ b.got # None => Lacks(b.got, Bound(b))
  /\ b.usual # "none" /\ b.step # "shown" => b.row.at # None /\ LocalDay(b.start) < ReviewDay(b.row)
  /\ Shown(b) => Settled(b)
PagesRight == page \in [Pages -> Board] /\ \A p \in Pages : BoardRight(page[p])

ReviewRight ==
  AnchorsKnown /\ now \in Nat /\ PlaceTyped /\ RowRight /\ ConvsRight /\ CachedRight /\ PagesRight

\* Seconds are whole, do not run back, and are less than q before q seconds are over.
LEMMA SecIs ==
  ASSUME NEW t \in Int
  PROVE  /\ Sec(t) \in Int
         /\ \A u \in Int : t <= u => Sec(t) <= Sec(u)
         /\ \A q \in Int : t < q * Parts => Sec(t) < q
<1>1. Parts \in Nat \ {0}
  BY ReviewsAssumption
<1>2. Sec(t) \in Int /\ \A u \in Int : t <= u => Sec(t) <= Sec(u)
  BY <1>1, Division, DivisionGrows DEF Sec
<1>3. ASSUME NEW q \in Int, t < q * Parts PROVE Sec(t) < q
  BY <1>1, <1>3, DivisionBelow DEF Sec
<1> QED
  BY <1>2, <1>3

\* What is no more than c seconds after t is in one of the c seconds after that of t.
LEMMA Within ==
  ASSUME NEW t \in Int, NEW u \in Int, NEW c \in Nat, u <= t + c * Parts
  PROVE  Sec(u) - c <= Sec(t)
<1> DEFINE P == Parts
           s == t \div P
<1>1. P \in Nat \ {0}
  BY ReviewsAssumption
<1>2. s \in Int /\ t < P * s + P
  BY <1>1, Division
<1> HIDE DEF s
<1>3. (s + c + 1) * P = P * s + c * P + P /\ s + c + 1 \in Int
  BY <1>1, <1>2
<1>4. u < (s + c + 1) * P
  <2>1. P * s \in Int /\ c * P \in Int
    BY <1>1, <1>2
  <2> QED
    BY <1>1, <1>2, <1>3, <2>1
<1>5. Sec(u) < s + c + 1 /\ Sec(u) \in Int
  BY <1>3, <1>4, SecIs
<1> QED
  BY <1>2, <1>5 DEF s, Sec

\* Days do not run back either, and review days are days.
LEMMA DaysGrow ==
  ASSUME PlaceTyped, NEW t \in Int, NEW u \in Int, t <= u
  PROVE  LocalDay(t) \in Int /\ LocalDay(u) \in Int /\ LocalDay(t) <= LocalDay(u)
<1>1. place.zone \in Int /\ DayLength \in Nat \ {0}
  BY ZoneIs
<1>2. t + place.zone \in Int /\ u + place.zone \in Int /\ t + place.zone <= u + place.zone
  BY <1>1
<1>3. (t + place.zone) \div DayLength <= (u + place.zone) \div DayLength
  BY <1>1, <1>2, DivisionGrows
<1> QED
  BY <1>3, LocalIs DEF LocalDay

LEMMA ReviewDayIs ==
  ASSUME NEW r \in Rows, r.at # None
  PROVE  ReviewDay(r) \in Int
<1>1. r.at \in Int /\ r.zone \in Int /\ DayLength \in Nat \ {0}
  BY ReviewsAssumption DEF Rows
<1> QED
  BY <1>1, Division DEF ReviewDay

\* "Tomorrow" can come early.
OffUTC(t) ==
  \/ place.zone > 0 /\ LocalDay(t) # UTCDay(t)
  \/ place.zone < 0 /\ LocalDay(t) = UTCDay(t)

\* What a deferral writes.
LEMMA Deferring ==
  ASSUME ReviewRight, NEW review \in Int, NEW z \in Int, NEW want \in Int, NEW how \in Ways,
         Defer(review, z, want, how),
         NEW day \in Int, day = (review + z) \div DayLength, day <= want,
         day = want \/ (how = "tomorrow" /\ OffUTC(now))
  PROVE  RowRight'
<1>1. /\ row' = [at |-> review, zone |-> z, deferred |-> Sec(now)]
      /\ wish' = [day |-> want, at |-> now, how |-> how] /\ place' = place /\ now \in Int
  BY DEF Defer, ReviewRight
<1>2. row' \in Rows /\ wish' \in Wishes
  BY <1>1, SecIs DEF Rows, Wishes, Ways
<1>3. ReviewDay(row') = day /\ row'.deferred = Sec(wish'.at) /\ wish'.day = want
  BY <1>1 DEF ReviewDay
<1>4. day # want => CutEarly(wish)'
  <2>1. OffUTC(now) => OffUTC(wish.at)'
    BY <1>1 DEF OffUTC, LocalDay, UTCDay
  <2>2. wish'.how = how
    BY <1>1
  <2>3. wish'.how = "tomorrow" /\ OffUTC(wish.at)' => CutEarly(wish)'
    BY DEF CutEarly, OffUTC
  <2> QED
    BY <2>1, <2>2, <2>3
<1> QED
  BY <1>2, <1>3, <1>4 DEF RowRight, Right, ReviewDay, Sec

\* The day the next sprint starts.
LEMMA EndIsInt ==
  ASSUME AnchorsKnown, NEW d \in Int, NEW e \in NextStarts(anchors, d)
  PROVE  e \in Int
<1>0. anchors \in SUBSET Anch
  BY AnchorsAre DEF AnchorsKnown
<1>1. PICK s \in Resolutions(anchors, d) : e = s.end
  BY DEF NextStarts
<1>2. ASSUME BeforeAll(anchors, d, s) PROVE s.end \in Int
  <2>1. PICK a \in Earliest(anchors), k \in Nat : s = Nth(a, 0 - k - 1)
    BY <1>2 DEF BeforeAll
  <2>2. a \in Anch /\ a.start \in Int /\ 0 - k - 1 \in Int
    BY <1>0 DEF Earliest, Anch
  <2>3. s.end = a.start + 14 * (0 - k - 1) + 14
    BY <2>1, <2>2, NthStarts
  <2> QED
    BY <2>2, <2>3
<1>3. ASSUME AfterAll(anchors, d, s) PROVE s.end \in Int
  <2>1. PICK a \in Latest(anchors), k \in Nat : s = Nth(a, k)
    BY <1>3 DEF AfterAll
  <2>2. a \in Anch /\ a.start \in Int /\ k \in Int
    BY <1>0 DEF Latest, Anch
  <2>3. s.end = a.start + 14 * k + 14
    BY <2>1, <2>2, NthStarts
  <2> QED
    BY <2>2, <2>3
<1>4. ASSUME Between(anchors, d, s) PROVE s.end \in Int
  <2>1. PICK b \in Earliest(anchors \ Reached(anchors, d)) : s.end = b.start
    BY <1>4 DEF Between, Sprint
  <2> QED
    BY <1>0, <2>1 DEF Earliest, Anch
<1>5. BeforeAll(anchors, d, s) \/ AfterAll(anchors, d, s) \/ Between(anchors, d, s)
  BY <1>0, ResolvedIs
<1> QED
  BY <1>1, <1>2, <1>3, <1>4, <1>5

\* A row stays right as long as the server is where it is.
LEMMA RightStays ==
  ASSUME NEW r, NEW w, Right(r, w), place' = place
  PROVE  Right(r, w)'
BY DEF Right, ReviewDay, CutEarly, Sec, LocalDay, UTCDay

\* Of the three deferrals only "tomorrow" can miss its day, and only off UTC.
LEMMA RowStep == ReviewRight /\ [Next]_vars => RowRight'
<1> SUFFICES ASSUME ReviewRight, [Next]_vars PROVE RowRight'
  OBVIOUS
<1>0. PlaceTyped /\ AnchorsKnown /\ RowRight /\ now \in Int /\ Today \in Int
  BY LocalIs DEF ReviewRight, Today
<1>1. ASSUME NEW d \in place.dates, DeferTo(d) PROVE RowRight'
  <2>1. d \in Int
    BY <1>0, ReviewsAssumption DEF PlaceTyped
  <2>2. d * DayLength \in Int /\ (d * DayLength + 0) \div DayLength = d 
    BY <1>0, <2>1, MidnightIs
  <2>3. Defer(d * DayLength, 0, d, "date") /\ 0 \in Int /\ "date" \in Ways
    BY <1>1 DEF DeferTo, Ways
  <2> QED
    BY <2>1, <2>2, <2>3, Deferring
<1>2. CASE DeferNextSprint
  <2>1. PICK d \in NextStarts(anchors, Today) : Defer(d * DayLength, 0, d, "sprint")
    BY <1>2 DEF DeferNextSprint
  <2>2. d \in Int
    BY <1>0, EndIsInt
  <2>3. d * DayLength \in Int /\ (d * DayLength + 0) \div DayLength = d 
    BY <1>0, <2>2, MidnightIs
  <2>4. 0 \in Int /\ "sprint" \in Ways
    BY DEF Ways
  <2> QED
    BY <2>1, <2>2, <2>3, <2>4, Deferring
<1>3. CASE DeferTomorrow
  <2> DEFINE u == UTCDay(now)
             base == IF place.zone >= 0 THEN u ELSE u - 1
             day == LocalDay(NextWeekday(now))
             want == NextWorkday(Today)
  <2>0. u \in Int /\ place.zone \in Int /\ base \in Int
    BY <1>0, LocalIs, ZoneIs
  <2>1. First(base, day) /\ First(Today, want)
    BY <1>0, TomorrowIs, FirstIs
  <2>2. Today \in {base, base + 1} /\ (place.zone >= 0 => Today \in {u, u + 1})
        /\ (~ (place.zone >= 0) => Today \in {u - 1, u})
    BY <1>0, <2>0, LocalIs DEF Today
  <2> HIDE DEF base, want, day, u
  <2>3. day \in Int /\ want \in Int
    BY <1>0, <2>0, <2>1 DEF First
  <2>4. Today = base => day = want
    BY <1>0, <2>1, FirstIs
  <2>5. day <= want
    <3>1. CASE Today = base
      BY <2>3, <2>4, <3>1
    <3>2. CASE Today = base + 1 /\ want < day
      <4>1. want \in base + 1..day - 1 /\ ~ Weekend(want)
        BY <2>0, <2>1, <2>3, <3>2 DEF First
      <4> QED
        BY <2>1, <4>1 DEF First
    <3> QED
      BY <2>2, <2>3, <3>1, <3>2
  <2>6. day = want \/ OffUTC(now)
    <3>1. CASE Today = base
      BY <2>4, <3>1
    <3>2. CASE Today = base + 1 /\ place.zone < 0
      BY <2>0, <3>2 DEF base, u, Today, OffUTC
    <3>3. CASE Today = base + 1 /\ place.zone > 0
      BY <2>0, <3>3 DEF base, u, Today, OffUTC
    <3>4. CASE Today = base + 1 /\ place.zone = 0
      <4>1. Today \in {u - 1, u}
        BY <1>0, <2>0, <3>4, LocalIs DEF u, Today
      <4> QED
        BY <2>0, <3>4, <4>1 DEF base
    <3> QED
      BY <2>0, <2>2, <3>1, <3>2, <3>3, <3>4
  <2>7. Defer(NextWeekday(now), place.zone, want, "tomorrow")
    BY <1>3 DEF DeferTomorrow, want
  <2>8. day = (NextWeekday(now) + place.zone) \div DayLength
    BY DEF day, LocalDay
  <2>9. ASSUME NEW r, NEW z, r = NextWeekday(now), z = place.zone
        PROVE  RowRight'
    <3>1. Defer(r, z, want, "tomorrow") /\ day = (r + z) \div DayLength
      BY <2>7, <2>8, <2>9
    <3>2. r \in Int /\ z \in Int 
      BY <1>0, <2>0, <2>9, TomorrowIs
    <3>3. "tomorrow" \in Ways
      BY DEF Ways
    <3> QED
      BY <2>3, <2>5, <2>6, <3>1, <3>2, <3>3, Deferring
  <2> QED
    BY <2>9
<1>4. CASE Undefer
  <2>1. row' = NoReview /\ wish' = NoWish
    BY <1>4 DEF Undefer
  <2> QED
    BY <2>1 DEF RowRight, Right, NoReview, NoWish, Rows, Wishes, Ways
<1>5. ASSUME UNCHANGED <<row, wish, place>> PROVE RowRight'
  <2>1. Right(row, wish)'
    BY <1>0, <1>5 DEF RowRight, Right, ReviewDay, CutEarly, Sec, LocalDay, UTCDay
  <2> QED
    BY <1>0, <1>5, <2>1 DEF RowRight
<1>6. ASSUME NEW a, AddAnchor(a) \/ DeleteAnchor(a) PROVE RowRight'
  BY <1>5, <1>6 DEF AddAnchor, DeleteAnchor
<1>7. ASSUME NEW kind, Message(kind) PROVE RowRight'
  BY <1>5, <1>7 DEF Message
<1>8. ASSUME NEW p, PageStep(p) PROVE RowRight'
  BY <1>5, <1>8 DEF PageStep, Open, Look, Ask, Store, Build, Decide
<1>9. CASE Tick \/ Forget \/ UNCHANGED vars
  BY <1>5, <1>9 DEF Tick, Forget, vars
<1> QED
  BY <1>1, <1>2, <1>3, <1>4, <1>6, <1>7, <1>8, <1>9 DEF Next

----------------------------------------------------------------------------
(* The conversations and the boards.                                       *)

\* The facts of the invariant that every step needs.
LEMMA Known ==
  ASSUME ReviewRight
  PROVE  /\ now \in Int /\ Sec(now) \in Int /\ Today \in Int /\ PlaceTyped
         /\ convs \in Seq(Messages) /\ Len(convs) \in Nat
         /\ \A i \in 1..Len(convs) : convs[i].at \in Int /\ convs[i].at <= Sec(now)
         /\ ConvAge \in Nat \ {0} /\ CallTime \in Nat /\ Parts \in Nat \ {0}
         /\ page \in [Pages -> Board] /\ \A p \in Pages : BoardRight(page[p]) /\ page[p] \in Board
<1>1. now \in Int /\ PlaceTyped
  BY DEF ReviewRight
<1>2. Sec(now) \in Int /\ Today \in Int
  BY <1>1, SecIs, LocalIs DEF Today
<1>3. convs \in Seq(Messages) /\ \A i \in 1..Len(convs) : convs[i].at <= Sec(now)
  BY DEF ReviewRight, ConvsRight
<1>4. \A i \in 1..Len(convs) : convs[i] \in Messages
  BY <1>3
<1>5. \A i \in 1..Len(convs) : convs[i].at \in Int
  BY <1>4 DEF Messages
<1>6. page \in [Pages -> Board] /\ \A p \in Pages : BoardRight(page[p]) /\ page[p] \in Board
  BY DEF ReviewRight, PagesRight
<1>7. ConvAge \in Nat \ {0} /\ CallTime \in Nat /\ Parts \in Nat \ {0} /\ Len(convs) \in Nat
  BY <1>3, ReviewsAssumption
<1> QED
  BY <1>1, <1>2, <1>3, <1>5, <1>6, <1>7

\* Lacking what is late is lacking what is later than something earlier.
LEMMA LacksLess ==
  ASSUME ReviewRight, NEW n, NEW s \in Int, NEW q \in Int, q <= s, Lacks(n, s)
  PROVE  Lacks(n, q)
BY Known DEF Lacks

\* The last seconds a board can rely on have begun.
LEMMA BoundIs ==
  ASSUME ReviewRight, NEW b \in Board, b.start <= now
  PROVE  /\ Bound(b) \in Int /\ Bound(b) <= Sec(b.start) /\ Sec(b.start) <= Sec(now)
         /\ Sec(b.start) \in Int /\ b.start \in Int
<1>1. b.start \in Int
  BY DEF Board
<1>2. /\ Sec(b.start) \in Int /\ Sec(b.start) <= Sec(now) /\ Sec(now) \in Int
      /\ ConvAge \in Nat \ {0} /\ CallTime \in Nat
  BY <1>1, Known, SecIs
<1>3. Bound(b) \in Int /\ Bound(b) <= Sec(b.start)
  BY <1>2 DEF Bound
<1> QED
  BY <1>1, <1>2, <1>3

\* What is right of a board stays right while only other things change.
LEMMA BoardStays ==
  ASSUME NEW b, BoardRight(b), now' = now, place' = place, convs' = convs
  PROVE  BoardRight(b)'
<1>1. Right(b.row, b.wish)'
  BY RightStays DEF BoardRight
<1>2. Settled(b) => Settled(b)'
  BY DEF Settled, LocalDay, ReviewDay, Quiet, Today
<1>3. OnItsWay(b) => OnItsWay(b)'
  BY DEF OnItsWay, Lacks, Sec
<1>4. /\ Lacks(b.got, Bound(b)) => Lacks(b.got, Bound(b))'
      /\ LocalDay(b.start) < ReviewDay(b.row) => (LocalDay(b.start) < ReviewDay(b.row))'
      /\ Shown(b)' = Shown(b)
  BY DEF Lacks, Bound, Sec, LocalDay, ReviewDay, Shown
<1> QED
  BY <1>1, <1>2, <1>3, <1>4 DEF BoardRight

LEMMA CachedStays ==
  ASSUME ReviewRight, now' = now, convs' = convs, cached' = cached
  PROVE  ConvsRight' /\ CachedRight'
BY DEF ReviewRight, ConvsRight, CachedRight, Lacks, Sec

\* A board that takes a step: all others are as they were.
LEMMA OneBoard ==
  ASSUME ReviewRight, NEW p \in Pages, NEW b, page' = [page EXCEPT ![p] = b],
         now' = now, place' = place, convs' = convs, BoardRight(b)
  PROVE  PagesRight'
<1>1. b \in Board /\ page' \in [Pages -> Board]
  BY Known DEF BoardRight
<1>2. ASSUME NEW q \in Pages, NEW c, c = page'[q] PROVE BoardRight(page[q])'
  <2>1. BoardRight(c)
    <3>1. CASE q = p
      BY <1>2, <3>1, Known
    <3>2. CASE q # p
      BY <1>2, <3>2, Known
    <3> QED
      BY <3>1, <3>2
  <2>2. BoardRight(c)'
    BY <2>1, BoardStays
  <2> QED
    BY <1>2, <2>2 DEF BoardRight, OnItsWay, Shown, Settled, Bound
<1>3. \A q \in Pages : BoardRight(page[q])'
  BY <1>2
<1> QED
  BY <1>1, <1>3 DEF PagesRight

\* A board starts with the row as it is.
LEMMA OpenStep ==
  ASSUME ReviewRight, NEW p \in Pages, Open(p)
  PROVE  PagesRight'
<1> DEFINE b == [Closed EXCEPT !.step = "look", !.row = row, !.wish = wish, !.start = now]
<1>1. Closed \in Board
  BY DEF Closed, Board, NoReview, NoWish, Rows, Wishes, Ways, PageSteps
<1>2. row \in Rows /\ wish \in Wishes /\ Right(row, wish) /\ now \in Int
  BY DEF ReviewRight, RowRight
<1>3. /\ b \in Board /\ b.step = "look" /\ b.row = row /\ b.wish = wish /\ b.start = now
      /\ b.got = Closed.got /\ b.usual = Closed.usual
  BY <1>1, <1>2 DEF Board, PageSteps
<1>6. Closed.got = None /\ Closed.usual = "none"
  BY DEF Closed
<1> HIDE DEF b
<1>4. BoardRight(b)
  BY <1>2, <1>3, <1>6 DEF BoardRight, Shown
<1>5. page' = [page EXCEPT ![p] = b] /\ now' = now /\ place' = place /\ convs' = convs
  BY DEF Open, b
<1> QED
  BY <1>4, <1>5, OneBoard

\* Conversations found in the cache, or an answer that nothing is stored of.
LEMMA KnowsStep ==
  ASSUME ReviewRight, NEW p \in Pages, NEW n \in Nat \cup {None}, Knows(p, n), page[p].step # "shown",
         now' = now, place' = place, convs' = convs,
         n # None => n <= Len(convs) /\ Lacks(n, Bound(page[p]))
  PROVE  PagesRight'
<1> DEFINE o == page[p]
           b == [o EXCEPT !.step = "known", !.got = n]
<1>1. o \in Board /\ BoardRight(o)
  BY Known
<1>2. /\ b \in Board /\ b.step = "known" /\ b.got = n /\ b.row = o.row /\ b.wish = o.wish
      /\ b.start = o.start /\ b.usual = o.usual
  BY <1>1 DEF Board, PageSteps
<1>3. page' = [page EXCEPT ![p] = b]
  BY Known DEF Knows
<1> HIDE DEF b, o
<1>4. Bound(b) = Bound(o)
  BY <1>2 DEF Bound
<1>5. BoardRight(b)
  BY <1>1, <1>2, <1>4 DEF BoardRight, Shown, o
<1> QED
  BY <1>3, <1>5, OneBoard

LEMMA Trusted ==
  ASSUME NEW a \in Int, NEW c \in Int, NEW s \in Int, NEW n \in Int, NEW x \in Int, s <= n, n < x + a
  PROVE  s - a - c + 1 \in Int /\ s - a - c + 1 <= x - c /\ x - c \in Int
OBVIOUS

\* An entry that is trusted lacks only what came after the board's bound.
LEMMA LookStep ==
  ASSUME ReviewRight, NEW p \in Pages, Look(p)
  PROVE  PagesRight'
<1> DEFINE o == page[p]
<1>0. /\ o \in Board /\ BoardRight(o) /\ o.step = "look" /\ now' = now /\ place' = place /\ convs' = convs
      /\ o.start <= now
  BY Known DEF Look, BoardRight
<1>1. CASE Fresh /\ Knows(p, cached.count)
  <2>1. /\ cached.count \in Nat /\ cached.count <= Len(convs) /\ cached.at \in Int
        /\ Lacks(cached.count, cached.at - CallTime) /\ now < (cached.at + ConvAge) * Parts
    BY <1>1 DEF ReviewRight, CachedRight, Fresh
  <2>2. ConvAge \in Int /\ CallTime \in Int /\ now \in Int /\ Sec(now) \in Int
    BY Known
  <2>3. Sec(now) < cached.at + ConvAge
    BY <2>1, <2>2, SecIs
  <2>4. Sec(o.start) \in Int /\ Sec(o.start) <= Sec(now)
    BY <1>0, BoundIs
  <2>5. Bound(o) \in Int /\ Bound(o) <= cached.at - CallTime /\ cached.at - CallTime \in Int
    <3>1. Bound(o) = Sec(o.start) - ConvAge - CallTime + 1
      BY DEF Bound
    <3>2. cached.at \in Int
      BY <2>1
    <3> HIDE DEF o
    <3>3. /\ Sec(o.start) - ConvAge - CallTime + 1 \in Int
          /\ Sec(o.start) - ConvAge - CallTime + 1 <= cached.at - CallTime
          /\ cached.at - CallTime \in Int
      BY <2>2, <2>3, <2>4, <3>2, Trusted
    <3> QED
      BY <3>1, <3>3
  <2>6. Lacks(cached.count, Bound(o))
    BY <2>1, <2>5, LacksLess
  <2> QED
    BY <1>0, <1>1, <2>1, <2>6, KnowsStep
<1>2. CASE Goes(p, "ask")
  <2> DEFINE b == [o EXCEPT !.step = "ask"]
  <2>1. /\ b \in Board /\ b.step = "ask" /\ b.got = o.got /\ b.row = o.row /\ b.wish = o.wish
        /\ b.start = o.start /\ b.usual = o.usual
    BY <1>0 DEF Board, PageSteps
  <2>2. page' = [page EXCEPT ![p] = b]
    BY <1>2, Known DEF Goes
  <2> HIDE DEF b
  <2>3. BoardRight(b)
    BY <1>0, <2>1 DEF BoardRight, Shown
  <2> QED
    BY <1>0, <2>2, <2>3, OneBoard
<1> QED
  BY <1>1, <1>2 DEF Look

\* Freshdesk answers with all there is.
LEMMA AskStep ==
  ASSUME ReviewRight, NEW p \in Pages, Ask(p)
  PROVE  PagesRight'
<1> DEFINE o == page[p]
           b == [o EXCEPT !.step = "store", !.got = Len(convs), !.asof = now]
<1>0. /\ o \in Board /\ BoardRight(o) /\ o.step = "ask" /\ now' = now /\ place' = place /\ convs' = convs
      /\ Len(convs) \in Nat /\ now \in Int /\ CallTime \in Nat /\ Parts \in Nat \ {0}
  BY Known DEF Ask
<1>1. CASE page' = [page EXCEPT ![p].step = "store", ![p].got = Len(convs), ![p].asof = now]
  <2>1. /\ b \in Board /\ b.step = "store" /\ b.got = Len(convs) /\ b.asof = now /\ b.row = o.row
        /\ b.wish = o.wish /\ b.start = o.start /\ b.usual = o.usual
    BY <1>0 DEF Board, PageSteps
  <2>2. page' = [page EXCEPT ![p] = b]
    BY <1>1, Known
  <2> HIDE DEF b
  <2>3. b.got # None /\ Lacks(b.got, Sec(b.asof)) /\ b.start <= b.asof
    <3>1. None \notin Int
      BY ReviewsAssumption
    <3> QED
      BY <1>0, <2>1, <3>1 DEF Lacks, BoardRight
  <2>4. now <= now + CallTime * Parts
    <3>1. CallTime * Parts \in Nat
      BY <1>0
    <3> QED
      BY <1>0, <3>1
  <2>5. OnItsWay(b)
    BY <1>0, <2>1, <2>3, <2>4 DEF OnItsWay
  <2>6. b.got <= Len(convs)
    BY <1>0, <2>1
  <2>7. BoardRight(b)
    BY <1>0, <2>1, <2>5, <2>6 DEF BoardRight, Shown
  <2> QED
    BY <1>0, <2>2, <2>7, OneBoard
<1>2. CASE Knows(p, None)
  BY <1>0, <1>2, KnowsStep
<1> QED
  BY <1>1, <1>2 DEF Ask

\* What is stored was all there was less than CallTime ago.
LEMMA StoreStep ==
  ASSUME ReviewRight, NEW p \in Pages, Store(p)
  PROVE  PagesRight' /\ ConvsRight' /\ CachedRight'
<1> DEFINE o == page[p]
           b == [o EXCEPT !.step = "known", !.asof = 0]
<1>0. /\ o \in Board /\ BoardRight(o) /\ o.step = "store" /\ now' = now /\ place' = place /\ convs' = convs
      /\ now \in Int /\ CallTime \in Nat /\ Parts \in Nat \ {0} /\ Sec(now) \in Int
  BY Known DEF Store
<1>1. /\ o.got \in Nat /\ o.got <= Len(convs) /\ Lacks(o.got, Sec(o.asof)) /\ o.got # None
      /\ o.start <= o.asof /\ now <= o.asof + CallTime * Parts /\ o.asof \in Int /\ o.start \in Int
      /\ o.start <= now
  BY <1>0 DEF BoardRight, OnItsWay, Board
<1>2. /\ Sec(o.asof) \in Int /\ Sec(now) - CallTime <= Sec(o.asof) /\ Sec(o.start) <= Sec(o.asof)
      /\ Sec(o.start) \in Int
  BY <1>0, <1>1, SecIs, Within
<1>3. PagesRight'
  <2>1. /\ b \in Board /\ b.step = "known" /\ b.got = o.got /\ b.row = o.row
        /\ b.wish = o.wish /\ b.start = o.start /\ b.usual = o.usual
    <3>1. o \in Board /\ o.step = "store" /\ 0 \in Int
      BY <1>0
    <3> HIDE DEF o
    <3> QED
      BY <3>1 DEF Board, PageSteps
  <2>2. page' = [page EXCEPT ![p] = b]
    BY Known DEF Store
  <2>3. Bound(o) \in Int /\ Bound(o) <= Sec(o.asof)
    BY <1>0, <1>1, <1>2, BoundIs
  <2>4. Lacks(o.got, Bound(o))
    BY <1>1, <1>2, <2>3, LacksLess
  <2> HIDE DEF b
  <2>5. Bound(b) = Bound(o)
    BY <2>1 DEF Bound
  <2>6. BoardRight(b)
    BY <1>0, <2>1, <2>4, <2>5 DEF BoardRight, Shown
  <2> QED
    BY <1>0, <2>2, <2>6, OneBoard
<1>4. CASE cached' = [count |-> o.got, at |-> Sec(now)]
  <2>1. cached'.count = o.got /\ cached'.at = Sec(now)
    BY <1>4
  <2>2. Lacks(o.got, Sec(now) - CallTime) /\ Sec(now) - CallTime \in Int
    BY <1>0, <1>1, <1>2, LacksLess
  <2>3. ConvsRight'
    BY <1>0 DEF ReviewRight, ConvsRight, Sec
  <2>4. Sec(now)' = Sec(now) /\ Len(convs)' = Len(convs)
    BY <1>0 DEF Sec
  <2>5. Lacks(cached.count, cached.at - CallTime)'
    BY <1>0, <2>1, <2>2 DEF Lacks
  <2> QED
    BY <1>0, <1>1, <1>3, <2>1, <2>3, <2>4, <2>5 DEF CachedRight
<1>5. CASE UNCHANGED cached
  BY <1>0, <1>3, <1>5, CachedStays
<1> QED
  BY <1>3, <1>4, <1>5 DEF Store

\* Last(S) is the greatest of S.
LEMMA LastIs ==
  ASSUME NEW n \in Nat, NEW S \in SUBSET (1..n), S # {}
  PROVE  Last(S) \in S /\ \A j \in S : j <= Last(S)
<1> DEFINE Top(P) == \E i \in P : \A j \in P : j <= i
           T == {k \in Nat : \A P \in SUBSET (1..k) : P # {} => Top(P)}
<1>1. 0 \in T
  <2>1. \A P \in SUBSET (1..0) : P = {}
    OBVIOUS
  <2> QED
    BY <2>1
<1>2. ASSUME NEW k \in Nat, k \in T PROVE k + 1 \in T
  <2>1. ASSUME NEW P \in SUBSET (1..k + 1), P # {} PROVE Top(P)
    <3>1. CASE k + 1 \in P
      <4>1. \A j \in P : j <= k + 1
        BY <2>1
      <4> QED
        BY <3>1, <4>1
    <3>2. CASE k + 1 \notin P
      <4>1. P \in SUBSET (1..k)
        BY <2>1, <3>2
      <4> QED
        BY <1>2, <2>1, <4>1
    <3> QED
      BY <3>1, <3>2
  <2> HIDE DEF Top
  <2> QED
    BY <2>1
<1>3. Nat \subseteq T
  <2> HIDE DEF T
  <2> QED
    BY <1>1, <1>2, UpTo
<1>4. Top(S)
  BY <1>3
<1> QED
  BY <1>4 DEF Last

\* The last reply among the first n conversations.
LEMMA LatestIs ==
  ASSUME ReviewRight, NEW n \in Nat, n <= Len(convs)
  PROVE  \/ LatestIncoming(n) = None /\ \A i \in 1..n : convs[i].kind # "client"
         \/ \E m \in 1..n :
              /\ LatestIncoming(n) = convs[m].at /\ convs[m].kind = "client" /\ m \in 1..Len(convs)
              /\ \A i \in 1..n : convs[i].kind = "client" => convs[i].at <= convs[m].at
<1> DEFINE I == Client(n)
<1>1. I = {i \in 1..n : convs[i].kind = "client"}
  BY DEF Client
<1>2. CASE I = {}
  BY <1>1, <1>2 DEF LatestIncoming
<1>3. CASE I # {}
  <2>1. PICK m : m = Last(I)
    OBVIOUS
  <2>2. m \in I /\ \A j \in I : j <= m
    <3>1. I \in SUBSET (1..n)
      BY <1>1
    <3> HIDE DEF I
    <3> QED
      BY <1>3, <2>1, <3>1, LastIs
  <2>3. LatestIncoming(n) = convs[m].at
    BY <1>3, <2>1 DEF LatestIncoming
  <2>4. Len(convs) \in Nat /\ \A i, j \in 1..Len(convs) : i <= j => convs[i].at <= convs[j].at
    BY DEF ReviewRight, ConvsRight
  <2>5. m \in 1..n /\ m \in 1..Len(convs) /\ convs[m].kind = "client"
    BY <1>1, <2>2, <2>4
  <2>6. ASSUME NEW i \in 1..n, convs[i].kind = "client" PROVE convs[i].at <= convs[m].at
    <3>1. i \in I /\ i \in 1..Len(convs)
      BY <1>1, <2>4, <2>6
    <3> QED
      BY <2>2, <2>4, <2>5, <3>1
  <2> QED
    BY <2>3, <2>5, <2>6
<1> QED
  BY <1>2, <1>3

\* A ticket without a review date, or due, is shown at once; one that is deferred is not.
LEMMA BuildStep ==
  ASSUME ReviewRight, NEW p \in Pages, Build(p)
  PROVE  PagesRight'
<1> DEFINE o == page[p]
<1>0. /\ o \in Board /\ BoardRight(o) /\ o.step = "known" /\ now' = now /\ place' = place /\ convs' = convs
      /\ o.start \in Int /\ o.start <= now /\ Today \in Int /\ PlaceTyped
  BY Known DEF Build, BoardRight, Board
<1>1. PICK u \in UsualSections :
        \/ Deferred(o.row) /\ page' = [page EXCEPT ![p].step = "look", ![p].usual = u, ![p].got = None]
        \/ Due(o.row) /\ Shows(p, {"review_now", u})
        \/ o.row.at = None /\ Shows(p, {u})
  <2>1. ASSUME NEW t, NEW sp, NEW cur PROVE Usual(t, sp, cur) \in UsualSections
    BY DEF Usual, UsualSections
  <2> QED
    BY <2>1 DEF Build
<1>2. o.row.at # None => ReviewDay(o.row) \in Int
  BY <1>0, ReviewDayIs DEF Board
<1>3. LocalDay(o.start) \in Int /\ LocalDay(o.start) <= Today
  BY <1>0, Known, DaysGrow DEF Today
<1>4. CASE Deferred(o.row) /\ page' = [page EXCEPT ![p].step = "look", ![p].usual = u, ![p].got = None]
  <2> DEFINE b == [o EXCEPT !.step = "look", !.usual = u, !.got = None]
  <2>1. /\ b \in Board /\ b.step = "look" /\ b.got = None /\ b.row = o.row
        /\ b.wish = o.wish /\ b.start = o.start
    <3>1. o \in Board /\ u \in UsualSections
      BY <1>0
    <3> HIDE DEF o
    <3> QED
      BY <3>1 DEF Board, PageSteps
  <2>2. page' = [page EXCEPT ![p] = b]
    BY <1>4, Known
  <2>3. o.row.at # None /\ LocalDay(o.start) < ReviewDay(o.row)
    BY <1>0, <1>2, <1>3, <1>4 DEF Deferred
  <2> HIDE DEF b
  <2>4. BoardRight(b)
    BY <1>0, <2>1, <2>3 DEF BoardRight, Shown
  <2> QED
    BY <1>0, <2>2, <2>4, OneBoard
<1>5. ASSUME NEW where \in SUBSET ({"review_now"} \cup UsualSections), Shows(p, where),
             o.row.at = None \/ (Due(o.row) /\ "review_now" \in where)
      PROVE  PagesRight'
  <2> DEFINE b == [o EXCEPT !.step = "shown", !.sections = where]
  <2>1. /\ b \in Board /\ b.step = "shown" /\ b.got = o.got /\ b.row = o.row
        /\ b.wish = o.wish /\ b.start = o.start /\ b.sections = where
    <3>1. o \in Board
      BY <1>0
    <3> HIDE DEF o
    <3> QED
      BY <1>5, <3>1 DEF Board, PageSteps
  <2>2. page' = [page EXCEPT ![p] = b]
    BY <1>5, Known DEF Shows
  <2> HIDE DEF b
  <2>3. Shown(b) => Settled(b)
    BY <1>5, <2>1 DEF Shown, Settled, Due
  <2>4. Bound(b) = Bound(o)
    BY <2>1 DEF Bound
  <2>5. BoardRight(b)
    BY <1>0, <2>1, <2>3, <2>4 DEF BoardRight
  <2> QED
    BY <1>0, <2>2, <2>5, OneBoard
<1>6. CASE Due(o.row) /\ Shows(p, {"review_now", u})
  <2>1. {"review_now", u} \in SUBSET ({"review_now"} \cup UsualSections) /\ "review_now" \in {"review_now", u}
    BY <1>1
  <2> QED
    BY <1>5, <1>6, <2>1
<1>7. CASE o.row.at = None /\ Shows(p, {u})
  <2>1. {u} \in SUBSET ({"review_now"} \cup UsualSections)
    BY <1>1
  <2> QED
    BY <1>5, <1>7, <2>1
<1> QED
  BY <1>1, <1>4, <1>6, <1>7

\* A deferred ticket goes to Review Now if the board has a reply, and to For Later if it has none.
LEMMA DecideStep ==
  ASSUME ReviewRight, NEW p \in Pages, Decide(p)
  PROVE  PagesRight'
<1> DEFINE o == page[p]
           where == IF Promoted(o.row, o.got) THEN {"review_now", o.usual} ELSE {"for_later"}
           b == [o EXCEPT !.step = "shown", !.sections = where]
<1>0. /\ o \in Board /\ BoardRight(o) /\ o.step = "known" /\ o.usual # "none"
      /\ now' = now /\ place' = place /\ convs' = convs
  BY Known DEF Decide
<1>1. /\ o.usual \in UsualSections /\ o.row.at # None /\ LocalDay(o.start) < ReviewDay(o.row)
      /\ o.row.deferred = Sec(o.wish.at) /\ o.wish.at \in Int
      /\ o.got # None => o.got \in Nat /\ o.got <= Len(convs)
  BY <1>0 DEF BoardRight, Board, Right, Wishes
<1>2. Sec(o.wish.at) \in Int /\ o.row.deferred # None
  <2>1. Sec(o.wish.at) \in Int /\ None \notin Int
    BY <1>1, SecIs, ReviewsAssumption
  <2> QED
    BY <1>1, <2>1
<1>3. where \in SUBSET ({"review_now", "for_later"} \cup UsualSections)
  BY <1>1
<1>4. page' = [page EXCEPT ![p] = b]
  BY Known DEF Decide, Shows
<1>5. /\ b \in Board /\ b.step = "shown" /\ b.got = o.got /\ b.row = o.row
      /\ b.wish = o.wish /\ b.start = o.start /\ b.sections = where
  <2>1. o \in Board
    BY <1>0
  <2> HIDE DEF o, where
  <2> QED
    BY <1>3, <2>1 DEF Board, PageSteps
<1>6. ASSUME Promoted(o.row, o.got) PROVE Settled(b)
  <2>1. o.got \in Nat /\ o.got <= Len(convs) /\ LatestIncoming(o.got) # None
        /\ LatestIncoming(o.got) > o.row.deferred
    BY <1>1, <1>6 DEF Promoted
  <2>2. \E i \in 1..Len(convs) : convs[i].kind = "client" /\ convs[i].at > o.row.deferred
    BY <2>1, LatestIs
  <2>3. "review_now" \in where
    BY <1>6
  <2> HIDE DEF b, where
  <2> QED
    BY <1>5, <2>2, <2>3 DEF Settled
<1>7. ASSUME ~ Promoted(o.row, o.got) PROVE Settled(b)
  <2>1. where = {"for_later"}
    BY <1>7
  <2>2. ASSUME o.got # None PROVE Quiet(o.got, o.row.deferred)
    <3> DEFINE n == o.got
               d == Sec(o.wish.at)
    <3>1. n \in Nat /\ n <= Len(convs) /\ d \in Int
      BY <1>1, <1>2, <2>2
    <3>2. LatestIncoming(n) = None \/ ~ (LatestIncoming(n) > d)
      BY <1>1, <1>2, <1>7, <2>2 DEF Promoted
    <3> HIDE DEF n, d
    <3>3. \A i \in 1..n : convs[i].at \in Int
      <4>1. Len(convs) \in Nat /\ \A i \in 1..Len(convs) : convs[i].at \in Int
        BY Known
      <4> QED
        BY <3>1, <4>1
    <3>4. ASSUME LatestIncoming(n) = None, \A i \in 1..n : convs[i].kind # "client" PROVE Quiet(n, d)
      BY <3>4 DEF Quiet
    <3>5. ASSUME NEW m \in 1..n, LatestIncoming(n) = convs[m].at,
                 \A i \in 1..n : convs[i].kind = "client" => convs[i].at <= convs[m].at
          PROVE  Quiet(n, d)
      <4>1. ~ (convs[m].at > d)
        <5>1. convs[m].at # None
          BY <3>3, ReviewsAssumption
        <5> QED
          BY <3>2, <3>5, <5>1
      <4>2. ASSUME NEW i \in 1..n, convs[i].kind = "client" PROVE ~ (convs[i].at > d)
        <5>1. convs[i].at <= convs[m].at /\ convs[i].at \in Int /\ convs[m].at \in Int
          BY <3>3, <3>5, <4>2
        <5> QED
          BY <3>1, <4>1, <5>1
      <4> QED
        BY <4>2 DEF Quiet
    <3>6. Quiet(n, d)
      BY <3>1, <3>4, <3>5, LatestIs
    <3> QED
      BY <1>1, <3>6 DEF n, d
  <2> HIDE DEF b, where
  <2> QED
    BY <1>1, <1>5, <2>1, <2>2 DEF Settled
<1>8. Settled(b)
  BY <1>6, <1>7
<1> HIDE DEF b
<1>9. Bound(b) = Bound(o)
  BY <1>5 DEF Bound
<1>10. BoardRight(b)
  BY <1>0, <1>5, <1>8, <1>9 DEF BoardRight
<1> QED
  BY <1>0, <1>4, <1>10, OneBoard

\* A message comes after all others, and after the last second anything is known of.
LEMMA LaterMessage ==
  ASSUME ReviewRight, NEW m \in Messages, m.at = Sec(now), convs' = Append(convs, m), now' = now
  PROVE  /\ Len(convs)' = Len(convs) + 1 /\ convs' \in Seq(Messages)
         /\ \A i \in 1..Len(convs) : convs'[i] = convs[i]
         /\ convs'[Len(convs) + 1] = m
         /\ \A n, s \in Int : Lacks(n, s) /\ s <= Sec(now) => Lacks(n, s)'
         /\ \A n \in Nat : \A s : n <= Len(convs) /\ Quiet(n, s) => Quiet(n, s)'
<1>1. convs \in Seq(Messages) /\ Len(convs) \in Nat
  BY Known
<1>2. /\ Len(convs') = Len(convs) + 1 /\ convs' \in Seq(Messages)
      /\ \A i \in 1..Len(convs) : convs'[i] = convs[i]
      /\ convs'[Len(convs) + 1] = m
  BY <1>1
<1>3. ASSUME NEW n \in Int, NEW s \in Int, Lacks(n, s), s <= Sec(now) PROVE Lacks(n, s)'
  <2>1. ASSUME NEW i \in 1..Len(convs'), i > n PROVE convs'[i].at >= s
    <3>1. CASE i \in 1..Len(convs)
      BY <1>2, <1>3, <2>1, <3>1 DEF Lacks
    <3>2. CASE i = Len(convs) + 1
      BY <1>2, <1>3, <3>2, Known
    <3> QED
      BY <1>1, <1>2, <2>1, <3>1, <3>2
  <2> QED
    BY <2>1 DEF Lacks
<1>4. ASSUME NEW n \in Nat, NEW s, n <= Len(convs), Quiet(n, s) PROVE Quiet(n, s)'
  <2>1. \A i \in 1..n : i \in 1..Len(convs)
    BY <1>1, <1>4
  <2>2. \A i \in 1..n : convs'[i] = convs[i]
    BY <1>2, <2>1
  <2> QED
    BY <1>4, <2>2 DEF Quiet
<1> QED
  BY <1>2, <1>3, <1>4

LEMMA MessageStep ==
  ASSUME ReviewRight, NEW kind \in {"client", "other"}, Message(kind)
  PROVE  ConvsRight' /\ CachedRight' /\ PagesRight'
<1> DEFINE m == [kind |-> kind, at |-> Sec(now)]
           n == Len(convs)
<1>0. /\ m \in Messages /\ m.at = Sec(now) /\ convs' = Append(convs, m)
      /\ now' = now /\ cached' = cached /\ page' = page /\ place' = place
  BY Known DEF Message, Messages
<1> HIDE DEF m
<1>1. /\ Len(convs)' = n + 1 /\ convs' \in Seq(Messages) /\ n \in Nat
      /\ \A i \in 1..n : convs'[i] = convs[i]
      /\ convs'[n + 1] = m
  BY <1>0, LaterMessage, Known
<1>2. \A k, s \in Int : Lacks(k, s) /\ s <= Sec(now) => Lacks(k, s)'
  BY <1>0, LaterMessage
<1>3. \A k \in Nat : \A s : k <= n /\ Quiet(k, s) => Quiet(k, s)'
  BY <1>0, LaterMessage
<1>4. /\ \A i, j \in 1..n : i <= j => convs[i].at <= convs[j].at
      /\ \A i \in 1..n : convs[i].at <= Sec(now) /\ convs[i].at \in Int
      /\ Sec(now) \in Int /\ now \in Int
  BY Known DEF ReviewRight, ConvsRight
<1> HIDE DEF n
<1>5. \A i \in 1..n + 1 : i \in 1..n \/ i = n + 1
  BY <1>1
<1>6. \A i \in 1..n + 1 : convs'[i].at <= Sec(now)
  BY <1>0, <1>1, <1>4, <1>5
<1>7. ASSUME NEW i \in 1..n + 1, NEW j \in 1..n + 1, i <= j PROVE convs'[i].at <= convs'[j].at
  <2>1. CASE j = n + 1
    BY <1>0, <1>1, <1>6, <2>1
  <2>2. CASE j \in 1..n
    <3>1. i \in 1..n
      BY <1>1, <1>7, <2>2
    <3> QED
      BY <1>1, <1>4, <1>7, <2>2, <3>1
  <2> QED
    BY <1>5, <2>1, <2>2
<1>8. Sec(now)' = Sec(now)
  BY <1>0 DEF Sec
<1>9. ConvsRight'
  BY <1>1, <1>6, <1>7, <1>8 DEF ConvsRight
<1>10. ASSUME cached # None PROVE CachedRight'
  <2>1. /\ cached.count \in Nat /\ cached.count <= n /\ cached.at \in Int /\ cached.at <= Sec(now)
        /\ Lacks(cached.count, cached.at - CallTime) /\ CallTime \in Nat
    BY <1>10, Known DEF ReviewRight, CachedRight, n
  <2>2. ASSUME NEW k \in Int, NEW s \in Int, k = cached.count, s = cached.at - CallTime
        PROVE  Lacks(cached.count, cached.at - CallTime)'
    <3>1. s <= Sec(now)
      BY <1>4, <2>1, <2>2
    <3>2. Lacks(k, s)'
      BY <1>2, <2>1, <2>2, <3>1
    <3> QED
      BY <1>0, <2>2, <3>2
  <2>3. Lacks(cached.count, cached.at - CallTime)'
    BY <2>1, <2>2
  <2> QED
    BY <1>0, <1>1, <1>8, <2>1, <2>3 DEF CachedRight
<1>11. cached = None => CachedRight'
  BY <1>0 DEF CachedRight
<1>12. ASSUME NEW p \in Pages, NEW b, b = page[p] PROVE BoardRight(b)'
  <2>1. BoardRight(b) /\ b \in Board
    BY <1>12, Known
  <2>2. Right(b.row, b.wish)'
    BY <1>0, <2>1, RightStays DEF BoardRight
  <2>3. ASSUME b.got # None PROVE b.got \in Int /\ b.got \in Nat /\ b.got <= n /\ b.got <= n + 1
    <3>1. b.got \in Nat /\ b.got <= n
      BY <2>1, <2>3 DEF BoardRight, Board, n
    <3> QED
      BY <1>1, <3>1
  <2>4. /\ Sec(b.asof)' = Sec(b.asof) /\ Bound(b)' = Bound(b) /\ Shown(b)' = Shown(b)
        /\ LocalDay(b.start)' = LocalDay(b.start) /\ ReviewDay(b.row)' = ReviewDay(b.row) /\ Today' = Today
    BY <1>0 DEF Sec, Bound, Shown, LocalDay, ReviewDay, Today
  <2>5. ASSUME b.step = "store" PROVE OnItsWay(b)'
    <3>1. /\ b.got # None /\ Lacks(b.got, Sec(b.asof)) /\ b.start <= b.asof /\ b.asof \in Int
          /\ now <= b.asof + CallTime * Parts
      BY <2>1, <2>5 DEF BoardRight, OnItsWay, Board
    <3>2. b.asof <= now
      BY <2>1, <2>5 DEF BoardRight, OnItsWay
    <3>3. Sec(b.asof) \in Int /\ Sec(b.asof) <= Sec(now)
      BY <1>4, <3>1, <3>2, SecIs
    <3>4. Lacks(b.got, Sec(b.asof))'
      <4>1. ASSUME NEW s \in Int, s = Sec(b.asof) PROVE Lacks(b.got, Sec(b.asof))'
        <5>1. Lacks(b.got, s)'
          BY <1>2, <2>3, <3>1, <3>2, <3>3, <4>1
        <5> QED
          BY <2>4, <4>1, <5>1
      <4> QED
        BY <3>1, <3>2, <3>3, <4>1
    <3> QED
      BY <1>0, <3>1, <3>2, <3>4 DEF OnItsWay
  <2>6. ASSUME b.step \in {"known", "shown"}, b.got # None PROVE Lacks(b.got, Bound(b))'
    <3>1. Lacks(b.got, Bound(b)) /\ b.start <= now
      BY <2>1, <2>6 DEF BoardRight
    <3>2. Bound(b) \in Int /\ Bound(b) <= Sec(now)
      BY <1>4, <2>1, <3>1, BoundIs
    <3>3. ASSUME NEW s \in Int, s = Bound(b) PROVE Lacks(b.got, Bound(b))'
      <4>1. Lacks(b.got, s)'
        BY <1>2, <2>3, <2>6, <3>1, <3>2, <3>3
      <4> QED
        BY <2>4, <3>3, <4>1
    <3> QED
      BY <3>2, <3>3
  <2>7. Shown(b) /\ Settled(b) => Settled(b)'
    <3>1. b.got # None /\ Quiet(b.got, b.row.deferred) => Quiet(b.got, b.row.deferred)'
      BY <1>3, <2>3
    <3>2. (\E i \in 1..Len(convs) : convs[i].kind = "client" /\ convs[i].at > b.row.deferred)
           => (\E i \in 1..Len(convs) : convs[i].kind = "client" /\ convs[i].at > b.row.deferred)'
      BY <1>1 DEF n
    <3> QED
      BY <2>4, <3>1, <3>2 DEF Settled
  <2> QED
    BY <1>0, <1>1, <2>1, <2>2, <2>3, <2>4, <2>5, <2>6, <2>7 DEF BoardRight
<1>13. PagesRight'
  <2>1. ASSUME NEW p \in Pages PROVE BoardRight(page[p])'
    <3>1. ASSUME NEW b, b = page[p] PROVE BoardRight(page[p])'
      <4>1. BoardRight(b)'
        BY <1>12, <3>1
      <4> QED
        BY <1>0, <3>1, <4>1 DEF BoardRight, OnItsWay, Shown, Settled, Bound
    <3> QED
      BY <3>1
  <2> QED
    BY <1>0, <2>1, Known DEF PagesRight
<1> QED
  BY <1>9, <1>10, <1>11, <1>13

\* Time goes on only as far as the answers on their way allow.
LEMMA TickStep ==
  ASSUME ReviewRight, Tick
  PROVE  ConvsRight' /\ CachedRight' /\ PagesRight'
<1>1. /\ convs' = convs /\ cached' = cached /\ page' = page /\ place' = place
      /\ now' = now + 1 /\ now \in Int /\ now + 1 \in Int /\ PlaceTyped
      /\ \A p \in Pages : page[p].step = "store" => now < page[p].asof + CallTime * Parts
  BY Known DEF Tick
<1>2. Sec(now) \in Int /\ Sec(now + 1) \in Int /\ Sec(now) <= Sec(now + 1) /\ Sec(now)' = Sec(now + 1)
  <2>1. Sec(now) \in Int /\ Sec(now + 1) \in Int /\ Sec(now) <= Sec(now + 1)
    BY <1>1, SecIs
  <2> QED
    BY <1>1, <2>1 DEF Sec
<1>3. ConvsRight'
  <2>1. \A i \in 1..Len(convs) : convs[i].at <= Sec(now + 1)
    BY <1>2, Known
  <2> QED
    BY <1>1, <1>2, <2>1 DEF ReviewRight, ConvsRight
<1>4. CachedRight'
  <2>1. cached # None => cached.at <= Sec(now + 1)
    BY <1>2 DEF ReviewRight, CachedRight
  <2> QED
    BY <1>1, <1>2, <2>1 DEF ReviewRight, CachedRight, Lacks
<1>5. Today \in Int /\ Today' \in Int /\ Today <= Today'
  <2>1. LocalDay(now) \in Int /\ LocalDay(now + 1) \in Int /\ LocalDay(now) <= LocalDay(now + 1)
    BY <1>1, DaysGrow
  <2>2. Today' = LocalDay(now + 1)
    BY <1>1 DEF Today, LocalDay
  <2> QED
    BY <2>1, <2>2 DEF Today
<1>6. ASSUME NEW p \in Pages, NEW b, b = page[p] PROVE BoardRight(b)'
  <2>1. BoardRight(b) /\ b \in Board
    BY <1>6, Known
  <2>2. Right(b.row, b.wish)'
    BY <1>1, <2>1, RightStays DEF BoardRight
  <2>3. /\ Sec(b.asof)' = Sec(b.asof) /\ Bound(b)' = Bound(b) /\ Shown(b)' = Shown(b)
        /\ LocalDay(b.start)' = LocalDay(b.start) /\ ReviewDay(b.row)' = ReviewDay(b.row)
    BY <1>1 DEF Sec, Bound, Shown, LocalDay, ReviewDay
  <2>4. b.start <= now'
    BY <1>1, <2>1 DEF BoardRight, Board
  <2>5. ASSUME b.step = "store" PROVE OnItsWay(b)'
    <3>1. OnItsWay(b) /\ b.asof \in Int /\ now < b.asof + CallTime * Parts
      BY <1>1, <1>6, <2>1, <2>5 DEF BoardRight, Board
    <3>2. CallTime * Parts \in Int
      <4>1. CallTime \in Nat /\ Parts \in Nat
        BY Known
      <4> QED
        BY <4>1
    <3>3. b.asof <= now + 1 /\ now + 1 <= b.asof + CallTime * Parts
      <4>1. b.asof <= now
        BY <3>1 DEF OnItsWay
      <4> QED
        BY <1>1, <3>1, <3>2, <4>1
    <3> QED
      BY <1>1, <2>3, <3>1, <3>3 DEF OnItsWay, Lacks
  <2>6. Lacks(b.got, Bound(b)) => Lacks(b.got, Bound(b))'
    BY <1>1, <2>3 DEF Lacks
  <2>7. Shown(b) /\ Settled(b) => Settled(b)'
    <3>1. Shown(b) /\ ReviewDay(b.row) <= Today => ReviewDay(b.row) <= Today'
      <4>1. Shown(b) => ReviewDay(b.row) \in Int
        BY <2>1, ReviewDayIs DEF Shown, Board
      <4> QED
        BY <1>5, <4>1
    <3>2. Quiet(b.got, b.row.deferred)' = Quiet(b.got, b.row.deferred)
      BY <1>1 DEF Quiet
    <3> QED
      BY <1>1, <2>3, <3>1, <3>2 DEF Settled
  <2> QED
    BY <1>1, <2>1, <2>2, <2>3, <2>4, <2>5, <2>6, <2>7 DEF BoardRight
<1>7. PagesRight'
  <2>1. ASSUME NEW p \in Pages, NEW b, b = page[p] PROVE BoardRight(page[p])'
    <3>1. BoardRight(b)'
      BY <1>6, <2>1
    <3> QED
      BY <1>1, <2>1, <3>1 DEF BoardRight, OnItsWay, Shown, Settled, Bound
  <2> QED
    BY <1>1, <2>1, Known DEF PagesRight
<1> QED
  BY <1>3, <1>4, <1>7

\* Before anything is asked for.
LEMMA ReviewInit == Init => ReviewRight
<1> SUFFICES ASSUME Init PROVE ReviewRight
  OBVIOUS
<1>1. 0 \in Nat /\ Len(<<>>) = 0 /\ <<>> \in Seq(Messages)
  OBVIOUS
<1>2. ConvsRight /\ CachedRight
  BY <1>1 DEF Init, ConvsRight, CachedRight
<1>3. NoReview \in Rows /\ NoWish \in Wishes /\ Right(NoReview, NoWish)
  BY DEF NoReview, NoWish, Rows, Wishes, Ways, Right
<1>4. BoardRight(Closed)
  <2>1. Closed \in Board
    BY <1>3 DEF Closed, Board, PageSteps
  <2>2. /\ Closed.step = "closed" /\ Closed.row = NoReview /\ Closed.wish = NoWish /\ Closed.start = 0
        /\ Closed.got = None /\ Closed.usual = "none" /\ now = 0
    BY DEF Closed, Init
  <2> QED
    BY <1>3, <2>1, <2>2 DEF BoardRight, Shown
<1>5. PagesRight
  BY <1>4 DEF Init, PagesRight, BoardRight
<1>6. AnchorsKnown /\ PlaceTyped /\ now \in Nat /\ RowRight
  BY <1>3 DEF Init, AnchorsKnown, PlaceTyped, RowRight
<1> QED
  BY <1>2, <1>5, <1>6 DEF ReviewRight

\* The invariant is inductive.
LEMMA ReviewNext == ReviewRight /\ [Next]_vars => ReviewRight'
<1> SUFFICES ASSUME ReviewRight, [Next]_vars PROVE ReviewRight'
  OBVIOUS
<1>1. RowRight' /\ AnchorsKnown'
  BY RowStep, NextAnchors DEF ReviewRight
<1>2. PlaceTyped'
  BY <1>1 DEF AnchorsKnown, PlaceTyped
<1>3. now' \in Nat
  <2>1. now' = now \/ now' = now + 1
    BY DEF Next, vars, DeferTo, DeferTomorrow, DeferNextSprint, Defer, Undefer, AddAnchor, DeleteAnchor,
           Message, Tick, Forget, PageStep, Open, Look, Ask, Store, Build, Decide
  <2> QED
    BY <2>1 DEF ReviewRight
<1>4. ASSUME UNCHANGED <<now, place, convs, page>> PROVE PagesRight'
  <2>1. ASSUME NEW p \in Pages, NEW b, b = page[p] PROVE BoardRight(page[p])'
    <3>1. BoardRight(b)'
      BY <1>4, <2>1, BoardStays, Known
    <3> QED
      BY <1>4, <2>1, <3>1 DEF BoardRight, OnItsWay, Shown, Settled, Bound
  <2> QED
    BY <1>4, <2>1, Known DEF PagesRight
<1>5. ConvsRight' /\ CachedRight' /\ PagesRight'
  <2>1. CASE Tick
    BY <2>1, TickStep
  <2>2. CASE \E kind \in {"client", "other"} : Message(kind)
    BY <2>2, MessageStep
  <2>3. CASE Forget
    <3>1. cached' = None /\ UNCHANGED <<now, place, convs, page>>
      BY <2>3 DEF Forget
    <3>2. ConvsRight' /\ CachedRight'
      BY <3>1 DEF ReviewRight, ConvsRight, CachedRight, Sec
    <3> QED
      BY <1>4, <3>1, <3>2
  <2>4. ASSUME NEW p \in Pages, Open(p) \/ Look(p) \/ Ask(p) \/ Build(p) \/ Decide(p)
        PROVE  ConvsRight' /\ CachedRight' /\ PagesRight'
    <3>1. UNCHANGED <<now, convs, cached>>
      BY <2>4 DEF Open, Look, Ask, Build, Decide
    <3>2. PagesRight'
      BY <2>4, OpenStep, LookStep, AskStep, BuildStep, DecideStep
    <3> QED
      BY <3>1, <3>2, CachedStays
  <2>5. ASSUME NEW p \in Pages, Store(p) PROVE ConvsRight' /\ CachedRight' /\ PagesRight'
    BY <2>5, StoreStep
  <2>6. CASE UNCHANGED <<now, place, convs, cached, page>>
    BY <1>4, <2>6, CachedStays
  <2>7. ASSUME NEW d, DeferTo(d) PROVE UNCHANGED <<now, place, convs, cached, page>>
    BY <2>7 DEF DeferTo, Defer
  <2>8. ASSUME NEW a, AddAnchor(a) \/ DeleteAnchor(a) PROVE UNCHANGED <<now, place, convs, cached, page>>
    BY <2>8 DEF AddAnchor, DeleteAnchor
  <2>9. DeferTomorrow \/ DeferNextSprint \/ Undefer \/ UNCHANGED vars =>
          UNCHANGED <<now, place, convs, cached, page>>
    BY DEF DeferTomorrow, DeferNextSprint, Defer, Undefer, vars
  <2> QED
    BY <2>1, <2>2, <2>3, <2>4, <2>5, <2>6, <2>7, <2>8, <2>9 DEF Next, PageStep
<1> QED
  BY <1>1, <1>2, <1>3, <1>5 DEF ReviewRight

(* README.md:75: the reply of a client to a deferred ticket puts the ticket *)
(* in Review Now on every board asked for ConvAge and CallTime later, for   *)
(* any number of boards at once, any faults and whichever answer is stored  *)
(* last: an entry lacks nothing that came more than CallTime before its     *)
(* stamp, and a board trusts it for ConvAge only.                           *)
THEOREM Replies == Spec => []RepliedIsReviewed
<1>1. ReviewRight => RepliedIsReviewed
  <2> SUFFICES ASSUME ReviewRight, NEW p \in Pages, Shown(page[p]), page[p].got # None,
                      NEW i \in 1..Len(convs), Reply(i, page[p].wish),
                      Sec(page[p].start) >= convs[i].at + ConvAge + CallTime
               PROVE  "review_now" \in page[p].sections
    BY DEF RepliedIsReviewed
  <2> DEFINE b == page[p]
  <2>1. BoardRight(b) /\ b \in Board /\ b.start <= now
    BY Known DEF BoardRight
  <2>2. b.got \in Nat /\ Lacks(b.got, Bound(b)) /\ Settled(b) /\ b.row.deferred = Sec(b.wish.at)
    BY <2>1 DEF BoardRight, Board, Shown, Right
  <2>3. convs[i].at \in Int /\ ConvAge \in Nat /\ CallTime \in Nat /\ Len(convs) \in Nat
    BY Known
  <2>4. Sec(b.start) \in Int /\ Bound(b) \in Int
    BY <2>1, BoundIs
  <2>5. ~ (convs[i].at >= Bound(b))
    BY <2>3, <2>4 DEF Bound
  <2>6. i \in 1..b.got
    BY <2>2, <2>3, <2>5 DEF Lacks
  <2>7. ~ Quiet(b.got, b.row.deferred)
    BY <2>2, <2>6 DEF Quiet, Reply
  <2> QED
    BY <2>2, <2>7 DEF Settled
<1> QED
  BY <1>1, ReviewInit, ReviewNext, PTL DEF Spec

(* dashboard.go:245: in any zone and on any day a deferred ticket is in     *)
(* Review Now on every board asked for from the day it was put off to, and  *)
(* before it nowhere but in For Later while the client is silent; only      *)
(* "tomorrow" on a server off UTC can be cut early, and then by the two     *)
(* cases CutEarly names.                                                    *)
THEOREM Reviewing == Spec => []ReviewOnItsDay
<1>1. ReviewRight => ReviewOnItsDay
  <2> SUFFICES ASSUME ReviewRight, NEW p \in Pages, Shown(page[p])
               PROVE  LET b == page[p] IN
                      /\ LocalDay(b.start) >= b.wish.day => "review_now" \in b.sections
                      /\ Today < b.wish.day /\ ~ CutEarly(b.wish) /\ ~ (\E i \in 1..Len(convs) : Reply(i, b.wish)) =>
                           b.sections = {"for_later"}
    BY DEF ReviewOnItsDay
  <2> DEFINE b == page[p]
  <2>1. BoardRight(b) /\ b \in Board
    BY Known
  <2>2. /\ b.row.deferred = Sec(b.wish.at) /\ b.wish.day \in Int /\ Settled(b)
        /\ ReviewDay(b.row) <= b.wish.day /\ (CutEarly(b.wish) \/ ReviewDay(b.row) = b.wish.day)
    BY <2>1 DEF BoardRight, Shown, Right
  <2>3. ReviewDay(b.row) \in Int /\ LocalDay(b.start) \in Int /\ Today \in Int
    <3>1. b.row \in Rows /\ b.row.at # None /\ b.start \in Int
      BY <2>1 DEF Shown, Board
    <3> QED
      BY <3>1, Known, ReviewDayIs, LocalIs
  <2>4. ASSUME LocalDay(b.start) >= b.wish.day PROVE "review_now" \in b.sections
    BY <2>2, <2>3, <2>4 DEF Settled
  <2>5. ASSUME Today < b.wish.day, ~ CutEarly(b.wish), ~ \E i \in 1..Len(convs) : Reply(i, b.wish)
        PROVE  b.sections = {"for_later"}
    <3>1. ~ (ReviewDay(b.row) <= Today)
      BY <2>2, <2>3, <2>5
    <3>2. ~ \E i \in 1..Len(convs) : convs[i].kind = "client" /\ convs[i].at > b.row.deferred
      BY <2>2, <2>5 DEF Reply
    <3> QED
      BY <2>2, <3>1, <3>2 DEF Settled
  <2> QED
    BY <2>4, <2>5
<1> QED
  BY <1>1, ReviewInit, ReviewNext, PTL DEF Spec
=============================================================================
