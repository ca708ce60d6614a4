---------------------------- MODULE Paging_proofs ----------------------------
(***************************************************************************)
(* Lists longer than a page, for any tickets, page sizes, changes and      *)
(* faults.  What has been asked for are the results up to some rank; what  *)
(* is sure keeps its rank or moves back as long as nothing before it       *)
(* leaves, so it is among what was read or will still come.                *)
(***************************************************************************)
EXTENDS Paging, FiniteSetTheorems, TLAPS

-----------------------------------------------------------------------------
(* Ranks and pages. *)

\* A rank is a number, at most that of the last result.
LEMMA RankIs ==
  ASSUME NEW S \in SUBSET Nat, IsFiniteSet(S), NEW n \in Nat
  PROVE  /\ Cardinality(S) \in Nat /\ Rank(S, n) \in Nat /\ Rank(S, n) <= Cardinality(S)
         /\ n \in S => Rank(S, n) >= 1
<1> DEFINE upto == {m \in S : m <= n}
<1>1. IsFiniteSet(upto) /\ Cardinality(upto) <= Cardinality(S)
  BY FS_Subset
<1>2. Cardinality(upto) \in Nat /\ Cardinality(S) \in Nat
  BY <1>1, FS_CardinalityType
<1>3. n \in S => upto # {}
  OBVIOUS
<1>4. Cardinality(upto) = 0 <=> upto = {}
  BY <1>1, FS_EmptySet
<1> HIDE DEF upto
<1>5. n \in S => Cardinality(upto) >= 1
  BY <1>2, <1>3, <1>4
<1> QED
  BY <1>1, <1>2, <1>5 DEF Rank, upto

\* No two results have one rank.
LEMMA RanksDiffer ==
  ASSUME NEW S \in SUBSET Nat, IsFiniteSet(S), NEW m \in S, NEW n \in S, m < n
  PROVE  Rank(S, m) < Rank(S, n)
<1> DEFINE low == {i \in S : i <= m}
           high == {i \in S : i <= n}
<1>1. IsFiniteSet(low) /\ IsFiniteSet(high)
  BY FS_Subset
<1>2. n \notin low /\ low \cup {n} \in SUBSET high
  <2>1. ~ (n <= m) /\ n <= n /\ \A i \in S : i <= m => i <= n
    OBVIOUS
  <2> QED
    BY <2>1
<1> HIDE DEF low, high
<1>3. IsFiniteSet(low \cup {n}) /\ Cardinality(low \cup {n}) = Cardinality(low) + 1
  BY <1>1, <1>2, FS_AddElement
<1>4. Cardinality(low \cup {n}) <= Cardinality(high)
  BY <1>1, <1>2, FS_Subset
<1>5. Cardinality(low) \in Nat /\ Cardinality(high) \in Nat
  BY <1>1, FS_CardinalityType
<1>6. Cardinality(low) < Cardinality(high)
  BY <1>3, <1>4, <1>5
<1> QED
  BY <1>6 DEF Rank, low, high

\* A result moves back, or stays, if nothing before it leaves.
LEMMA RankGrows ==
  ASSUME NEW S \in SUBSET Nat, NEW T \in SUBSET Nat, IsFiniteSet(S), IsFiniteSet(T), NEW n \in Nat,
         \A m \in S : m <= n => m \in T
  PROVE  Rank(S, n) <= Rank(T, n)
<1> DEFINE low == {m \in S : m <= n}
           high == {m \in T : m <= n}
<1>1. IsFiniteSet(high)
  BY FS_Subset
<1>2. low \in SUBSET high
  OBVIOUS
<1>3. Cardinality(low) <= Cardinality(high)
  <2> HIDE DEF low, high
  <2> QED
    BY <1>1, <1>2, FS_Subset
<1> QED
  BY <1>3 DEF Rank

\* The ranks of the results are the numbers from 1 to how many they are.
LEMMA RanksFill ==
  ASSUME NEW S \in SUBSET Nat, IsFiniteSet(S), NEW r \in 1..Cardinality(S)
  PROVE  \E n \in S : Rank(S, n) = r
<1> DEFINE c == Cardinality(S)
           f == [n \in S |-> Rank(S, n)]
<1>1. c \in Nat /\ IsFiniteSet(1..c) /\ Cardinality(1..c) = c
  <2>1. c \in Nat
    BY FS_CardinalityType
  <2> QED
    BY <2>1, FS_Interval
<1>2. \A n \in S : Rank(S, n) \in 1..c
  BY RankIs
<1>3. f \in [S -> 1..c]
  BY <1>2
<1>4. \A m, n \in S : f[m] = f[n] => m = n
  <2> SUFFICES ASSUME NEW m \in S, NEW n \in S, Rank(S, m) = Rank(S, n) PROVE m = n
    OBVIOUS
  <2>1. Rank(S, m) \in Nat /\ Rank(S, n) \in Nat
    BY RankIs
  <2>2. ~ (m < n) /\ ~ (n < m)
    BY <2>1, RanksDiffer
  <2> QED
    BY <2>2
<1> HIDE DEF f
<1>5. f \in Injection(S, 1..c)
  BY <1>3, <1>4 DEF Injection, IsInjective
<1>6. f \in Surjection(S, 1..c)
  BY <1>1, <1>5, FS_Injection
<1>7. \E n \in S : f[n] = r
  BY <1>6 DEF Surjection
<1> QED
  BY <1>7 DEF f

\* A page has no more than its size; it has less only if it is the last one or there is none.
LEMMA PageIs ==
  ASSUME NEW S \in SUBSET Nat, IsFiniteSet(S), NEW size \in Nat \ {0}, NEW k \in Nat \ {0}
  PROVE  LET page == Page(S, size, k)
         IN  /\ page \in SUBSET S /\ IsFiniteSet(page) /\ Cardinality(page) \in Nat
             /\ (k - 1) * size \in Nat /\ k * size = (k - 1) * size + size
             /\ Cardinality(page) <= size
             /\ \/ Cardinality(page) = size
                \/ Cardinality(S) < k * size /\ Cardinality(S) <= (k - 1) * size + Cardinality(page)
<1> DEFINE page == Page(S, size, k)
           lo == (k - 1) * size
           hi == k * size
           top == IF Cardinality(S) >= hi THEN hi ELSE Cardinality(S)
           f == [n \in page |-> Rank(S, n)]
<1>1. lo \in Nat /\ hi = lo + size /\ hi \in Nat
  OBVIOUS
<1>2. page = {n \in S : lo < Rank(S, n) /\ Rank(S, n) <= hi}
  BY DEF Page
<1>10. page = Page(S, size, k) /\ lo = (k - 1) * size /\ hi = k * size
  OBVIOUS
<1> HIDE DEF page, lo, hi
<1>3. page \in SUBSET S /\ IsFiniteSet(page) /\ Cardinality(page) \in Nat /\ Cardinality(S) \in Nat
  <2>1. page \in SUBSET S
    BY <1>2
  <2>2. IsFiniteSet(page)
    BY <2>1, FS_Subset
  <2> QED
    BY <2>1, <2>2, FS_CardinalityType
<1>4. IsFiniteSet(lo + 1..top) /\ Cardinality(lo + 1..top) = IF lo + 1 > top THEN 0 ELSE top - lo
  <2>1. lo + 1 \in Int /\ top \in Int
    BY <1>1, <1>3
  <2>2. top - (lo + 1) + 1 = top - lo
    BY <1>1, <2>1
  <2> HIDE DEF top
  <2> QED
    BY <2>1, <2>2, FS_Interval
<1>5. f \in [page -> lo + 1..top]
  <2>1. \A n \in page : Rank(S, n) \in lo + 1..top
    <3> TAKE n \in page
    <3>1. n \in S /\ lo < Rank(S, n) /\ Rank(S, n) <= hi
      BY <1>2
    <3>2. Rank(S, n) \in Nat /\ Rank(S, n) <= Cardinality(S)
      BY <3>1, RankIs
    <3> QED
      BY <1>1, <1>3, <3>1, <3>2
  <2> QED
    BY <2>1
<1>6. \A m, n \in page : f[m] = f[n] => m = n
  <2> SUFFICES ASSUME NEW m \in page, NEW n \in page, Rank(S, m) = Rank(S, n) PROVE m = n
    OBVIOUS
  <2>1. m \in S /\ n \in S /\ m \in Nat /\ n \in Nat /\ Rank(S, m) \in Nat /\ Rank(S, n) \in Nat
    BY <1>3, RankIs
  <2>2. ~ (m < n) /\ ~ (n < m)
    BY <2>1, RanksDiffer
  <2> QED
    BY <2>1, <2>2
<1>7. \A r \in lo + 1..top : \E n \in page : f[n] = r
  <2> TAKE r \in lo + 1..top
  <2>1. r \in 1..Cardinality(S) /\ lo < r /\ r <= hi
    BY <1>1, <1>3
  <2>2. PICK n \in S : Rank(S, n) = r
    BY <2>1, RanksFill
  <2>3. n \in page
    BY <1>2, <2>1, <2>2
  <2> QED
    BY <2>2, <2>3
<1>8. Cardinality(page) = IF lo + 1 > top THEN 0 ELSE top - lo
  <2> HIDE DEF f, top
  <2>1. f \in Injection(page, lo + 1..top)
    BY <1>5, <1>6 DEF Injection, IsInjective
  <2>2. f \in Surjection(page, lo + 1..top)
    BY <1>5, <1>7 DEF Surjection
  <2> QED
    BY <1>4, <2>1, <2>2, FS_Injection
<1>9. /\ Cardinality(page) <= size
      /\ \/ Cardinality(page) = size
         \/ Cardinality(S) < hi /\ Cardinality(S) <= lo + Cardinality(page)
  BY <1>1, <1>3, <1>8
<1> QED
  BY <1>1, <1>3, <1>9, <1>10

-----------------------------------------------------------------------------
(* Reading. *)

Lists == {"mine", "unassigned", "listed"}
PagingTyped ==
  /\ held \in [Lists -> SUBSET Nat] /\ \A s \in Lists : IsFiniteSet(held[s])
  /\ call \in [of : Lists \cup {"nothing"}, page : Nat \ {0}, got : SUBSET Nat, count : Nat,
               mine : SUBSET Nat, filter : {"any", "standard"}]

\* The list being read, the one that is read after it, what was read of both.
Found  == Matching(held[call.of], call.filter)
Coming == IF call.of = "mine" THEN Matching(held.unassigned, call.filter) ELSE {}
Had    == call.mine \cup call.got
Size   == IF call.of = "listed" THEN ListSize ELSE SearchSize
Before == (call.page - 1) * Size

\* What is sure was read, or its rank is one of those still to be asked for.
ReadRight ==
  call.of # "nothing" =>
    /\ call.of # "unassigned" => call.mine = {}
    /\ call.of = "listed" => call.filter = "any"
    /\ call.count = Before
    /\ sure \subseteq Had \cup Found \cup Coming
    /\ \A n \in sure \cap Found : n \in Had \/ Rank(Found, n) > Before

PagingRight == PagingTyped /\ ReadRight /\ NothingMissed

\* The types of the results that are being read.
LEMMA FoundIs ==
  ASSUME PagingTyped, call.of # "nothing"
  PROVE  /\ Found \in SUBSET Nat /\ IsFiniteSet(Found) /\ Found \subseteq held[call.of]
         /\ Size \in Nat \ {0} /\ call.page \in Nat \ {0} /\ call.of \in Lists
<1>1. call.of \in Lists /\ call.page \in Nat \ {0}
  BY DEF PagingTyped
<1>2. held[call.of] \in SUBSET Nat /\ IsFiniteSet(held[call.of])
  BY <1>1 DEF PagingTyped
<1>3. Found \in SUBSET held[call.of]
  BY DEF Found, Matching
<1>4. IsFiniteSet(Found)
  BY <1>2, <1>3, FS_Subset
<1>5. Size \in Nat \ {0}
  BY PagingAssumption DEF Size
<1> QED
  BY <1>1, <1>2, <1>3, <1>4, <1>5

\* When a page is the last one, all that is sure was read.
LEMMA LastPage ==
  ASSUME PagingTyped, ReadRight, call.of # "nothing", NEW page, page = Page(Found, Size, call.page),
         \/ Cardinality(page) < Size
         \/ call.count + Cardinality(page) >= Cardinality(Found)
  PROVE  sure \subseteq Had \cup page \cup Coming
<1> DEFINE k == call.page
<1>0. /\ Found \in SUBSET Nat /\ IsFiniteSet(Found) /\ Size \in Nat \ {0} /\ k \in Nat \ {0}
      /\ Cardinality(Found) \in Nat
  BY FoundIs, FS_CardinalityType
<1>1. /\ Cardinality(page) \in Nat /\ Before \in Nat /\ k * Size = Before + Size
      /\ Cardinality(page) <= Size
      /\ Cardinality(page) = Size \/ Cardinality(Found) < k * Size
  BY <1>0, PageIs DEF Before
<1>2. call.count = Before
  BY DEF ReadRight
<1>3. Cardinality(Found) <= k * Size
  BY <1>0, <1>1, <1>2
<1>4. ASSUME NEW n \in sure, n \in Found PROVE n \in Had \cup page
  <2>1. Rank(Found, n) \in Nat /\ Rank(Found, n) <= Cardinality(Found)
    BY <1>0, <1>4, RankIs
  <2>2. Rank(Found, n) <= k * Size
    BY <1>0, <1>1, <1>3, <2>1
  <2>3. n \in Had \/ Rank(Found, n) > Before
    BY <1>4 DEF ReadRight
  <2>4. Rank(Found, n) > Before => Before < Rank(Found, n)
    BY <1>1, <2>1
  <2> QED
    BY <1>4, <2>2, <2>3, <2>4 DEF Page, Before
<1> QED
  BY <1>4 DEF ReadRight

\* When it is not, it was full.
LEMMA OtherPage ==
  ASSUME PagingTyped, ReadRight, call.of # "nothing", NEW page, page = Page(Found, Size, call.page),
         ReadPage(page), Cardinality(page) = Size, UNCHANGED <<held, sure>>
  PROVE  PagingTyped' /\ ReadRight'
<1> DEFINE k == call.page
<1>0. /\ Found \in SUBSET Nat /\ IsFiniteSet(Found) /\ Size \in Nat \ {0} /\ k \in Nat \ {0}
      /\ call.of \in Lists
  BY FoundIs
<1>1. /\ page \in SUBSET Found /\ Cardinality(page) \in Nat /\ Before \in Nat
      /\ k * Size = Before + Size
  BY <1>0, PageIs DEF Before
<1>2. call' = [call EXCEPT !.page = k + 1, !.got = call.got \cup page, !.count = call.count + Size]
  BY DEF ReadPage
<1>3. PagingTyped'
  <2>1. /\ call.of \in Lists /\ k + 1 \in Nat \ {0} /\ call.got \cup page \in SUBSET Nat
        /\ call.count + Size \in Nat /\ call.mine \in SUBSET Nat /\ call.filter \in {"any", "standard"}
    <3>1. call.got \in SUBSET Nat /\ call.count \in Nat /\ call.mine \in SUBSET Nat
          /\ call.filter \in {"any", "standard"}
      BY DEF PagingTyped
    <3>2. k + 1 \in Nat \ {0} /\ call.count + Size \in Nat
      BY <1>0, <3>1
    <3>3. call.got \cup page \in SUBSET Nat
      BY <1>0, <1>1, <3>1
    <3> QED
      BY <1>0, <3>1, <3>2, <3>3
  <2>2. call' = [of |-> call.of, page |-> k + 1, got |-> call.got \cup page, count |-> call.count + Size,
                 mine |-> call.mine, filter |-> call.filter]
    <3>1. call = [of |-> call.of, page |-> call.page, got |-> call.got, count |-> call.count,
                  mine |-> call.mine, filter |-> call.filter]
      BY DEF PagingTyped
    <3> QED
      BY <1>2, <3>1
  <2>3. held' = held
    OBVIOUS
  <2> QED
    BY <2>1, <2>2, <2>3 DEF PagingTyped
<1>4. /\ call'.of = call.of /\ call'.page = k + 1 /\ call'.got = call.got \cup page
      /\ call'.count = call.count + Size /\ call'.mine = call.mine /\ call'.filter = call.filter
  BY <1>2 DEF PagingTyped
<1>5. Found' = Found /\ Coming' = Coming /\ Had' = Had \cup page /\ Size' = Size
  <2>1. held' = held
    OBVIOUS
  <2>2. Found' = Found
    BY <1>4, <2>1 DEF Found, Matching
  <2>3. Coming' = Coming
    BY <1>4, <2>1 DEF Coming, Matching
  <2>4. Had' = Had \cup page /\ Size' = Size
    BY <1>4 DEF Had, Size
  <2> QED
    BY <2>2, <2>3, <2>4
<1>6. Before' = k * Size
  BY <1>0, <1>4, <1>5 DEF Before
<1>7. call'.count = Before'
  BY <1>1, <1>4, <1>6 DEF ReadRight
<1>8. ASSUME NEW n \in sure, n \in Found PROVE n \in Had \cup page \/ Rank(Found, n) > k * Size
  <2>1. Rank(Found, n) \in Nat
    BY <1>0, <1>8, RankIs
  <2>2. n \in Had \/ Rank(Found, n) > Before
    BY <1>8 DEF ReadRight
  <2>3. Rank(Found, n) > Before => Before < Rank(Found, n) /\ (Rank(Found, n) <= k * Size \/ Rank(Found, n) > k * Size)
    BY <1>0, <1>1, <2>1
  <2> QED
    BY <1>8, <2>2, <2>3 DEF Page, Before
<1>9. sure' = sure
  OBVIOUS
<1> QED
  BY <1>3, <1>4, <1>5, <1>6, <1>7, <1>8, <1>9 DEF ReadRight

-----------------------------------------------------------------------------
(* Freshdesk changes. *)

\* What a change may do: of what stays sure nothing leaves, and nothing before it leaves the
\* list that is being read.
LEMMA Shifted ==
  ASSUME PagingTyped, ReadRight, UNCHANGED call, PagingTyped', sure' \subseteq sure,
         call.of \in Searches =>
            \A n \in sure', s \in Searches : n \in held[s] => n \in held'[s],
         call.of = "listed" => \A n \in sure' : n \in held.listed => n \in held'.listed,
         call.of # "nothing" =>
            \A n \in sure' : n \in held'[call.of] =>
               n \in Had \/ (n \in held[call.of] /\ \A m \in held[call.of] : m <= n => m \in held'[call.of])
  PROVE  ReadRight'
<1> SUFFICES ASSUME call.of # "nothing" PROVE ReadRight'
  BY DEF ReadRight
<1>1. /\ Found \in SUBSET Nat /\ IsFiniteSet(Found) /\ Size \in Nat \ {0}
      /\ call.page \in Nat \ {0} /\ call.of \in Lists
  BY FoundIs
<1>2. call' = call /\ Had' = Had /\ Size' = Size /\ Before' = Before
  BY DEF Had, Size, Before
<1>3. Found' \in SUBSET Nat /\ IsFiniteSet(Found')
  <2>1. held' \in [Lists -> SUBSET Nat] /\ IsFiniteSet(held'[call.of])
    BY <1>1 DEF PagingTyped
  <2>2. Found' = Matching(held'[call.of], call.filter)
    BY <1>2 DEF Found, Matching
  <2>3. Found' \in SUBSET held'[call.of] /\ held'[call.of] \in SUBSET Nat
    BY <1>1, <2>1, <2>2 DEF Matching
  <2> QED
    BY <2>1, <2>3, FS_Subset
<1>4. \A n \in sure' : n \in Found => n \in Found'
  BY <1>1, <1>2 DEF Found, Matching, Searches, Lists
<1>5. \A n \in sure' : n \in Coming => n \in Coming'
  BY <1>1, <1>2 DEF Coming, Matching, Searches
<1>6. ASSUME NEW n \in sure', n \in Found', n \notin Had PROVE Rank(Found', n) > Before
  <2>1. n \in Found /\ \A m \in Found : m <= n => m \in Found'
    BY <1>1, <1>2, <1>6 DEF Found, Matching
  <2>2. Rank(Found, n) <= Rank(Found', n)
    BY <1>1, <1>3, <2>1, RankGrows
  <2>3. Rank(Found, n) \in Nat /\ Rank(Found', n) \in Nat
    BY <1>1, <1>3, <2>1, RankIs
  <2>4. Rank(Found, n) > Before
    BY <1>6, <2>1 DEF ReadRight
  <2>5. Before \in Int
    BY <1>1 DEF Before
  <2> QED
    BY <2>2, <2>3, <2>4, <2>5
<1>7. sure' \subseteq Had' \cup Found' \cup Coming'
  BY <1>2, <1>4, <1>5 DEF ReadRight
<1>8. \A n \in sure' : n \in Found' => n \in Had' \/ Rank(Found', n) > Before'
  BY <1>2, <1>6
<1> QED
  BY <1>2, <1>7, <1>8 DEF ReadRight

\* A ticket moves: the ranks of what stays sure do not fall.
LEMMA Moving ==
  ASSUME PagingRight, NEW t \in Tickets, Move(t)
  PROVE  PagingRight'
<1>1. /\ held \in [Lists -> SUBSET Nat] /\ \A s \in Lists : IsFiniteSet(held[s])
      /\ call' = call /\ answer' = answer /\ t \in Nat
  BY PagingAssumption DEF PagingRight, PagingTyped, Move
<1>2. PICK from \in Searches \cup {"other"}, to \in Searches \cup {"other"} :
        /\ from # to
        /\ held' = [s \in DOMAIN held |-> IF s = to THEN held[s] \cup {t}
                                          ELSE IF s = from THEN held[s] \ {t} ELSE held[s]]
        /\ sure' = IF call.of \in Searches THEN sure \ Unsure(t, from) ELSE sure
  BY DEF Move
<1>3. \A s \in Lists : held'[s] = IF s = to THEN held[s] \cup {t}
                                  ELSE IF s = from THEN held[s] \ {t} ELSE held[s]
  BY <1>1, <1>2
<1>4. \A s \in Lists : held'[s] \in SUBSET Nat /\ IsFiniteSet(held'[s])
  <2> TAKE s \in Lists
  <2>1. held[s] \in SUBSET Nat /\ IsFiniteSet(held[s] \cup {t}) /\ IsFiniteSet(held[s] \ {t})
        /\ IsFiniteSet(held[s])
    BY <1>1, FS_AddElement, FS_RemoveElement
  <2> QED
    BY <1>1, <1>3, <2>1
<1>5. PagingTyped'
  <2>1. DOMAIN held = Lists
    BY <1>1
  <2>2. held' \in [Lists -> SUBSET Nat]
    BY <1>2, <1>3, <1>4, <2>1
  <2> QED
    BY <1>1, <1>4, <2>2 DEF PagingRight, PagingTyped
<1>6. sure' \subseteq sure
  BY <1>2
<1>7. "listed" \in Lists /\ held'["listed"] = held["listed"]
  BY <1>2, <1>3 DEF Searches, Lists
<1>8. ASSUME call.of \in Searches
      PROVE  /\ \A n \in sure', s \in Searches : n \in held[s] => n \in held'[s]
             /\ \A n \in sure' : n \in held'[call.of] =>
                   n \in held[call.of] /\ \A m \in held[call.of] : m <= n => m \in held'[call.of]
  <2>0. Searches \subseteq Lists /\ sure' = sure \ Unsure(t, from)
    BY <1>2, <1>8 DEF Searches, Lists
  <2>1. \A n \in sure' : n # t
    BY <2>0 DEF Unsure
  <2>2. \A n \in sure', s \in Searches : n \in held[s] => n \in held'[s]
    BY <1>3, <2>0, <2>1
  <2>3. ASSUME NEW n \in sure', n \in held'[call.of]
        PROVE  n \in held[call.of] /\ \A m \in held[call.of] : m <= n => m \in held'[call.of]
    <3>1. n \in held[call.of]
      BY <1>3, <1>8, <2>0, <2>1, <2>3
    <3>2. from = call.of => ~ (n > t)
      BY <2>0, <3>1 DEF Unsure
    <3>3. ASSUME NEW m \in held[call.of], m <= n, m \notin held'[call.of] PROVE FALSE
      <4>1. from = call.of /\ m = t
        BY <1>3, <1>8, <2>0, <3>3
      <4>2. n \in Nat
        BY <1>1, <1>8, <2>0, <3>1
      <4> QED
        BY <1>1, <2>1, <3>2, <3>3, <4>1, <4>2
    <3> QED
      BY <3>1, <3>3
  <2> QED
    BY <2>2, <2>3
<1>9. ASSUME call.of = "listed"
      PROVE  /\ \A n \in sure' : n \in held.listed => n \in held'.listed
             /\ \A n \in sure' : n \in held'[call.of] =>
                   n \in held[call.of] /\ \A m \in held[call.of] : m <= n => m \in held'[call.of]
  BY <1>7, <1>9
<1>10. call.of \in Searches \cup {"listed", "nothing"}
  BY DEF PagingRight, PagingTyped, Searches, Lists
<1>11. ReadRight'
  BY <1>1, <1>5, <1>6, <1>8, <1>9, <1>10, Shifted DEF PagingRight, Searches
<1>12. NothingMissed'
  BY <1>1, <1>6 DEF PagingRight, NothingMissed, Answered
<1> QED
  BY <1>5, <1>11, <1>12 DEF PagingRight

\* Numbers grow: a conversation that is added comes last.
LEMMA Adding ==
  ASSUME PagingRight, AddConversation
  PROVE  PagingRight'
<1>1. /\ held \in [Lists -> SUBSET Nat] /\ \A s \in Lists : IsFiniteSet(held[s])
      /\ call' = call /\ answer' = answer /\ sure' = sure
  BY DEF PagingRight, PagingTyped, AddConversation
<1>2. PICK n \in 1..MaxListed : /\ \A m \in held.listed : m < n
                                /\ held' = [held EXCEPT !.listed = held.listed \cup {n}]
  BY DEF AddConversation
<1>3. n \in Nat
  BY <1>2, PagingAssumption
<1>4. /\ held'.listed = held.listed \cup {n} /\ held.listed \in SUBSET Nat
      /\ \A s \in Lists \ {"listed"} : held'[s] = held[s]
  BY <1>1, <1>2 DEF Lists
<1>5. PagingTyped'
  <2>1. IsFiniteSet(held.listed \cup {n})
    BY <1>1, FS_AddElement DEF Lists
  <2>2. held' \in [Lists -> SUBSET Nat]
    BY <1>1, <1>2, <1>3, <1>4 DEF Lists
  <2> QED
    BY <1>1, <1>4, <2>1, <2>2 DEF PagingRight, PagingTyped
<1>6. ASSUME call.of = "listed", NEW i \in sure, i \in held'[call.of]
      PROVE  i \in Had \/ (i \in held[call.of] /\ \A m \in held[call.of] : m <= i => m \in held'[call.of])
  <2>1. Found \subseteq held[call.of] /\ Coming = {}
    BY <1>6 DEF Found, Coming, Matching
  <2>2. i \in Had \/ i \in held[call.of]
    BY <1>6, <2>1 DEF PagingRight, ReadRight
  <2> QED
    BY <1>4, <1>6, <2>2
<1>7. call.of \in {"mine", "unassigned", "listed", "nothing"}
  BY DEF PagingRight, PagingTyped, Lists
<1>8. ASSUME call.of \in Searches, NEW s \in Searches PROVE held'[s] = held[s]
  BY <1>4 DEF Searches, Lists
<1>9. ReadRight'
  BY <1>1, <1>4, <1>5, <1>6, <1>7, <1>8, Shifted DEF PagingRight, Searches
<1>10. NothingMissed'
  BY <1>1 DEF PagingRight, NothingMissed, Answered
<1> QED
  BY <1>5, <1>9, <1>10 DEF PagingRight

\* The same for a conversation that is deleted.
LEMMA Deleting ==
  ASSUME PagingRight, DeleteConversation
  PROVE  PagingRight'
<1>1. /\ held \in [Lists -> SUBSET Nat] /\ \A s \in Lists : IsFiniteSet(held[s])
      /\ call' = call /\ answer' = answer
  BY DEF PagingRight, PagingTyped, DeleteConversation
<1>2. PICK n \in held.listed :
        /\ held' = [held EXCEPT !.listed = held.listed \ {n}]
        /\ sure' = IF call.of = "listed" THEN sure \ Unsure(n, "listed") ELSE sure
  BY DEF DeleteConversation
<1>3. /\ held'.listed = held.listed \ {n} /\ held.listed \in SUBSET Nat /\ n \in Nat
      /\ \A s \in Lists \ {"listed"} : held'[s] = held[s]
  BY <1>1, <1>2 DEF Lists
<1>4. PagingTyped'
  <2>1. IsFiniteSet(held.listed \ {n})
    BY <1>1, FS_RemoveElement DEF Lists
  <2>2. held' \in [Lists -> SUBSET Nat]
    BY <1>1, <1>2, <1>3 DEF Lists
  <2> QED
    BY <1>1, <1>3, <2>1, <2>2 DEF PagingRight, PagingTyped
<1>5. sure' \subseteq sure
  BY <1>2
<1>6. ASSUME call.of = "listed", NEW i \in sure'
      PROVE  /\ i \in held.listed => i \in held'.listed
             /\ i \in held'[call.of] =>
                  i \in held[call.of] /\ \A m \in held[call.of] : m <= i => m \in held'[call.of]
  <2>1. i # n /\ (i \in held.listed => ~ (i > n))
    BY <1>2, <1>6 DEF Unsure
  <2>2. ASSUME NEW m \in held.listed, i \in held.listed, m <= i PROVE m # n
    BY <1>3, <2>1, <2>2
  <2> QED
    BY <1>3, <1>6, <2>1, <2>2
<1>7. call.of \in {"mine", "unassigned", "listed", "nothing"}
  BY DEF PagingRight, PagingTyped, Lists
<1>8. ASSUME call.of \in Searches, NEW s \in Searches PROVE held'[s] = held[s]
  BY <1>3 DEF Searches, Lists
<1>9. ReadRight'
  BY <1>1, <1>4, <1>5, <1>6, <1>7, <1>8, Shifted DEF PagingRight, Searches
<1>10. NothingMissed'
  BY <1>1, <1>5 DEF PagingRight, NothingMissed, Answered
<1> QED
  BY <1>4, <1>9, <1>10 DEF PagingRight

-----------------------------------------------------------------------------
(* The handlers. *)

\* A list is asked for from its first page.
LEMMA Beginning ==
  ASSUME PagingTyped, NEW list \in Lists, NEW m \in SUBSET Nat, NEW filter \in {"any", "standard"},
         call' = [of |-> list, page |-> 1, got |-> {}, count |-> 0, mine |-> m, filter |-> filter],
         held' = held,
         list # "unassigned" => m = {}, list = "listed" => filter = "any",
         sure' \subseteq m \cup Matching(held[list], filter)
                    \cup IF list = "mine" THEN Matching(held.unassigned, filter) ELSE {}
  PROVE  PagingTyped' /\ ReadRight'
<1>1. call' = [of |-> list, page |-> 1, got |-> {}, count |-> 0, mine |-> m, filter |-> filter]
  OBVIOUS
<1>6. /\ call'.count = 0 /\ call'.of = list /\ call'.mine = m /\ call'.filter = filter
      /\ call'.page = 1 /\ call'.got = {}
  BY <1>1
<1>2. PagingTyped'
  BY <1>1 DEF PagingTyped
<1>3. Found' = Matching(held[list], filter) /\ Had' = m /\ Before' = 0
      /\ Coming' = IF list = "mine" THEN Matching(held.unassigned, filter) ELSE {}
  <2>1. Found' = Matching(held[list], filter)
    BY <1>6 DEF Found, Matching
  <2>2. Had' = m
    BY <1>6 DEF Had
  <2>3. Coming' = IF list = "mine" THEN Matching(held.unassigned, filter) ELSE {}
    BY <1>6 DEF Coming, Matching
  <2>4. Before' = 0
    <3>1. Size' \in Nat
      BY PagingAssumption DEF Size
    <3>2. \A x \in Nat : (1 - 1) * x = 0
      OBVIOUS
    <3>3. Before' = (1 - 1) * Size'
      BY <1>6 DEF Before
    <3> QED
      BY <3>1, <3>2, <3>3
  <2> QED
    BY <2>1, <2>2, <2>3, <2>4
<1>4. Found' \in SUBSET Nat /\ IsFiniteSet(Found')
  <2>1. held[list] \in SUBSET Nat /\ IsFiniteSet(held[list])
    BY DEF PagingTyped
  <2>2. Found' \in SUBSET held[list]
    BY <1>3 DEF Matching
  <2> QED
    BY <2>1, <2>2, FS_Subset
<1>5. \A n \in Found' : Rank(Found', n) > 0
  <2> TAKE n \in Found'
  <2>1. n \in Nat /\ Rank(Found', n) \in Nat /\ Rank(Found', n) >= 1
    BY <1>4, RankIs
  <2> QED
    BY <2>1
<1> QED
  BY <1>2, <1>3, <1>5, <1>6 DEF ReadRight

\* Nothing is being read.
LEMMA Ending ==
  ASSUME PagingTyped, call' = Idle, held' = held
  PROVE  PagingTyped' /\ ReadRight'
<1>1. call' = [of |-> "nothing", page |-> 1, got |-> {}, count |-> 0, mine |-> {}, filter |-> "any"]
  BY DEF Idle
<1> QED
  BY <1>1 DEF PagingTyped, ReadRight

\* A board begins with nothing read and the first page to ask for.
LEMMA BoardAsked ==
  ASSUME PagingRight, ReadBoard
  PROVE  PagingRight'
<1>1. PICK filter \in {"any", "standard"} :
        /\ call' = [Idle EXCEPT !.of = "mine", !.filter = filter]
        /\ sure' = Matching(held.mine \cup held.unassigned, filter)
  BY DEF ReadBoard
<1>2. call' = [of |-> "mine", page |-> 1, got |-> {}, count |-> 0, mine |-> {}, filter |-> filter]
  BY <1>1 DEF Idle
<1>3. held' = held /\ answer' = None
  BY DEF ReadBoard
<1>4. sure' \subseteq {} \cup Matching(held["mine"], filter)
                    \cup IF "mine" = "mine" THEN Matching(held.unassigned, filter) ELSE {}
  BY <1>1 DEF Matching
<1>5. PagingTyped' /\ ReadRight'
  BY <1>2, <1>3, <1>4, Beginning DEF PagingRight, Lists
<1> QED
  BY <1>3, <1>5 DEF PagingRight, NothingMissed, Answered

\* So does a list of conversations.
LEMMA ListAsked ==
  ASSUME PagingRight, ReadList
  PROVE  PagingRight'
<1>1. call' = [of |-> "listed", page |-> 1, got |-> {}, count |-> 0, mine |-> {}, filter |-> "any"]
      /\ sure' = held.listed /\ held' = held /\ answer' = None
  BY DEF ReadList, Idle
<1>2. sure' \subseteq {} \cup Matching(held["listed"], "any")
                    \cup IF "listed" = "mine" THEN Matching(held.unassigned, "any") ELSE {}
  BY <1>1 DEF Matching
<1>3. PagingTyped' /\ ReadRight'
  BY <1>1, <1>2, Beginning DEF PagingRight, Lists
<1> QED
  BY <1>1, <1>3 DEF PagingRight, NothingMissed, Answered

\* A search is done: `got` is what was read of it.
LEMMA SearchDone ==
  ASSUME PagingRight, call.of \in Searches, NEW got \in SUBSET Nat, NextSearch(got), held' = held,
         sure' \subseteq call.mine \cup got \cup Coming
  PROVE  PagingRight'
<1>0. PagingTyped /\ ReadRight /\ call.filter \in {"any", "standard"}
  BY DEF PagingRight, PagingTyped
<1>1. CASE call.of = "mine"
  <2>1. call' = [of |-> "unassigned", page |-> 1, got |-> {}, count |-> 0, mine |-> got, filter |-> call.filter]
    BY <1>1 DEF NextSearch, Idle
  <2>2. call.mine = {} /\ Coming = Matching(held["unassigned"], call.filter)
    BY <1>0, <1>1 DEF ReadRight, Coming
  <2>3. sure' \subseteq got \cup Matching(held["unassigned"], call.filter)
                     \cup IF "unassigned" = "mine" THEN Matching(held.unassigned, call.filter) ELSE {}
    BY <2>2
  <2>4. PagingTyped' /\ ReadRight'
    BY <1>0, <2>1, <2>3, Beginning DEF Lists
  <2>5. call'.of = "unassigned"
    BY <2>1
  <2> QED
    BY <2>4, <2>5 DEF PagingRight, NothingMissed, Answered
<1>2. CASE call.of = "unassigned"
  <2>1. call' = Idle /\ answer' = call.mine \cup got /\ Coming = {}
    BY <1>2 DEF NextSearch, Coming
  <2>2. PagingTyped' /\ ReadRight'
    BY <1>0, <2>1, Ending
  <2> QED
    BY <2>1, <2>2 DEF PagingRight, NothingMissed, Answered
<1> QED
  BY <1>1, <1>2 DEF Searches

\* A page of a search: the last one of the first search makes way for the second search.
LEMMA Searching ==
  ASSUME PagingRight, Search
  PROVE  PagingRight'
<1> DEFINE page == Page(Found, SearchSize, call.page)
<1>1. /\ call.of \in Searches /\ call.of # "nothing" /\ held' = held /\ sure' = sure
      /\ Size = SearchSize /\ PagingTyped /\ ReadRight
  BY DEF Search, PagingRight, Searches, Size
<1>2. /\ Found \in SUBSET Nat /\ IsFiniteSet(Found) /\ Size \in Nat \ {0} /\ call.page \in Nat \ {0}
      /\ call.got \in SUBSET Nat /\ call.count \in Nat
  BY <1>1, FoundIs DEF PagingTyped
<1>3. IF SearchRead(call.count + Cardinality(page), page, Cardinality(Found))
        THEN NextSearch(call.got \cup page) ELSE ReadPage(page)
  BY DEF Search, Found
<1>4. /\ page \in SUBSET Nat /\ Cardinality(page) \in Nat /\ Cardinality(page) <= Size
      /\ page = {} => Cardinality(page) = 0
  <2>1. page \in SUBSET Found /\ Cardinality(page) \in Nat /\ Cardinality(page) <= Size
    BY <1>1, <1>2, PageIs
  <2> QED
    BY <1>2, <2>1, FS_EmptySet
<1>5. page = Page(Found, Size, call.page)
  BY <1>1
<1> HIDE DEF page
<1>6. CASE SearchRead(call.count + Cardinality(page), page, Cardinality(Found))
  <2>1. Cardinality(page) < Size \/ call.count + Cardinality(page) >= Cardinality(Found)
    BY <1>2, <1>4, <1>6 DEF SearchRead
  <2>2. sure \subseteq Had \cup page \cup Coming
    BY <1>1, <1>5, <2>1, LastPage
  <2>3. NextSearch(call.got \cup page) /\ call.got \cup page \in SUBSET Nat
        /\ sure' \subseteq call.mine \cup (call.got \cup page) \cup Coming
    BY <1>1, <1>2, <1>3, <1>4, <1>6, <2>2 DEF Had
  <2> QED
    BY <1>1, <2>3, SearchDone
<1>7. CASE ~ SearchRead(call.count + Cardinality(page), page, Cardinality(Found))
  <2>1. ReadPage(page) /\ ~ (call.count + Cardinality(page) >= Cardinality(Found))
    BY <1>3, <1>7 DEF SearchRead
  <2>2. Cardinality(page) = Size
    <3>1. Cardinality(Found) \in Nat
      BY <1>2, FS_CardinalityType
    <3>2. /\ Before \in Nat /\ call.page * Size = Before + Size
          /\ Cardinality(page) = Size \/ Cardinality(Found) <= Before + Cardinality(page)
      BY <1>2, <1>5, PageIs DEF Before
    <3>3. call.count = Before
      BY <1>1 DEF ReadRight
    <3> QED
      BY <1>2, <1>4, <2>1, <3>1, <3>2, <3>3
  <2>3. PagingTyped' /\ ReadRight'
    BY <1>1, <1>5, <2>1, <2>2, OtherPage
  <2>4. call'.of # "nothing"
    BY <1>1, <2>1 DEF ReadPage, PagingTyped
  <2> QED
    BY <2>3, <2>4 DEF PagingRight, NothingMissed, Answered
<1> QED
  BY <1>6, <1>7

\* A search fails: no board, or one that promises nothing of the second search.
LEMMA Failing ==
  ASSUME PagingRight, SearchFails
  PROVE  PagingRight'
<1>1. PagingTyped /\ ReadRight /\ held' = held /\ call.of \in Searches /\ call.got \in SUBSET Nat
  BY DEF PagingRight, PagingTyped, SearchFails
<1>2. CASE call.of = "mine"
  <2>1. call' = Idle /\ sure' = {}
    BY <1>2 DEF SearchFails
  <2> QED
    BY <1>1, <2>1, Ending DEF PagingRight, NothingMissed
<1>3. CASE call.of = "unassigned"
  <2>1. NextSearch(call.got) /\ sure' = sure \ held.unassigned
    BY <1>3 DEF SearchFails
  <2>2. Found \subseteq held.unassigned /\ Coming = {}
    BY <1>3 DEF Found, Coming, Matching
  <2>3. sure' \subseteq call.mine \cup call.got \cup Coming
    BY <1>1, <1>3, <2>1, <2>2 DEF ReadRight, Had
  <2> QED
    BY <1>1, <2>1, <2>3, SearchDone
<1> QED
  BY <1>1, <1>2, <1>3 DEF Searches

\* A page of a list.
LEMMA Listing ==
  ASSUME PagingRight, List
  PROVE  PagingRight'
<1> DEFINE page == Page(held.listed, ListSize, call.page)
<1>1. /\ call.of = "listed" /\ held' = held /\ sure' = sure /\ Size = ListSize
      /\ PagingTyped /\ ReadRight
  BY DEF List, PagingRight, Size
<1>2. call.filter = "any" /\ call.mine = {} /\ Found = held.listed /\ Coming = {} /\ Had = call.got
  BY <1>1 DEF ReadRight, Found, Coming, Had, Matching
<1>3. /\ Found \in SUBSET Nat /\ IsFiniteSet(Found) /\ Size \in Nat \ {0} /\ call.page \in Nat \ {0}
  BY <1>1, FoundIs
<1>4. page = Page(Found, Size, call.page) /\ IF ListRead(page) THEN call' = Idle /\ answer' = call.got \cup page
                                           ELSE ReadPage(page)
  BY <1>1, <1>2 DEF List
<1> HIDE DEF page
<1>5. Cardinality(page) \in Nat /\ Cardinality(page) <= Size /\ (page = {} => Cardinality(page) = 0)
  <2>1. Cardinality(page) \in Nat /\ Cardinality(page) <= Size
    BY <1>3, <1>4, PageIs
  <2> QED
    BY <2>1, FS_EmptySet
<1>6. CASE ListRead(page)
  <2>1. Cardinality(page) < Size
    BY <1>1, <1>3, <1>5, <1>6 DEF ListRead
  <2>2. sure \subseteq call.got \cup page
    BY <1>1, <1>2, <1>4, <2>1, LastPage
  <2>3. PagingTyped' /\ ReadRight'
    BY <1>1, <1>4, <1>6, Ending
  <2> QED
    BY <1>1, <1>4, <1>6, <2>2, <2>3 DEF PagingRight, NothingMissed
<1>7. CASE ~ ListRead(page)
  <2>1. ReadPage(page) /\ Cardinality(page) = Size
    BY <1>1, <1>3, <1>4, <1>5, <1>7 DEF ListRead
  <2>2. PagingTyped' /\ ReadRight'
    BY <1>1, <1>4, <2>1, OtherPage
  <2>3. call'.of = "listed"
    BY <1>1, <2>1 DEF ReadPage, PagingTyped
  <2> QED
    BY <2>2, <2>3 DEF PagingRight, NothingMissed, Answered
<1> QED
  BY <1>6, <1>7

\* A list that fails has no answer.
LEMMA ListFailing ==
  ASSUME PagingRight, ListFails
  PROVE  PagingRight'
<1>1. call' = Idle /\ sure' = {} /\ held' = held /\ PagingTyped
  BY DEF ListFails, PagingRight
<1> QED
  BY <1>1, Ending DEF PagingRight, NothingMissed

\* At first nothing is being read.
LEMMA PagingInit ==
  ASSUME Init
  PROVE  PagingRight
<1>1. PICK place \in [Tickets -> {"mine", "unassigned", "other"}], n \in 0..MaxListed :
        held = [mine       |-> {t \in Tickets : place[t] = "mine"},
                unassigned |-> {t \in Tickets : place[t] = "unassigned"},
                listed     |-> 1..n]
  BY DEF Init
<1>2. {t \in Tickets : place[t] = "mine"} \in SUBSET Tickets
      /\ {t \in Tickets : place[t] = "unassigned"} \in SUBSET Tickets
  OBVIOUS
<1>3. n \in Nat /\ 1..n \in SUBSET Nat /\ IsFiniteSet(1..n)
  <2>1. n \in Nat
    BY PagingAssumption
  <2> QED
    BY <2>1, FS_Interval
<1>4. /\ held.mine \in SUBSET Nat /\ held.unassigned \in SUBSET Nat /\ held.listed \in SUBSET Nat
      /\ IsFiniteSet(held.mine) /\ IsFiniteSet(held.unassigned) /\ IsFiniteSet(held.listed)
  BY <1>1, <1>2, <1>3, PagingAssumption, FS_Subset
<1>5. held \in [Lists -> SUBSET Nat] /\ \A s \in Lists : IsFiniteSet(held[s])
  BY <1>1, <1>4 DEF Lists
<1>6. call = [of |-> "nothing", page |-> 1, got |-> {}, count |-> 0, mine |-> {}, filter |-> "any"]
      /\ sure = {}
  BY DEF Init, Idle
<1> QED
  BY <1>5, <1>6 DEF PagingRight, PagingTyped, ReadRight, NothingMissed

(* client.go:203-256: however many tickets and pages there are and however  *)
(* the results shift meanwhile, a board and a list of conversations have    *)
(* everything that was there all the time it was read, unless something     *)
(* before it left the same results.                                         *)
THEOREM Reading == Spec => []NothingMissed
<1>1. Init => PagingRight
  BY PagingInit
<1>2. PagingRight /\ [Next]_vars => PagingRight'
  <2> SUFFICES ASSUME PagingRight, [Next]_vars PROVE PagingRight'
    OBVIOUS
  <2>1. CASE UNCHANGED vars
    BY <2>1 DEF vars, PagingRight, PagingTyped, ReadRight, NothingMissed, Answered, Found, Coming, Had,
                Size, Before, Matching
  <2> QED
    BY <2>1, Moving, Adding, Deleting, BoardAsked, Searching, Failing, ListAsked, Listing, ListFailing
       DEF Next
<1>3. PagingRight => NothingMissed
  BY DEF PagingRight
<1> QED
  BY <1>1, <1>2, <1>3, PTL DEF Spec
=============================================================================
