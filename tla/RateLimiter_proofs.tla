------------------------- MODULE RateLimiter_proofs -------------------------
(***************************************************************************)
(* Spacing of admissions, for any number of goroutines, tickets, restarts  *)
(* and any interval.                                                       *)
(***************************************************************************)
EXTENDS RateLimiter, TLAPS

(* The constants' types are all that type correctness needs: the limiter   *)
(* never stores anything but clock readings (ratelimit.go:22-33).          *)
THEOREM Typing == Spec => []TypeOK
<1>1. Init => TypeOK
  BY LimiterAssumption DEF Init, TypeOK
<1>2. TypeOK /\ [Next]_vars => TypeOK'
  <2> SUFFICES ASSUME TypeOK, [Next]_vars PROVE TypeOK'
    OBVIOUS
  <2> USE LimiterAssumption DEF TypeOK
  <2>1. CASE Tick
    BY <2>1 DEF Tick
  <2>2. CASE Restart
    BY <2>2 DEF Restart
  <2>3. ASSUME NEW c \in Callers, Lock(c) PROVE TypeOK'
    BY <2>3 DEF Lock
  <2>4. ASSUME NEW c \in Callers, Check(c) PROVE TypeOK'
    BY <2>4 DEF Check
  <2>5. ASSUME NEW c \in Callers, Record(c) PROVE TypeOK'
    BY <2>5 DEF Record
  <2>6. CASE UNCHANGED vars
    BY <2>6 DEF vars
  <2> QED
    BY <2>1, <2>2, <2>3, <2>4, <2>5, <2>6 DEF Next
<1> QED
  BY <1>1, <1>2, PTL DEF Spec

-----------------------------------------------------------------------------
(* Why spacing holds: only the holder of the mutex is between Check and    *)
(* Record, so the map still says what Check read; and the map's entry is   *)
(* the latest admission of this life.                                      *)

HolderOnly == \A c \in Callers : pc[c] \in {"locked", "record"} => lock = c

Called == \A c \in Callers : pc[c] # "idle" => key[c] \in Keys

NotAhead == \A c \in Callers : at[c] <= now /\ born[c] <= life

BornNow == \A c \in Callers : pc[c] = "record" => born[c] = life

StillFree ==
    \A c \in Callers : pc[c] = "record" /\ last[key[c]] # None =>
                           at[c] >= last[key[c]] + Interval

LastIsLatest ==
    \A c \in Callers : Admitted(c) /\ born[c] = life =>
                           last[key[c]] # None /\ at[c] <= last[key[c]]

IInv == /\ TypeOK /\ HolderOnly /\ Called /\ NotAhead /\ BornNow
        /\ StillFree /\ LastIsLatest /\ SpacedInProcess

LEMMA InitIInv == Init => IInv
  BY LimiterAssumption
  DEF Init, IInv, TypeOK, HolderOnly, Called, NotAhead, BornNow, StillFree, LastIsLatest,
      SpacedInProcess, Admitted

LEMMA NextIInv == IInv /\ TypeOK' /\ [Next]_vars => IInv'
<1> SUFFICES ASSUME IInv, TypeOK', [Next]_vars PROVE IInv'
  OBVIOUS
<1> USE LimiterAssumption DEF IInv, TypeOK, HolderOnly, Called, NotAhead, BornNow, StillFree,
                              LastIsLatest, SpacedInProcess, Admitted
<1>1. CASE Tick
  BY <1>1 DEF Tick
<1>2. CASE Restart
  BY <1>2 DEF Restart
<1>3. ASSUME NEW c \in Callers, Lock(c) PROVE IInv'
  BY <1>3 DEF Lock
<1>4. ASSUME NEW c \in Callers, Check(c) PROVE IInv'
  BY <1>4 DEF Check, TooSoon
<1>5. ASSUME NEW c \in Callers, Record(c) PROVE IInv'
  BY <1>5 DEF Record
<1>6. CASE UNCHANGED vars
  BY <1>6 DEF vars
<1> QED
  BY <1>1, <1>2, <1>3, <1>4, <1>5, <1>6 DEF Next

(* ticket.go:358: admissions of one ticket are at least Interval apart     *)
(* while the process lives, whatever the number of concurrent handlers.    *)
THEOREM Spacing == Spec => []SpacedInProcess
<1>1. IInv => SpacedInProcess
  BY DEF IInv
<1> QED
  BY <1>1, InitIInv, NextIInv, Typing, PTL DEF Spec

-----------------------------------------------------------------------------
(* Why refusals are justified: every entry of the map is an admission.     *)

EntryIsAdmission ==
    \A k \in Keys : last[k] # None =>
       \E c \in Callers : Admitted(c) /\ key[c] = k /\ born[c] = life /\ at[c] = last[k]

DInv == IInv /\ EntryIsAdmission /\ DenialsJustified

LEMMA NextDInv == DInv /\ IInv' /\ [Next]_vars => DInv'
<1> SUFFICES ASSUME DInv, IInv', [Next]_vars PROVE DInv'
  OBVIOUS
<1> USE LimiterAssumption DEF DInv, IInv, TypeOK, Called, NotAhead, BornNow,
                              EntryIsAdmission, DenialsJustified, Admitted
<1>1. CASE Tick
  BY <1>1 DEF Tick
<1>2. CASE Restart
  BY <1>2 DEF Restart
<1>3. ASSUME NEW c \in Callers, Lock(c) PROVE DInv'
  BY <1>3 DEF Lock
<1>4. ASSUME NEW c \in Callers, Check(c) PROVE DInv'
  <2>1. ASSUME NEW k \in Keys, last'[k] # None
        PROVE  \E e \in Callers : /\ Admitted(e)' /\ key'[e] = k
                                  /\ born'[e] = life' /\ at'[e] = last'[k]
    <3>1. PICK e \in Callers : Admitted(e) /\ key[e] = k /\ born[e] = life /\ at[e] = last[k]
      BY <1>4, <2>1 DEF Check
    <3> QED
      BY <1>4, <3>1 DEF Check
  <2>2. ASSUME NEW d \in Callers, pc'[d] = "denied"
        PROVE  \E e \in Callers : /\ Admitted(e)' /\ key'[e] = key'[d] /\ born'[e] = born'[d]
                                  /\ at'[e] <= at'[d] /\ at'[d] < at'[e] + Interval
    <3>1. CASE d = c
      <4>1. PICK e \in Callers : /\ Admitted(e) /\ key[e] = key[c]
                                 /\ born[e] = life /\ at[e] = last[key[c]]
        BY <1>4, <2>2, <3>1 DEF Check, TooSoon
      <4> QED
        BY <1>4, <2>2, <3>1, <4>1 DEF Check, TooSoon
    <3>2. CASE d # c
      <4>1. PICK e \in Callers : /\ Admitted(e) /\ key[e] = key[d] /\ born[e] = born[d]
                                 /\ at[e] <= at[d] /\ at[d] < at[e] + Interval
        BY <1>4, <2>2, <3>2 DEF Check
      <4> QED
        BY <1>4, <3>2, <4>1 DEF Check
    <3> QED
      BY <3>1, <3>2
  <2> QED
    BY <2>1, <2>2
<1>5. ASSUME NEW c \in Callers, Record(c) PROVE DInv'
  <2>1. EntryIsAdmission'
    BY <1>5 DEF Record
  <2>2. ASSUME NEW d \in Callers, pc'[d] = "denied"
        PROVE  \E e \in Callers : /\ Admitted(e)' /\ key'[e] = key'[d] /\ born'[e] = born'[d]
                                  /\ at'[e] <= at'[d] /\ at'[d] < at'[e] + Interval
    BY <1>5, <2>2 DEF Record
  <2> QED
    BY <2>1, <2>2
<1>6. CASE UNCHANGED vars
  BY <1>6 DEF vars
<1> QED
  BY <1>1, <1>2, <1>3, <1>4, <1>5, <1>6 DEF Next

(* ratelimit.go:19-22: whoever is refused asked within Interval of an      *)
(* admission of the same ticket in the same process.                       *)
THEOREM Denials == Spec => []DenialsJustified
<1>1. Init => DInv
  BY InitIInv, LimiterAssumption DEF Init, DInv, EntryIsAdmission, DenialsJustified
<1>2. Spec => []IInv
  BY InitIInv, NextIInv, Typing, PTL DEF Spec
<1>3. DInv => DenialsJustified
  BY DEF DInv
<1> QED
  BY <1>1, <1>2, <1>3, NextDInv, PTL DEF Spec
=============================================================================
