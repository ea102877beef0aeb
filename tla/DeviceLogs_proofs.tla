-------------------------- MODULE DeviceLogs_proofs --------------------------
(***************************************************************************)
(* Proofs about DeviceLogs: however many requests, punches and employees   *)
(* there are and however they overlap, a record says only what its         *)
(* employee's punches and HR say, a processed check-in has counted, a      *)
(* record of HR is replaced only by a request that was told to, and an     *)
(* import that answers has accounted for every punch it was to forward.    *)
(*                                                                         *)
(* What suppressing repeats keeps of a list is proved for every list by    *)
(* the shortest prefix for which it would fail: the order of numbers is    *)
(* well founded (WFMin), so there is a shortest one.                       *)
(***************************************************************************)
EXTENDS DeviceLogs, PunchDay, FiniteSetTheorems, WellFoundedInduction, TLAPS

-----------------------------------------------------------------------------
(***************************************************************************)
(* Numbers.  What a loop over a list, or a choice in a set, comes to for   *)
(* every list and set rests on these.                                      *)
(***************************************************************************)

\* A set of numbers has a least one.
LEMMA Least ==
  ASSUME NEW T, T \subseteq Nat, T # {}
  PROVE  \E x \in T : \A y \in T : x <= y
<1> DEFINE R == StrictSubsetOrdering(Nat)
           U == {1 .. n : n \in T}
<1>1. IsWellFoundedOn(R, FiniteSubsetsOf(Nat))
  BY FS_StrictSubsetOrderingWellFounded
<1>2. U \subseteq FiniteSubsetsOf(Nat) /\ U # {}
  <2>1. \A n \in Nat : IsFiniteSet(1 .. n) /\ 1 .. n \subseteq Nat
    BY FS_Interval
  <2> QED
    BY <2>1 DEF FiniteSubsetsOf
<1>3. \E u \in U : \A v \in U : <<v, u>> \notin R
  <2> HIDE DEF R, U
  <2> QED
    BY <1>1, <1>2, WFMin
<1>4. PICK x \in T : \A v \in U : <<v, 1 .. x>> \notin R
  BY <1>3
<1>5. ASSUME NEW y \in T, y < x
      PROVE  FALSE
  <2>1. 1 .. y \in U
    OBVIOUS
  <2>2. 1 .. y \subseteq 1 .. x /\ x \in 1 .. x /\ x \notin 1 .. y /\ 1 .. x \subseteq Nat
    BY <1>5
  <2>3. <<1 .. y, 1 .. x>> \in R
    BY <2>2 DEF StrictSubsetOrdering
  <2> QED
    BY <1>4, <2>1, <2>3
<1> QED
  BY <1>5

\* A finite one has a greatest.
LEMMA Greatest ==
  ASSUME NEW T, T \subseteq Nat, IsFiniteSet(T), T # {}
  PROVE  \E x \in T : \A y \in T : x >= y
<1> DEFINE Above(x) == {y \in T : y > x}
           R == StrictSubsetOrdering(T)
           U == {Above(x) : x \in T}
<1>1. IsWellFoundedOn(R, FiniteSubsetsOf(T))
  BY FS_StrictSubsetOrderingWellFounded
<1>2. U \subseteq FiniteSubsetsOf(T) /\ U # {}
  <2>1. \A x \in T : IsFiniteSet(Above(x)) /\ Above(x) \subseteq T
    BY FS_Subset
  <2> QED
    BY <2>1 DEF FiniteSubsetsOf
<1>3. \E u \in U : \A v \in U : <<v, u>> \notin R
  <2> HIDE DEF R, U
  <2> QED
    BY <1>1, <1>2, WFMin
<1>4. PICK x \in T : \A v \in U : <<v, Above(x)>> \notin R
  BY <1>3
<1>5. ASSUME NEW y \in T, y > x
      PROVE  FALSE
  <2>1. Above(y) \in U
    OBVIOUS
  <2>2. \A z \in T : z \in Nat /\ (z > y => z > x)
    BY <1>5
  <2>3. Above(y) \subseteq Above(x) /\ Above(x) \subseteq T
    BY <2>2
  <2>4. y \in Above(x) /\ y \notin Above(y)
    <3>1. y \in Nat /\ ~(y > y)
      BY <2>2
    <3> QED
      BY <1>5, <3>1
  <2>5. <<Above(y), Above(x)>> \in R
    BY <2>3, <2>4 DEF StrictSubsetOrdering
  <2> QED
    BY <1>4, <2>1, <2>5
<1> QED
  BY <1>5

\* Whoever has 0 and the next of each has all.
LEMMA CountUp ==
  ASSUME NEW S, 0 \in S, \A n \in Nat : n \in S => n + 1 \in S
  PROVE  Nat \subseteq S
<1> DEFINE T == Nat \ S
<1> SUFFICES ASSUME T # {} PROVE FALSE
  OBVIOUS
<1>1. PICK x \in T : \A y \in T : x <= y
  BY Least
<1>2. x # 0 /\ x - 1 \in Nat /\ x - 1 \notin T
  BY <1>1
<1> QED
  BY <1>1, <1>2

-----------------------------------------------------------------------------
(* The rules of a day.                                                     *)

\* A punch as the rules see it, and as a request reads it.
Log == [type : EventTypes, time : Nat] \cup [type : EventTypes, time : Nat, surprise : BOOLEAN]

\* One turn of the loop keeps what it had, and adds the punch or nothing.
LEMMA KeepOne ==
  ASSUME NEW kept \in Seq(Log), NEW log \in Log
  PROVE  /\ Keep(kept, log) \in Seq(Log)
         /\ Range(kept) \subseteq Range(Keep(kept, log))
         /\ Range(Keep(kept, log)) \subseteq Range(kept) \cup {log}
         /\ \/ log \in Range(Keep(kept, log))
            \/ \E old \in Range(kept) : log.time - old.time <= RapidWindow
<1>1. CASE kept # <<>> /\ log.time - Last(kept).time <= RapidWindow
  <2>1. Keep(kept, log) = kept
    BY <1>1 DEF Keep
  <2>2. Len(kept) \in DOMAIN kept
    BY <1>1
  <2>3. Last(kept) \in Range(kept)
    BY <2>2 DEF Last, Range
  <2> QED
    BY <1>1, <2>1, <2>3
<1>2. CASE ~(kept # <<>> /\ log.time - Last(kept).time <= RapidWindow)
  <2>1. Keep(kept, log) = Append(kept, log)
    BY <1>2 DEF Keep
  <2> QED
    BY <2>1 DEF Range
<1> QED
  BY <1>1, <1>2

\* The loop over the logs: the list kept after each of them is there.
Loop(list, kept) ==
  kept = [i \in 0 .. Len(list) |-> IF i = 0 THEN <<>> ELSE Keep(kept[i - 1], list[i])]

LEMMA LoopThere ==
  ASSUME NEW list \in Seq(Log)
  PROVE  \E kept : Loop(list, kept)
<1> DEFINE Upto(n, f) == f = [i \in 0 .. n |-> IF i = 0 THEN <<>> ELSE Keep(f[i - 1], list[i])]
           S == {n \in Nat : \E f : Upto(n, f)}
<1>1. 0 \in S
  <2> DEFINE f == [i \in 0 .. 0 |-> <<>>]
  <2>1. f = [i \in 0 .. 0 |-> IF i = 0 THEN <<>> ELSE Keep(f[i - 1], list[i])]
    OBVIOUS
  <2> QED
    BY <2>1
<1>2. ASSUME NEW n \in Nat, n \in S
      PROVE  n + 1 \in S
  <2> PICK f : Upto(n, f)
    BY <1>2
  <2> DEFINE g == [i \in 0 .. n + 1 |-> IF i = n + 1 THEN Keep(f[n], list[n + 1]) ELSE f[i]]
  <2>1. \A i \in 0 .. n : g[i] = f[i]
    OBVIOUS
  <2>2. \A i \in 1 .. n + 1 : i - 1 \in 0 .. n /\ (i # n + 1 => i \in 0 .. n)
    OBVIOUS
  <2>3. ASSUME NEW i \in 0 .. n + 1
        PROVE  g[i] = IF i = 0 THEN <<>> ELSE Keep(g[i - 1], list[i])
    <3>1. CASE i = 0
      BY <3>1
    <3>2. CASE i = n + 1
      BY <2>1, <2>2, <3>2
    <3>3. CASE i # 0 /\ i # n + 1
      <4>1. i \in 0 .. n /\ i - 1 \in 0 .. n
        BY <3>3
      <4>2. f[i] = Keep(f[i - 1], list[i])
        BY <3>3, <4>1
      <4> QED
        BY <2>1, <3>3, <4>1, <4>2
    <3> QED
      BY <3>1, <3>2, <3>3
  <2>4. g = [i \in 0 .. n + 1 |-> IF i = 0 THEN <<>> ELSE Keep(g[i - 1], list[i])]
    <3> HIDE DEF g
    <3>1. DOMAIN g = 0 .. n + 1 /\ g = [i \in 0 .. n + 1 |-> g[i]]
      BY DEF g
    <3> QED
      BY <2>3, <3>1
  <2> HIDE DEF g
  <2> QED
    BY <2>4
<1>3. Len(list) \in S
  <2> HIDE DEF S
  <2> QED
    BY <1>1, <1>2, CountUp
<1> QED
  BY <1>3 DEF Loop

\* What is kept is a list of logs ...
LEMMA LoopKeeps ==
  ASSUME NEW list \in Seq(Log), NEW kept, Loop(list, kept),
         NEW n \in 0 .. Len(list)
  PROVE  /\ kept[n] \in Seq(Log)
         /\ Range(kept[n]) \subseteq {list[i] : i \in 1 .. n}
<1> DEFINE S == {m \in Nat : m <= Len(list) =>
                    /\ kept[m] \in Seq(Log)
                    /\ Range(kept[m]) \subseteq {list[i] : i \in 1 .. m}}
<1>1. 0 \in S
  <2>1. kept[0] = <<>>
    BY DEF Loop
  <2>2. kept[0] \in Seq(Log) /\ Range(kept[0]) = {}
    BY <2>1 DEF Range
  <2> QED
    BY <2>2
<1>2. ASSUME NEW m \in Nat, m \in S
      PROVE  m + 1 \in S
  <2> SUFFICES ASSUME m + 1 <= Len(list)
               PROVE  /\ kept[m + 1] \in Seq(Log)
                      /\ Range(kept[m + 1]) \subseteq {list[i] : i \in 1 .. m + 1}
    OBVIOUS
  <2>1. kept[m + 1] = Keep(kept[m], list[m + 1])
    BY DEF Loop
  <2>2. list[m + 1] \in Log
    OBVIOUS
  <2>3. /\ kept[m] \in Seq(Log)
        /\ Range(kept[m]) \subseteq {list[i] : i \in 1 .. m}
    BY <1>2
  <2>4. /\ Keep(kept[m], list[m + 1]) \in Seq(Log)
        /\ Range(Keep(kept[m], list[m + 1])) \subseteq Range(kept[m]) \cup {list[m + 1]}
    BY <2>2, <2>3, KeepOne
  <2> QED
    BY <2>1, <2>3, <2>4
<1>3. n \in S
  <2> HIDE DEF S
  <2> QED
    BY <1>1, <1>2, CountUp
<1> QED
  BY <1>3

\* ... and stays kept.
LEMMA LoopGrows ==
  ASSUME NEW list \in Seq(Log), NEW kept, Loop(list, kept),
         NEW n \in 0 .. Len(list)
  PROVE  Range(kept[n]) \subseteq Range(kept[Len(list)])
<1> DEFINE S == {m \in Nat : n + m <= Len(list) => Range(kept[n]) \subseteq Range(kept[n + m])}
<1>1. 0 \in S
  OBVIOUS
<1>2. ASSUME NEW m \in Nat, m \in S
      PROVE  m + 1 \in S
  <2> SUFFICES ASSUME n + (m + 1) <= Len(list)
               PROVE  Range(kept[n]) \subseteq Range(kept[n + (m + 1)])
    OBVIOUS
  <2>1. kept[n + (m + 1)] = Keep(kept[n + m], list[n + (m + 1)])
    BY DEF Loop
  <2>2. list[n + (m + 1)] \in Log
    OBVIOUS
  <2>3. kept[n + m] \in Seq(Log)
    BY LoopKeeps
  <2>4. Range(kept[n + m]) \subseteq Range(Keep(kept[n + m], list[n + (m + 1)]))
    BY <2>2, <2>3, KeepOne
  <2> QED
    BY <1>2, <2>1, <2>4
<1>3. Len(list) - n \in S
  <2> HIDE DEF S
  <2> QED
    BY <1>1, <1>2, CountUp
<1> QED
  BY <1>3

LEMMA DedupeLoop ==
  ASSUME NEW list \in Seq(Log)
  PROVE  \E kept : Loop(list, kept) /\ Dedupe(list) = kept[Len(list)]
<1> DEFINE kept == CHOOSE kept : Loop(list, kept)
<1>1. Loop(list, kept)
  BY LoopThere
<1>2. Dedupe(list) = kept[Len(list)]
  BY DEF Dedupe, Loop
<1> QED
  BY <1>1, <1>2

\* dedupeRapidPunches invents nothing ...
LEMMA DedupeOwn ==
  ASSUME NEW list \in Seq(Log)
  PROVE  Range(Dedupe(list)) \subseteq Range(list)
<1> PICK kept : Loop(list, kept) /\ Dedupe(list) = kept[Len(list)]
  BY DedupeLoop
<1>1. Len(list) \in 0 .. Len(list)
  OBVIOUS
<1>2. Range(kept[Len(list)]) \subseteq {list[i] : i \in 1 .. Len(list)}
  BY <1>1, LoopKeeps
<1>3. \A i \in 1 .. Len(list) : list[i] \in Range(list)
  BY DEF Range
<1> QED
  BY <1>2, <1>3

\* ... and keeps every punch before which none is so close that it may be its repeat.
LEMMA DedupeApart ==
  ASSUME NEW list \in Seq(Log),
         NEW i \in 1 .. Len(list),
         \A j \in 1 .. i - 1 : list[i].time - list[j].time > RapidWindow
  PROVE  list[i] \in Range(Dedupe(list))
<1> PICK kept : Loop(list, kept) /\ Dedupe(list) = kept[Len(list)]
  BY DedupeLoop
<1>1. i - 1 \in 0 .. Len(list) /\ i \in 0 .. Len(list) /\ list[i] \in Log
  OBVIOUS
<1>2. /\ kept[i - 1] \in Seq(Log)
      /\ Range(kept[i - 1]) \subseteq {list[j] : j \in 1 .. i - 1}
  BY <1>1, LoopKeeps
<1>3. kept[i] = Keep(kept[i - 1], list[i])
  BY <1>1 DEF Loop
<1>4. \/ list[i] \in Range(kept[i])
      \/ \E old \in Range(kept[i - 1]) : list[i].time - old.time <= RapidWindow
  BY <1>1, <1>2, <1>3, KeepOne
<1>5. \A old \in Range(kept[i - 1]) : ~(list[i].time - old.time <= RapidWindow)
  <2> SUFFICES ASSUME NEW old \in Range(kept[i - 1])
               PROVE  ~(list[i].time - old.time <= RapidWindow)
    OBVIOUS
  <2>1. PICK j \in 1 .. i - 1 : old = list[j]
    BY <1>2
  <2>2. list[j] \in Log /\ list[i] \in Log
    BY <1>1
  <2> QED
    BY <2>1, <2>2 DEF Log, RapidWindow
<1> QED
  BY <1>1, <1>4, <1>5, LoopGrows

\* A finite set of logs has a list of them in the order of their times.  The place of a log
\* is the number of those that are not behind it; ties go by an arbitrary numbering.
LEMMA OrderThere ==
  ASSUME NEW S, S \subseteq Log, IsFiniteSet(S)
  PROVE  \E s \in SetToSeqs(S) : \A i, j \in DOMAIN s : i < j => s[i].time <= s[j].time
<1> DEFINE N == Cardinality(S)
<1>1. N \in Nat /\ ExistsBijection(1 .. N, S)
  BY FS_CardinalityType
<1>2. PICK b \in [1 .. N -> S] : /\ \A i, j \in 1 .. N : b[i] = b[j] => i = j
                               /\ \A l \in S : \E i \in 1 .. N : b[i] = l
  BY <1>1 DEF ExistsBijection, Bijection, Injection, Surjection, IsInjective
<1> DEFINE nr == [l \in S |-> CHOOSE i \in 1 .. N : b[i] = l]
<1>3. \A l \in S : nr[l] \in 1 .. N /\ b[nr[l]] = l
  BY <1>2
<1> DEFINE Behind(l, m) == l.time < m.time \/ (l.time = m.time /\ nr[l] <= nr[m])
           Firsts(m) == {l \in S : Behind(l, m)}
           place == [m \in S |-> Cardinality(Firsts(m))]
<1>4. \A l \in S : l.time \in Nat
  BY DEF Log
<1>5. \A l, m \in S : Behind(l, m) \/ Behind(m, l)
  BY <1>1, <1>3, <1>4
<1>6. \A l, m \in S : Behind(l, m) /\ Behind(m, l) => l = m
  <2> SUFFICES ASSUME NEW l \in S, NEW m \in S, Behind(l, m), Behind(m, l)
               PROVE  l = m
    OBVIOUS
  <2>1. nr[l] = nr[m]
    BY <1>1, <1>3, <1>4
  <2> QED
    BY <1>3, <2>1
<1>7. \A l, m, n \in S : Behind(l, m) /\ Behind(m, n) => Behind(l, n)
  BY <1>1, <1>3, <1>4
<1>8. \A m \in S : /\ IsFiniteSet(Firsts(m)) /\ m \in Firsts(m)
                    /\ Cardinality(Firsts(m)) \in 1 .. N
  <2> SUFFICES ASSUME NEW m \in S
               PROVE  /\ IsFiniteSet(Firsts(m)) /\ m \in Firsts(m)
                      /\ Cardinality(Firsts(m)) \in 1 .. N
    OBVIOUS
  <2>1. m \in Firsts(m)
    BY <1>5
  <2>2. Firsts(m) \in SUBSET S
    OBVIOUS
  <2> HIDE DEF Firsts
  <2>3. IsFiniteSet(Firsts(m)) /\ Cardinality(Firsts(m)) <= N
    BY <2>2, FS_Subset
  <2>4. Cardinality(Firsts(m)) \in Nat
    BY <2>3, FS_CardinalityType
  <2>5. Cardinality(Firsts(m)) # 0
    BY <2>1, <2>3, FS_EmptySet
  <2> QED
    BY <1>1, <2>1, <2>3, <2>4, <2>5
<1>9. \A l, m \in S : place[l] <= place[m] => Behind(l, m)
  <2> SUFFICES ASSUME NEW l \in S, NEW m \in S, ~Behind(l, m)
               PROVE  ~(place[l] <= place[m])
    OBVIOUS
  <2>1. Firsts(m) \in SUBSET Firsts(l) /\ l \notin Firsts(m) /\ l \in Firsts(l)
    BY <1>5, <1>7
  <2>2. IsFiniteSet(Firsts(l)) /\ place[l] \in Nat /\ place[m] \in Nat
    <3>1. place[l] = Cardinality(Firsts(l)) /\ place[m] = Cardinality(Firsts(m))
      OBVIOUS
    <3> HIDE DEF Firsts, place
    <3> QED
      BY <1>1, <1>8, <3>1
  <2>3. place[m] <= place[l] /\ place[m] # place[l]
    <3>1. place[l] = Cardinality(Firsts(l)) /\ place[m] = Cardinality(Firsts(m))
      OBVIOUS
    <3> HIDE DEF Firsts, place
    <3> QED
      BY <2>1, <2>2, <3>1, FS_Subset
  <2> HIDE DEF place, Firsts, Behind
  <2> QED
    BY <2>2, <2>3
<1>10. place \in [S -> 1 .. N]
  BY <1>8
<1>11. \A l, m \in S : place[l] = place[m] => l = m
  <2> SUFFICES ASSUME NEW l \in S, NEW m \in S, place[l] = place[m]
               PROVE  l = m
    OBVIOUS
  <2>1. place[l] <= place[m] /\ place[m] <= place[l]
    <3> HIDE DEF place
    <3> QED
      BY <1>1, <1>10
  <2> QED
    BY <1>6, <1>9, <2>1
<1>12. \A i \in 1 .. N : \E l \in S : place[l] = i
  <2> HIDE DEF place
  <2>1. place \in Injection(S, 1 .. N)
    BY <1>10, <1>11 DEF Injection, IsInjective
  <2>2. IsFiniteSet(1 .. N) /\ Cardinality(1 .. N) = N
    BY <1>1, FS_Interval
  <2>3. place \in Surjection(S, 1 .. N)
    BY <2>1, <2>2, FS_Injection
  <2> QED
    BY <2>3 DEF Surjection
<1> DEFINE s == [i \in 1 .. N |-> CHOOSE l \in S : place[l] = i]
<1>13. \A i \in 1 .. N : s[i] \in S /\ place[s[i]] = i
  <2> HIDE DEF place
  <2> QED
    BY <1>12
<1>14. s \in SetToSeqs(S)
  <2>1. s \in [1 .. N -> S] /\ \A i, j \in 1 .. N : i # j => s[i] # s[j]
    <3>1. \A i, j \in 1 .. N : i # j => s[i] # s[j]
      <4> HIDE DEF s, place
      <4> QED
        BY <1>13
    <3>2. s \in [1 .. N -> S]
      <4> HIDE DEF place
      <4> QED
        BY <1>13
    <3> QED
      BY <3>1, <3>2
  <2> HIDE DEF s
  <2> QED
    BY <2>1 DEF SetToSeqs
<1>15. ASSUME NEW i \in 1 .. N, NEW j \in 1 .. N, i < j
       PROVE  s[i].time <= s[j].time
  <2>1. s[i] \in S /\ s[j] \in S /\ place[s[i]] <= place[s[j]]
    <3> HIDE DEF s, place
    <3> QED
      BY <1>13, <1>15
  <2>2. Behind(s[i], s[j])
    <3> HIDE DEF s, place, Behind
    <3> QED
      BY <1>9, <2>1
  <2>3. s[i].time < s[j].time \/ s[i].time = s[j].time
    <3> HIDE DEF s
    <3> QED
      BY <2>2
  <2>4. s[i].time \in Nat /\ s[j].time \in Nat
    <3> HIDE DEF s
    <3> QED
      BY <1>4, <2>1
  <2> HIDE DEF s
  <2> QED
    BY <2>3, <2>4
<1>16. DOMAIN s = 1 .. N
  OBVIOUS
<1> HIDE DEF s
<1> QED
  BY <1>14, <1>15, <1>16

LEMMA OrderKnown ==
  ASSUME NEW S, S \subseteq Log, IsFiniteSet(S)
  PROVE  /\ InOrder(S) \in Seq(Log)
         /\ Range(InOrder(S)) = S
         /\ \A i, j \in 1 .. Len(InOrder(S)) :
              i < j => InOrder(S)[i] # InOrder(S)[j] /\ InOrder(S)[i].time <= InOrder(S)[j].time
<1> DEFINE N == Cardinality(S)
<1>1. N \in Nat
  BY FS_CardinalityType
<1>2. PICK s : s = InOrder(S)
  OBVIOUS
<1>3. s \in SetToSeqs(S) /\ \A i, j \in DOMAIN s : i < j => s[i].time <= s[j].time
  BY <1>2, OrderThere DEF InOrder
<1>4. s \in [1 .. N -> S] /\ \A i, j \in 1 .. N : i # j => s[i] # s[j]
  BY <1>3 DEF SetToSeqs
<1>5. s \in Injection(1 .. N, S)
  BY <1>4 DEF Injection, IsInjective
<1>6. s \in Surjection(1 .. N, S)
  BY <1>1, <1>5, FS_Injection, FS_Interval
<1>7. s \in Seq(Log) /\ Len(s) = N
  BY <1>1, <1>4
<1>8. Range(s) = S
  BY <1>4, <1>6 DEF Range, Surjection
<1> QED
  BY <1>2, <1>3, <1>4, <1>7, <1>8

LEMMA TimesFinite ==
  ASSUME NEW L, L \subseteq Log, IsFiniteSet(L)
  PROVE  TimesOf(L) \subseteq Nat /\ IsFiniteSet(TimesOf(L))
<1> DEFINE f == [l \in L |-> l.time]
<1>1. f \in Surjection(L, TimesOf(L))
  BY DEF Surjection, TimesOf
<1>2. IsFiniteSet(TimesOf(L))
  <2> HIDE DEF f
  <2> QED
    BY <1>1, FS_Surjection
<1> QED
  BY <1>2 DEF TimesOf, Log

LEMMA Extremes ==
  ASSUME NEW L, L \subseteq Log, IsFiniteSet(L), L # {}
  PROVE  Min(TimesOf(L)) \in TimesOf(L) /\ Max(TimesOf(L)) \in TimesOf(L)
<1>1. TimesOf(L) \subseteq Nat /\ IsFiniteSet(TimesOf(L)) /\ TimesOf(L) # {}
  BY TimesFinite DEF TimesOf
<1>2. Min(TimesOf(L)) \in TimesOf(L)
  BY <1>1, Least DEF Min
<1>3. Max(TimesOf(L)) \in TimesOf(L)
  BY <1>1, Greatest DEF Max
<1> QED
  BY <1>2, <1>3

\* A check-in and a check-out are times of punches, and there is a check-in if a punch is
\* on that side.
LEMMA CheckTimes ==
  ASSUME NEW L, L \subseteq Log, IsFiniteSet(L), NEW sh
  PROVE  /\ FirstCheckIn(L, sh) \in TimesOf(L) \cup {NoTime}
         /\ LastCheckOut(L, sh) \in TimesOf(L) \cup {NoTime}
         /\ (\E l \in L : Side(l, sh) = "in") => FirstCheckIn(L, sh) \in TimesOf(L)
<1> DEFINE On(side) == {l \in L : Side(l, sh) = side}
<1>1. \A side : /\ On(side) \subseteq Log /\ IsFiniteSet(On(side)) /\ On(side) \in SUBSET L
  BY FS_Subset
<1>2. \A side : /\ OnSide(L, sh, side) = TimesOf(On(side))
                /\ OnSide(L, sh, side) = {} <=> On(side) = {}
                /\ OnSide(L, sh, side) \subseteq TimesOf(L)
  BY DEF OnSide, TimesOf
<1> HIDE DEF On
<1>3. \A side : On(side) # {} => /\ Min(OnSide(L, sh, side)) \in OnSide(L, sh, side)
                                /\ Max(OnSide(L, sh, side)) \in OnSide(L, sh, side)
  BY <1>1, <1>2, Extremes
<1>4. /\ FirstCheckIn(L, sh) \in OnSide(L, sh, "in") \cup {NoTime}
      /\ On("in") # {} => FirstCheckIn(L, sh) \in OnSide(L, sh, "in")
  BY <1>2, <1>3 DEF FirstCheckIn
<1>5. LastCheckOut(L, sh) \in TimesOf(L) \cup {NoTime}
  <2>1. CASE OnSide(L, sh, "out") # {}
    BY <1>2, <1>3, <2>1 DEF LastCheckOut
  <2>2. CASE OnSide(L, sh, "out") = {} /\ Cardinality(L) > 1
    <3>1. Cardinality({}) = 0 /\ ~(0 > 1)
      BY FS_EmptySet
    <3>2. L # {}
      BY <2>2, <3>1
    <3> QED
      BY <2>2, <3>2, Extremes DEF LastCheckOut
  <2>3. CASE OnSide(L, sh, "out") = {} /\ ~(Cardinality(L) > 1)
    BY <2>3 DEF LastCheckOut
  <2> QED
    BY <2>1, <2>2, <2>3
<1>6. (\E l \in L : Side(l, sh) = "in") => On("in") # {}
  BY DEF On
<1> QED
  BY <1>2, <1>4, <1>5, <1>6

\* What computeMetrics returns.
LEMMA MetricsTypes ==
  ASSUME NEW in \in Nat \cup {NoTime}, NEW out \in Nat \cup {NoTime}, NEW sh
  PROVE  /\ Metrics(in, out, sh).total \in Nat \cup {NoTime}
         /\ Metrics(in, out, sh).status \in {"ABSENT", "HALF_DAY", "LATE", "PRESENT"}
<1>1. Worked(in, out) \in Nat \cup {NoTime}
  <2>1. CASE in # NoTime /\ out # NoTime /\ out > in
    <3>1. in \in Nat /\ out \in Nat
      BY <2>1
    <3>2. out - in \in Nat
      BY <2>1, <3>1
    <3> QED
      BY <2>1, <3>2 DEF Worked
  <2> QED
    BY <2>1 DEF Worked
<1>2. Status(in, out, sh) \in {"ABSENT", "HALF_DAY", "LATE", "PRESENT"}
  <2>1. \E a, b, c \in BOOLEAN : Status(in, out, sh) =
           CASE a -> "ABSENT" [] b -> "HALF_DAY" [] OTHER -> IF c THEN "LATE" ELSE "PRESENT"
    BY DEF Status
  <2> QED
    BY <2>1
<1> QED
  BY <1>1, <1>2 DEF Metrics

-----------------------------------------------------------------------------
(* Types.                                                                  *)

RowsThere == rows \in [Punches -> Row \cup {NoRow}]

\* A row belongs to the employee on whose card the punch is, or to nobody yet.
CardsOwn == \A k \in Stored : rows[k].emp \in {EmpOf[k], NoEmp}

Record(d) ==
  /\ DOMAIN d = Fields
  /\ d.in \in Nat \cup {NoTime} /\ d.out \in Nat \cup {NoTime} /\ d.total \in Nat \cup {NoTime}
  /\ d.source \in {"MANUAL", "DEVICE"} /\ d.surprise \in BOOLEAN
  /\ d.status \in {"ABSENT", "HALF_DAY", "LATE", "PRESENT"}

DayThere ==
  /\ DOMAIN day = Employees
  /\ \A e \in Employees : day[e] = NoRecord \/ Record(day[e])

\* What a request carries at each stage.
Shaped(q) ==
  /\ q.stage \in {"idle", "push", "select", "next", "read", "write", "mark"}
  /\ q.stage = "push" => /\ {"todo", "marking"} \subseteq DOMAIN q
                         /\ q.verify \in BOOLEAN /\ q.surprise \in BOOLEAN
  /\ q.stage = "next" => "todo" \in DOMAIN q
  /\ q.stage \in {"read", "write"} =>
       /\ {"stage", "todo", "emp", "overwrite", "seen"} \subseteq DOMAIN q
       /\ q.emp \in Employees
       /\ q.seen \in {NoRecord, Gone} \/ Record(q.seen)
  /\ q.stage = "write" => /\ {"read", "logs"} \subseteq DOMAIN q
                          /\ q.logs \subseteq Log /\ IsFiniteSet(q.logs)

\* The rows a request is about to mark are there.
Marks(q) ==
  /\ q.stage = "push" => q.marking \subseteq Stored
  /\ q.stage \in {"write", "mark"} => q.read \subseteq Stored

RequestsThere ==
  /\ DOMAIN req = Requests
  /\ \A r \in Requests : Shaped(req[r]) /\ Marks(req[r])

SettingsThere ==
  /\ known \subseteq Employees /\ verify \in BOOLEAN /\ surprise \in BOOLEAN
  /\ failed \in [Requests -> SUBSET Employees]
  /\ owed \in [Requests -> SUBSET Punches]
  /\ manual \subseteq Employees /\ corrected \subseteq Employees
  /\ accounted \subseteq Punches

\* Only markDuplicateRow marks a row as a duplicate.
DuplicatesAccounted ==
  \A k \in Stored : rows[k].duplicate => k \in accounted

\* A record a request has read and may still update is there.
SeenThere == \A r \in Requests :
  /\ req[r].stage \in {"read", "write"}
  /\ req[r].seen \notin {NoRecord, Gone}
  => day[req[r].emp] # NoRecord

Sane == /\ RowsThere /\ CardsOwn /\ DayThere /\ RequestsThere /\ SettingsThere
        /\ DuplicatesAccounted /\ SeenThere

-----------------------------------------------------------------------------
(* Records of HR.                                                          *)

\* A request that may not overwrite goes on only with records of the devices.
SeenOfDevice == \A r \in Requests :
  /\ req[r].stage \in {"read", "write"} /\ ~req[r].overwrite
  /\ req[r].seen \notin {NoRecord, Gone}
  => req[r].emp \notin manual

ManualInv == SeenOfDevice /\ ManualKept

-----------------------------------------------------------------------------
(* Punches on their way.                                                   *)

\* The row of the punch counts for its employee as long as it is no duplicate.
Counts(k) ==
  /\ rows[k] # NoRow
  /\ rows[k].emp = EmpOf[k] /\ ~rows[k].verifyOnly

\* Where an import that owes punch k has it.
OnItsWay(q, k) ==
  /\ q.overwrite /\ k \in OnDay
  /\ q.stage = "push" => /\ q.auto /\ ~q.verify /\ EmpOf[k] \in q.known
                         /\ k \in q.todo \cup q.marking \/ Counts(k)
  /\ q.stage # "push" => Counts(k)
  /\ q.stage = "next" => EmpOf[k] \in q.todo
  /\ q.stage = "read" => EmpOf[k] \in q.todo \cup {q.emp}
  /\ q.stage = "write" => EmpOf[k] \in q.todo \/ (EmpOf[k] = q.emp /\ k \in q.read)
  /\ q.stage = "mark" => EmpOf[k] \in q.todo \/ k \in q.read

Discharged(r, k) == k \in accounted \/ EmpOf[k] \in failed[r]

\* A claim about requests under way: one that died has left its punches behind.
OwedOnWay == \A r \in Requests : req[r].stage # "idle" =>
  \A k \in owed[r] : Discharged(r, k) \/ OnItsWay(req[r], k)

-----------------------------------------------------------------------------
(* What a step does to the rows.                                           *)

\* A row stays, keeps its mode, its mark of a surprise and, once it has one, its employee.
RowsKept == \A k \in Stored :
  /\ rows'[k] # NoRow
  /\ rows'[k].verifyOnly = rows[k].verifyOnly
  /\ rows'[k].surprise = rows[k].surprise
  /\ rows'[k].emp \in {rows[k].emp, EmpOf[k]}

RowsFine == RowsThere' /\ CardsOwn' /\ RowsKept /\ accounted \subseteq accounted' /\ DuplicatesAccounted'

LEMMA SameRows ==
  ASSUME Sane, UNCHANGED <<rows, accounted>>
  PROVE  RowsFine
BY DEF Sane, RowsThere, CardsOwn, DuplicatesAccounted, RowsFine, RowsKept, Stored

LEMMA RowFields ==
  ASSUME Sane, NEW k \in Stored
  PROVE  /\ k \in Punches /\ rows[k] \in Row
         /\ rows[k].emp \in Employees \cup {NoEmp}
         /\ rows[k].duplicate \in BOOLEAN /\ rows[k].verifyOnly \in BOOLEAN
         /\ rows[k].processed \in BOOLEAN /\ rows[k].surprise \in BOOLEAN
BY DEF Sane, RowsThere, Stored, Row

LEMMA IngestRows ==
  ASSUME Sane, NEW r \in Requests, NEW k \in Punches, Ingest(r, k)
  PROVE  RowsFine
<1>1. UNCHANGED accounted
  BY DEF Ingest, history
<1>2. CASE rows[k] # NoRow
  BY <1>1, <1>2, SameRows DEF Ingest
<1>3. CASE rows[k] = NoRow
  <2>1. rows' = [rows EXCEPT ![k] = NewRow(req[r], k)]
    BY <1>3 DEF Ingest
  <2>2. req[r].verify \in BOOLEAN /\ req[r].surprise \in BOOLEAN
    BY DEF Ingest, Sane, RequestsThere, Shaped
  <2> PICK new : new = NewRow(req[r], k)
    OBVIOUS
  <2>3. new \in Row /\ new.duplicate = FALSE
    BY <2>2, LogsAssumption DEF NewRow, Row
  <2>e. new.emp \in {EmpOf[k], NoEmp}
    BY DEF NewRow
  <2>4. new # NoRow
    BY <2>3, NoRowAssumption
  <2>5. rows' = [rows EXCEPT ![k] = new]
    BY <2>1
  <2>6. RowsThere'
    BY <2>3, <2>5 DEF Sane, RowsThere
  <2>7. RowsKept
    BY <1>3, <2>5 DEF Sane, RowsThere, RowsKept, Stored
  <2>8. DuplicatesAccounted'
    BY <1>1, <2>3, <2>5 DEF Sane, RowsThere, DuplicatesAccounted, Stored
  <2>9. CardsOwn'
    BY <2>e, <2>5 DEF Sane, RowsThere, CardsOwn, Stored
  <2> QED
    BY <1>1, <2>6, <2>7, <2>8, <2>9 DEF RowsFine
<1> QED
  BY <1>2, <1>3

\* Updates of columns other than the card's: each row that is there stays a row.
LEMMA RowsUpdated ==
  ASSUME Sane, accounted \subseteq accounted',
         rows' \in [Punches -> Row \cup {NoRow}],
         \A k \in Punches : rows[k] = NoRow => rows'[k] = NoRow,
         \A k \in Stored :
           /\ rows'[k] \in Row
           /\ rows'[k].verifyOnly = rows[k].verifyOnly
           /\ rows'[k].surprise = rows[k].surprise
           /\ rows'[k].emp \in {rows[k].emp, EmpOf[k]}
           /\ rows'[k].duplicate => rows[k].duplicate \/ k \in accounted'
  PROVE  RowsFine
<1>1. RowsKept
  BY NoRowAssumption DEF RowsKept
<1>3. CardsOwn'
  BY DEF Sane, CardsOwn, Stored
<1>2. DuplicatesAccounted'
  BY DEF Sane, DuplicatesAccounted, Stored
<1> QED
  BY <1>1, <1>2, <1>3 DEF RowsFine, RowsThere

LEMMA RowsStep ==
  ASSUME Sane, Next
  PROVE  RowsFine
<1>1. ASSUME NEW r \in Requests, NEW k \in Punches, Ingest(r, k)
      PROVE  RowsFine
  BY <1>1, IngestRows
<1>2. ASSUME NEW r \in Requests, NEW k \in Punches, MarkDuplicate(r, k)
      PROVE  RowsFine
  <2>1. k \in Stored
    BY <1>2 DEF MarkDuplicate, Sane, RequestsThere, Marks
  <2>2. rows' = [rows EXCEPT ![k].duplicate = TRUE] /\ accounted' = accounted \cup {k}
    BY <1>2 DEF MarkDuplicate
  <2>3. [rows[k] EXCEPT !.duplicate = TRUE] \in Row
    BY <2>1, RowFields DEF Row
  <2>4. rows' \in [Punches -> Row \cup {NoRow}]
    BY <2>2, <2>3 DEF Sane, RowsThere
  <2>5. \A l \in Stored : /\ rows'[l] \in Row
                          /\ rows'[l].verifyOnly = rows[l].verifyOnly
                          /\ rows'[l].surprise = rows[l].surprise
                          /\ rows'[l].emp = rows[l].emp
                          /\ l # k => rows'[l] = rows[l]
    BY <2>2, <2>3, RowFields DEF Sane, RowsThere, Row
  <2>6. \A l \in Punches : rows[l] = NoRow => rows'[l] = NoRow
    BY <2>1, <2>2 DEF Sane, RowsThere, Stored
  <2> QED
    BY <2>2, <2>4, <2>5, <2>6, RowsUpdated
<1>3. ASSUME NEW r \in Requests, NEW S, StartReprocess(r, S)
      PROVE  RowsFine
  <2>1. /\ rows' = [k \in Punches |-> IF \E e \in S : k \in Eligible(e)
                    THEN [rows[k] EXCEPT !.processed = FALSE] ELSE rows[k]]
        /\ UNCHANGED accounted
    BY <1>3 DEF StartReprocess
  <2>2. \A e \in S : Eligible(e) \subseteq Stored
    BY DEF Eligible
  <2>3. \A k \in Stored : [rows[k] EXCEPT !.processed = FALSE] \in Row
    BY RowFields DEF Row
  <2>4. rows' \in [Punches -> Row \cup {NoRow}]
    BY <2>1, <2>2, <2>3 DEF Sane, RowsThere
  <2>5. \A k \in Stored : /\ rows'[k] \in Row
                          /\ rows'[k].verifyOnly = rows[k].verifyOnly
                          /\ rows'[k].surprise = rows[k].surprise
                          /\ rows'[k].emp = rows[k].emp
                          /\ rows'[k].duplicate = rows[k].duplicate
    BY <2>1, <2>3, RowFields DEF Row
  <2>6. \A k \in Punches : rows[k] = NoRow => rows'[k] = NoRow
    BY <2>1, <2>2 DEF Stored
  <2> QED
    BY <2>1, <2>4, <2>5, <2>6, RowsUpdated
<1>4. ASSUME NEW r \in Requests, MarkProcessed(r)
      PROVE  RowsFine
  <2>1. /\ rows' = [k \in Punches |-> IF k \in req[r].read
                    THEN [rows[k] EXCEPT !.processed = TRUE] ELSE rows[k]]
        /\ accounted' = accounted \cup req[r].read
    BY <1>4 DEF MarkProcessed
  <2>2. req[r].read \subseteq Stored
    BY <1>4 DEF MarkProcessed, Sane, RequestsThere, Marks
  <2>3. \A k \in Stored : [rows[k] EXCEPT !.processed = TRUE] \in Row
    BY RowFields DEF Row
  <2>4. rows' \in [Punches -> Row \cup {NoRow}]
    BY <2>1, <2>2, <2>3 DEF Sane, RowsThere
  <2>5. \A k \in Stored : /\ rows'[k] \in Row
                          /\ rows'[k].verifyOnly = rows[k].verifyOnly
                          /\ rows'[k].surprise = rows[k].surprise
                          /\ rows'[k].emp = rows[k].emp
                          /\ rows'[k].duplicate = rows[k].duplicate
    BY <2>1, <2>3, RowFields DEF Row
  <2>6. \A k \in Punches : rows[k] = NoRow => rows'[k] = NoRow
    BY <2>1, <2>2 DEF Stored
  <2> QED
    BY <2>1, <2>4, <2>5, <2>6, RowsUpdated
<1>5. ASSUME NEW k \in Punches, ResolveRow(k)
      PROVE  RowsFine
  <2>1. /\ k \in Stored /\ rows[k].emp = NoEmp
        /\ rows' = [rows EXCEPT ![k].emp = EmpOf[k]] /\ UNCHANGED accounted
    BY <1>5 DEF ResolveRow, history
  <2>2. EmpOf[k] \in Employees
    BY LogsAssumption
  <2>3. [rows[k] EXCEPT !.emp = EmpOf[k]] \in Row
    BY <2>1, <2>2, RowFields DEF Row
  <2>4. rows' \in [Punches -> Row \cup {NoRow}]
    BY <2>1, <2>3 DEF Sane, RowsThere
  <2>5. \A l \in Stored : /\ rows'[l] \in Row
                          /\ rows'[l].verifyOnly = rows[l].verifyOnly
                          /\ rows'[l].surprise = rows[l].surprise
                          /\ rows'[l].emp \in {rows[l].emp, EmpOf[l]}
                          /\ rows'[l].duplicate = rows[l].duplicate
    BY <2>1, <2>3, RowFields DEF Sane, RowsThere, Row
  <2>6. \A l \in Punches : rows[l] = NoRow => rows'[l] = NoRow
    BY <2>1 DEF Sane, RowsThere, Stored
  <2> QED
    BY <2>1, <2>4, <2>5, <2>6, RowsUpdated
<1>6. ASSUME NEW k \in Punches, MarkForReprocess(k)
      PROVE  RowsFine
  <2>1. /\ k \in Stored /\ UNCHANGED accounted
        /\ rows' = [rows EXCEPT ![k].processed = FALSE, ![k].duplicate = FALSE]
    BY <1>6 DEF MarkForReprocess, history
  <2> PICK new : new = [[rows[k] EXCEPT !.processed = FALSE] EXCEPT !.duplicate = FALSE]
    OBVIOUS
  <2>2. new \in Row /\ new.verifyOnly = rows[k].verifyOnly /\ new.emp = rows[k].emp
        /\ new.surprise = rows[k].surprise
        /\ new.duplicate = FALSE
    BY <2>1, RowFields DEF Row
  <2>3. rows' = [rows EXCEPT ![k] = new]
    BY <2>1 DEF Sane, RowsThere, Stored
  <2>4. rows' \in [Punches -> Row \cup {NoRow}]
    BY <2>2, <2>3 DEF Sane, RowsThere
  <2>5. \A l \in Stored : /\ rows'[l] \in Row
                          /\ rows'[l].verifyOnly = rows[l].verifyOnly
                          /\ rows'[l].surprise = rows[l].surprise
                          /\ rows'[l].emp = rows[l].emp
                          /\ rows'[l].duplicate => rows[l].duplicate
    BY <2>2, <2>3, RowFields DEF Sane, RowsThere
  <2>6. \A l \in Punches : rows[l] = NoRow => rows'[l] = NoRow
    BY <2>1, <2>3 DEF Sane, RowsThere, Stored
  <2> QED
    BY <2>1, <2>4, <2>5, <2>6, RowsUpdated
<1>7. CASE UNCHANGED <<rows, accounted>>
  BY <1>7, SameRows
<1> QED
  BY <1>1, <1>2, <1>3, <1>4, <1>5, <1>6, <1>7
     DEF Next, Admin, Arrive, Step, Die, StartPush, PushDone, StartProcess, Select,
         ReadRecord, ReadLogs, WriteRecord, ProcessDone, AddEmployee, SwitchMode,
         SwitchSurprise, HrCreate, HrUpdate, HrRemove, history

\* A row that counts goes on counting.
LEMMA CountsOn ==
  ASSUME Sane, RowsFine, NEW k \in Punches, Counts(k)
  PROVE  Counts(k)'
BY DEF Counts, RowsFine, RowsKept, Stored

-----------------------------------------------------------------------------
(* What a step does to the records and the settings.                       *)

\* What is computed: each time is one of a punch that counts, or was in the record before;
\* a check-in that was there, or of a punch with no other close to it, is there after.
Counting(q) == {l \in q.logs : ~l.surprise}

Alone(q, l) == \A m \in q.logs \ {l} : \/ l.time - m.time > RapidWindow
                                       \/ m.time - l.time > RapidWindow

LEMMA PayloadIs ==
  ASSUME NEW q, Shaped(q), q.stage = "write", q.seen # Gone
  PROVE  /\ Record(Payload(q)) /\ Payload(q).source = "DEVICE"
         /\ Payload(q).in \in TimesOf(Counting(q))
              \cup {IF q.seen # NoRecord THEN q.seen.in ELSE NoTime}
         /\ Payload(q).out \in TimesOf(Counting(q))
              \cup {IF q.seen # NoRecord THEN q.seen.out ELSE NoTime}
         /\ q.seen # NoRecord /\ q.seen.in # NoTime => Payload(q).in # NoTime
         /\ \A l \in Counting(q) : Alone(q, l) /\ Side(l, Shift) = "in" => Payload(q).in # NoTime
<1> DEFINE kept == Range(Dedupe(InOrder(q.logs)))
           L == {l \in kept : ~l.surprise}
           old == q.seen # NoRecord
           oldin == IF old THEN q.seen.in ELSE NoTime
           oldout == IF old THEN q.seen.out ELSE NoTime
           in == OrElse(FirstCheckIn(L, Shift), oldin)
           out == OrElse(LastCheckOut(L, Shift), oldout)
           m == Metrics(in, out, Shift)
           p == [in |-> in, out |-> out, total |-> m.total, late |-> m.late,
                 overtime |-> m.overtime, status |-> m.status,
                 surprise |-> (\E l \in q.logs : l.surprise) \/ (old /\ q.seen.surprise),
                 source |-> "DEVICE"]
<1>0. Payload(q) = p
  BY DEF Payload
<1>1. q.logs \subseteq Log /\ IsFiniteSet(q.logs) /\ (old => Record(q.seen))
  BY DEF Shaped
<1> PICK s : s = InOrder(q.logs)
  OBVIOUS
<1>2. /\ s \in Seq(Log) /\ Range(s) = q.logs
      /\ \A i, j \in 1 .. Len(s) : i < j => s[i] # s[j] /\ s[i].time <= s[j].time
  BY <1>1, OrderKnown
<1>3. kept \subseteq q.logs
  BY <1>2, DedupeOwn
<1>4. L \subseteq Counting(q) /\ L \subseteq Log /\ IsFiniteSet(L)
  <2>1. L \in SUBSET q.logs
    BY <1>3
  <2>2. IsFiniteSet(L)
    <3> HIDE DEF L
    <3> QED
      BY <1>1, <2>1, FS_Subset
  <2> QED
    BY <1>1, <2>1, <2>2 DEF Counting
<1>5. TimesOf(L) \subseteq TimesOf(Counting(q)) /\ TimesOf(Counting(q)) \subseteq Nat
  BY <1>1, <1>4 DEF TimesOf, Counting, Log
<1>6. /\ FirstCheckIn(L, Shift) \in TimesOf(L) \cup {NoTime}
      /\ LastCheckOut(L, Shift) \in TimesOf(L) \cup {NoTime}
      /\ (\E l \in L : Side(l, Shift) = "in") => FirstCheckIn(L, Shift) \in TimesOf(L)
  <2> HIDE DEF L
  <2> QED
    BY <1>4, CheckTimes
<1>7. oldin \in Nat \cup {NoTime} /\ oldout \in Nat \cup {NoTime}
  BY <1>1 DEF Record
<1>8. in \in TimesOf(Counting(q)) \cup {oldin} /\ out \in TimesOf(Counting(q)) \cup {oldout}
  <2> HIDE DEF L, oldin, oldout
  <2> QED
    BY <1>5, <1>6 DEF OrElse
<1>9. in \in Nat \cup {NoTime} /\ out \in Nat \cup {NoTime}
  <2> HIDE DEF in, out, oldin, oldout
  <2> QED
    BY <1>5, <1>7, <1>8
<1>10. m.total \in Nat \cup {NoTime} /\ m.status \in {"ABSENT", "HALF_DAY", "LATE", "PRESENT"}
  <2> HIDE DEF in, out
  <2> QED
    BY <1>9, MetricsTypes
<1>11. (\E l \in q.logs : l.surprise) \/ (old /\ q.seen.surprise) \in BOOLEAN
  BY <1>1 DEF Record
<1>12. Record(p) /\ p.source = "DEVICE" /\ p.in = in /\ p.out = out
  <2> HIDE DEF in, out, m
  <2> QED
    BY <1>9, <1>10, <1>11 DEF Record, Fields
<1>13. old /\ q.seen.in # NoTime => in # NoTime
  <2> HIDE DEF L
  <2> QED
    BY DEF OrElse
<1>14. ASSUME NEW l \in Counting(q), Alone(q, l), Side(l, Shift) = "in"
       PROVE  in # NoTime
  <2>1. PICK i \in 1 .. Len(s) : s[i] = l
    BY <1>2 DEF Range, Counting
  <2>2. ASSUME NEW j \in 1 .. i - 1
        PROVE  s[i].time - s[j].time > RapidWindow
    <3>1. j \in 1 .. Len(s) /\ j < i
      OBVIOUS
    <3>2. s[j] \in q.logs /\ s[j] \in Log /\ l \in Log
      BY <1>1, <1>2, <2>1, <3>1 DEF Range
    <3>3. s[j] # l /\ s[j].time <= l.time
      BY <1>2, <2>1, <3>1
    <3>4. s[j].time \in Nat /\ l.time \in Nat
      BY <3>2 DEF Log
    <3> QED
      BY <1>14, <2>1, <3>2, <3>3, <3>4 DEF Alone, RapidWindow
  <2>3. l \in kept
    BY <1>2, <2>1, <2>2, DedupeApart
  <2>4. l \in L
    BY <2>3 DEF Counting
  <2>5. FirstCheckIn(L, Shift) \in Nat
    <3> HIDE DEF L
    <3> QED
      BY <1>5, <1>6, <1>14, <2>4
  <2> HIDE DEF L
  <2> QED
    BY <2>5, LogsAssumption DEF OrElse
<1> HIDE DEF p, in, out
<1> QED
  BY <1>0, <1>8, <1>12, <1>13, <1>14

\* Whatever differs from what was read is written into what is there.
LEMMA UpdateIs ==
  ASSUME NEW now, NEW seen, NEW p, Record(now), Record(seen), Record(p)
  PROVE  /\ Record(Update(now, seen, p))
         /\ Update(now, seen, p).in = IF p.in = seen.in THEN now.in ELSE p.in
         /\ Update(now, seen, p).out = IF p.out = seen.out THEN now.out ELSE p.out
         /\ Update(now, seen, p).source \in {now.source, p.source}
BY DEF Record, Update, Fields

LEMMA RecordThere ==
  ASSUME NEW d, Record(d)
  PROVE  d # NoRecord /\ d # Gone
BY DEF Record, NoRecord, Gone

LEMMA WriteDay ==
  ASSUME Sane, NEW r \in Requests, WriteRecord(r)
  PROVE  /\ DayThere'
         /\ req[r].emp \in Employees
         /\ \A e \in Employees \ {req[r].emp} : day'[e] = day[e]
         /\ \A e \in Employees : day[e] # NoRecord => day'[e] # NoRecord
<1> PICK e, seen : e = req[r].emp /\ seen = req[r].seen
  OBVIOUS
<1>1. e \in Employees /\ (seen \in {NoRecord, Gone} \/ Record(seen))
  BY DEF WriteRecord, Sane, RequestsThere, Shaped
<1> PICK p : p = Payload(req[r])
  OBVIOUS
<1>2. seen # Gone => Record(p)
  BY PayloadIs DEF WriteRecord, Sane, RequestsThere
<1>3. \/ UNCHANGED day
      \/ seen = NoRecord /\ day' = [day EXCEPT ![e] = p]
      \/ seen \notin {NoRecord, Gone} /\ day' = [day EXCEPT ![e] = Update(@, seen, p)]
  BY DEF WriteRecord
<1>4. NoRecord # Gone
  BY DEF NoRecord, Gone
<1>5. CASE UNCHANGED day
  BY <1>1, <1>5 DEF Sane, DayThere
<1>6. CASE seen = NoRecord /\ day' = [day EXCEPT ![e] = p]
  <2>1. Record(p) /\ p # NoRecord
    BY <1>2, <1>4, <1>6, RecordThere
  <2> QED
    BY <1>1, <1>6, <2>1 DEF Sane, DayThere
<1>7. CASE seen \notin {NoRecord, Gone} /\ day' = [day EXCEPT ![e] = Update(@, seen, p)]
  <2> PICK u : u = Update(day[e], seen, p)
    OBVIOUS
  <2>1. Record(day[e])
    BY <1>1, <1>7 DEF Sane, DayThere, SeenThere, WriteRecord
  <2>2. Record(u) /\ u # NoRecord
    BY <1>1, <1>2, <1>7, <2>1, UpdateIs, RecordThere
  <2>3. day' = [day EXCEPT ![e] = u]
    BY <1>7
  <2> QED
    BY <1>1, <2>2, <2>3 DEF Sane, DayThere
<1> QED
  BY <1>1, <1>3, <1>5, <1>6, <1>7

LEMMA DayStep ==
  ASSUME Sane, Next
  PROVE  /\ DayThere'
         /\ \A e \in Employees : \/ day[e] = NoRecord
                                \/ day'[e] # NoRecord
                                \/ HrRemove(e)
<1> DEFINE Fine == /\ DayThere'
                   /\ \A e \in Employees : \/ day[e] = NoRecord
                                          \/ day'[e] # NoRecord
                                          \/ HrRemove(e)
<1> SUFFICES Fine
  OBVIOUS
<1>1. ASSUME NEW r \in Requests, WriteRecord(r)
      PROVE  Fine
  BY <1>1, WriteDay
<1>2. ASSUME NEW e \in Employees, HrCreate(e)
      PROVE  Fine
  <2> PICK p : p = [in |-> HrTime, out |-> NoTime, total |-> NoTime, late |-> 0, overtime |-> 0,
                    status |-> "PRESENT", surprise |-> FALSE, source |-> "MANUAL"]
    OBVIOUS
  <2>1. Record(p)
    BY LogsAssumption DEF Record, Fields
  <2>2. p # NoRecord
    BY <2>1, RecordThere
  <2>3. day' = [day EXCEPT ![e] = p]
    BY <1>2 DEF HrCreate
  <2> QED
    BY <2>1, <2>2, <2>3 DEF Sane, DayThere
<1>3. ASSUME NEW e \in Employees, HrUpdate(e)
      PROVE  Fine
  <2>1. day[e] # NoRecord /\ Record(day[e])
    BY <1>3 DEF HrUpdate, Sane, DayThere
  <2> PICK s \in {day[e].source, "MANUAL"}, t \in {HrTime, NoTime} :
         day' = [day EXCEPT ![e].in = t, ![e].source = s]
    BY <1>3 DEF HrUpdate
  <2> PICK u : u = [[day[e] EXCEPT !.in = t] EXCEPT !.source = s]
    OBVIOUS
  <2>2. Record(u)
    BY <2>1, LogsAssumption DEF Record, Fields
  <2>3. u # NoRecord
    BY <2>2, RecordThere
  <2>4. day' = [day EXCEPT ![e] = u]
    BY DEF Sane, DayThere
  <2> QED
    BY <2>1, <2>2, <2>3, <2>4 DEF Sane, DayThere
<1>4. ASSUME NEW e \in Employees, HrRemove(e)
      PROVE  Fine
  BY <1>4 DEF HrRemove, Sane, DayThere
<1>5. CASE UNCHANGED day
  BY <1>5 DEF Sane, DayThere
<1> QED
  BY <1>1, <1>2, <1>3, <1>4, <1>5
     DEF Next, Admin, Arrive, Step, Die, StartPush, Ingest, MarkDuplicate, PushDone,
         StartProcess, StartReprocess, Select, ReadRecord, ReadLogs, MarkProcessed,
         ProcessDone, AddEmployee, ResolveRow, MarkForReprocess, SwitchMode,
         SwitchSurprise, history

LEMMA SettingsStep ==
  ASSUME Sane, Next
  PROVE  SettingsThere'
<1> USE DEF Sane, SettingsThere
<1>1. ASSUME NEW r \in Requests, NEW S \in SUBSET Punches, NEW a \in BOOLEAN, NEW o \in BOOLEAN,
             StartPush(r, S, a, o)
      PROVE  SettingsThere'
  BY <1>1 DEF StartPush, settings
<1>2. ASSUME NEW r \in Requests, NEW S, NEW o, StartProcess(r, S, o) \/ StartReprocess(r, S)
      PROVE  SettingsThere'
  BY <1>2 DEF StartProcess, StartReprocess, settings
<1>3. ASSUME NEW r \in Requests, NEW e \in Employees, ReadRecord(r, e)
      PROVE  SettingsThere'
  BY <1>3 DEF ReadRecord, Report, settings
<1>4. ASSUME NEW r \in Requests, WriteRecord(r)
      PROVE  SettingsThere'
  <2>1. req[r].emp \in Employees
    BY <1>4, WriteDay
  <2>2. UNCHANGED failed \/ failed' = [failed EXCEPT ![r] = @ \cup {req[r].emp}]
    BY <1>4 DEF WriteRecord, Report
  <2> QED
    BY <1>4, <2>1, <2>2 DEF WriteRecord, settings
<1>5. ASSUME NEW e \in Employees, AddEmployee(e)
      PROVE  SettingsThere'
  BY <1>5 DEF AddEmployee, history
<1>6. CASE SwitchMode \/ SwitchSurprise
  BY <1>6 DEF SwitchMode, SwitchSurprise, history
<1>7. ASSUME NEW e \in Employees, HrCreate(e) \/ HrUpdate(e) \/ HrRemove(e)
      PROVE  SettingsThere'
  BY <1>7 DEF HrCreate, HrUpdate, HrRemove, settings
<1>8. CASE UNCHANGED <<settings, failed, owed, manual, corrected, accounted>>
  BY <1>8 DEF settings
<1>9. ASSUME NEW r \in Requests, NEW k \in Punches, MarkDuplicate(r, k)
      PROVE  SettingsThere'
  BY <1>9 DEF MarkDuplicate, settings
<1>10. ASSUME NEW r \in Requests, MarkProcessed(r)
       PROVE  SettingsThere'
  <2>1. req[r].read \subseteq Punches
    BY <1>10 DEF MarkProcessed, RequestsThere, Marks, Stored
  <2> QED
    BY <1>10, <2>1 DEF MarkProcessed, settings
<1> QED
  BY <1>1, <1>2, <1>3, <1>4, <1>5, <1>6, <1>7, <1>8, <1>9, <1>10
     DEF Next, Admin, Arrive, Step, Die, Ingest, PushDone,
         Select, ReadLogs, ProcessDone, ResolveRow, MarkForReprocess,
         history
-----------------------------------------------------------------------------
(* What a step does to the requests.                                       *)

\* The stage of a request and what it may carry there.
LEMMA RequestMoves ==
  ASSUME Sane, RowsFine, NEW r \in Requests, NEW q, req' = [req EXCEPT ![r] = q],
         Shaped(q), Marks(q)',
         \A e \in Employees : day[e] # NoRecord => day'[e] # NoRecord,
         q.stage \in {"read", "write"} /\ q.seen \notin {NoRecord, Gone}
           => day'[q.emp] # NoRecord
  PROVE  RequestsThere' /\ SeenThere'
<1>1. DOMAIN req' = Requests /\ \A t \in Requests : req'[t] = IF t = r THEN q ELSE req[t]
  BY DEF Sane, RequestsThere
<1>2. Stored \subseteq Stored'
  BY DEF RowsFine, RowsKept, Stored
<1>3. \A t \in Requests : Shaped(req[t]) /\ Marks(req[t])
  BY DEF Sane, RequestsThere
<1>4. ASSUME NEW t \in Requests
      PROVE  Shaped(req'[t]) /\ Marks(req[t])'
  BY <1>1, <1>2, <1>3 DEF Marks
<1>5. RequestsThere'
  BY <1>1, <1>4 DEF RequestsThere, Shaped
<1>6. SeenThere'
  BY <1>1, <1>3 DEF Sane, SeenThere, Shaped
<1> QED
  BY <1>5, <1>6

LEMMA SameRequests ==
  ASSUME Sane, RowsFine, UNCHANGED req,
         \A e \in Employees : day[e] # NoRecord => day'[e] # NoRecord
  PROVE  RequestsThere' /\ SeenThere'
<1>1. Stored \subseteq Stored'
  BY DEF RowsFine, RowsKept, Stored
<1>2. RequestsThere'
  BY <1>1 DEF Sane, RequestsThere, Shaped, Marks
<1>3. SeenThere'
  BY DEF Sane, RequestsThere, SeenThere, Shaped
<1> QED
  BY <1>2, <1>3

\* A request that has answered, failed or not yet read anything.
LEMMA Light ==
  ASSUME NEW q, \/ q = Idle
                \/ \E o : q = [stage |-> "select", overwrite |-> o]
                \/ \E o, S : q = [stage |-> "next", overwrite |-> o, todo |-> S]
                \/ \E o, S : q = [stage |-> "next", todo |-> S, overwrite |-> o]
  PROVE  Shaped(q) /\ Marks(q)' /\ q.stage \notin {"read", "write"}
BY DEF Idle, Shaped, Marks

\* What the query for the logs of an employee returns.
LEMMA LogsOfRows ==
  ASSUME Sane, NEW e
  PROVE  {LogRow(k) : k \in Eligible(e)} \subseteq Log /\ IsFiniteSet({LogRow(k) : k \in Eligible(e)})
<1> PICK S : S = Eligible(e)
  OBVIOUS
<1>1. S \in SUBSET Punches /\ S \subseteq Stored
  BY DEF Eligible, Stored
<1>2. \A k \in S : LogRow(k) \in Log
  BY <1>1, RowFields, LogsAssumption DEF LogRow, Log
<1> DEFINE f == [k \in S |-> LogRow(k)]
           L == {LogRow(k) : k \in S}
<1>3. f \in Surjection(S, L)
  BY DEF Surjection
<1>4. IsFiniteSet(S)
  BY <1>1, LogsAssumption, FS_Subset
<1>5. IsFiniteSet(L)
  <2> HIDE DEF f, L
  <2> QED
    BY <1>3, <1>4, FS_Surjection
<1> QED
  BY <1>2, <1>5

LEMMA RequestsStep ==
  ASSUME Sane, Next
  PROVE  RequestsThere' /\ SeenThere'
<1> DEFINE Fine == RequestsThere' /\ SeenThere'
<1> SUFFICES Fine
  OBVIOUS
<1>r. RowsFine
  BY RowsStep
<1>d. (\A e \in Employees : ~ HrRemove(e)) => \A e \in Employees : day[e] # NoRecord => day'[e] # NoRecord
  BY DayStep
<1>1. ASSUME NEW r \in Requests, NEW S, NEW a, NEW o, StartPush(r, S, a, o)
      PROVE  Fine
  <2> PICK q : q = [stage |-> "push", todo |-> S, marking |-> {}, verify |-> verify,
                    surprise |-> surprise, known |-> known, auto |-> a, overwrite |-> o]
    OBVIOUS
  <2>1. req' = [req EXCEPT ![r] = q] /\ UNCHANGED day
    BY <1>1 DEF StartPush
  <2>2. Shaped(q) /\ Marks(q)' /\ q.stage = "push"
    BY DEF Sane, SettingsThere, Shaped, Marks
  <2> QED
    BY <1>r, <2>1, <2>2, RequestMoves
<1>2. ASSUME NEW r \in Requests, NEW k \in Punches, Ingest(r, k)
      PROVE  Fine
  <2>1. /\ req[r].stage = "push" /\ {"todo", "marking"} \subseteq DOMAIN req[r]
        /\ req[r].verify \in BOOLEAN /\ req[r].surprise \in BOOLEAN
        /\ req[r].marking \subseteq Stored
    BY <1>2 DEF Ingest, Sane, RequestsThere, Shaped, Marks
  <2>2. Stored \subseteq Stored'
    BY <1>r DEF RowsFine, RowsKept, Stored
  <2>3. CASE rows[k] = NoRow
    <3> PICK q : q = [req[r] EXCEPT !.todo = @ \ {k}]
      OBVIOUS
    <3>1. req' = [req EXCEPT ![r] = q] /\ UNCHANGED day
      BY <1>2, <2>3 DEF Ingest, Sane, RequestsThere
    <3>2. /\ q.stage = "push" /\ {"todo", "marking"} \subseteq DOMAIN q
          /\ q.verify \in BOOLEAN /\ q.surprise \in BOOLEAN /\ q.marking = req[r].marking
      BY <2>1
    <3>3. Shaped(q) /\ Marks(q)'
      BY <2>1, <2>2, <3>2 DEF Shaped, Marks
    <3> QED
      BY <1>r, <3>1, <3>2, <3>3, RequestMoves
  <2>4. CASE rows[k] # NoRow
    <3> PICK q : q = [[req[r] EXCEPT !.todo = @ \ {k}] EXCEPT !.marking = @ \cup {k}]
      OBVIOUS
    <3>1. req' = [req EXCEPT ![r] = q] /\ UNCHANGED day
      BY <1>2, <2>1, <2>4 DEF Ingest, Sane, RequestsThere
    <3>2. /\ q.stage = "push" /\ {"todo", "marking"} \subseteq DOMAIN q
          /\ q.verify \in BOOLEAN /\ q.surprise \in BOOLEAN
          /\ q.marking = req[r].marking \cup {k}
      BY <2>1
    <3>3. Shaped(q) /\ Marks(q)'
      BY <2>1, <2>2, <2>4, <3>2 DEF Shaped, Marks, Stored
    <3> QED
      BY <1>r, <3>1, <3>2, <3>3, RequestMoves
  <2> QED
    BY <2>3, <2>4
<1>3. ASSUME NEW r \in Requests, NEW k \in Punches, MarkDuplicate(r, k)
      PROVE  Fine
  <2>1. /\ req[r].stage = "push" /\ {"todo", "marking"} \subseteq DOMAIN req[r]
        /\ req[r].verify \in BOOLEAN /\ req[r].surprise \in BOOLEAN
        /\ req[r].marking \subseteq Stored
    BY <1>3 DEF MarkDuplicate, Sane, RequestsThere, Shaped, Marks
  <2>2. Stored \subseteq Stored'
    BY <1>r DEF RowsFine, RowsKept, Stored
  <2> PICK q : q = [req[r] EXCEPT !.marking = @ \ {k}]
    OBVIOUS
  <2>3. req' = [req EXCEPT ![r] = q] /\ UNCHANGED day
    BY <1>3 DEF MarkDuplicate, Sane, RequestsThere
  <2>4. /\ q.stage = "push" /\ {"todo", "marking"} \subseteq DOMAIN q
        /\ q.verify \in BOOLEAN /\ q.surprise \in BOOLEAN
        /\ q.marking \subseteq req[r].marking
    BY <2>1
  <2>5. Shaped(q) /\ Marks(q)'
    BY <2>1, <2>2, <2>4 DEF Shaped, Marks
  <2> QED
    BY <1>r, <2>3, <2>4, <2>5, RequestMoves
<1>4. ASSUME NEW r \in Requests, NEW S, NEW o,
             \/ PushDone(r) \/ StartProcess(r, S, o) \/ StartReprocess(r, S) \/ Select(r)
             \/ MarkProcessed(r) \/ ProcessDone(r) \/ Die(r)
      PROVE  Fine
  <2>1. UNCHANGED day
    BY <1>4 DEF PushDone, StartProcess, StartReprocess, Select, MarkProcessed, ProcessDone, Die
  <2>2. PICK q : /\ req' = [req EXCEPT ![r] = q]
                 /\ \/ q = Idle
                    \/ \E p : q = [stage |-> "select", overwrite |-> p]
                    \/ \E p, T : q = [stage |-> "next", overwrite |-> p, todo |-> T]
                    \/ \E p, T : q = [stage |-> "next", todo |-> T, overwrite |-> p]
    BY <1>4 DEF PushDone, StartProcess, StartReprocess, Select, MarkProcessed, ProcessDone, Die
  <2>3. Shaped(q) /\ Marks(q)' /\ q.stage \notin {"read", "write"}
    BY <2>2, Light
  <2> QED
    BY <1>r, <2>1, <2>2, <2>3, RequestMoves
<1>5. ASSUME NEW r \in Requests, NEW e \in Employees, ReadRecord(r, e)
      PROVE  Fine
  <2> PICK rest : rest = req[r].todo \ {e}
    OBVIOUS
  <2>1. req[r].stage = "next" /\ "todo" \in DOMAIN req[r] /\ UNCHANGED day
    BY <1>5 DEF ReadRecord, Sane, RequestsThere, Shaped
  <2>2. CASE e \notin known \/ Skipped(r, e)
    <3> PICK q : q = [req[r] EXCEPT !.todo = rest]
      OBVIOUS
    <3>1. req' = [req EXCEPT ![r] = q]
      BY <1>5, <2>2 DEF ReadRecord, Sane, RequestsThere
    <3>2. Shaped(q) /\ Marks(q)' /\ q.stage = "next"
      BY <2>1 DEF Shaped, Marks
    <3> QED
      BY <1>r, <2>1, <3>1, <3>2, RequestMoves
  <2>3. CASE ~(e \notin known \/ Skipped(r, e))
    <3> PICK q : q = [stage |-> "read", todo |-> rest, emp |-> e,
                      overwrite |-> req[r].overwrite, seen |-> day[e]]
      OBVIOUS
    <3>1. req' = [req EXCEPT ![r] = q]
      BY <1>5, <2>3 DEF ReadRecord
    <3>2. Shaped(q) /\ Marks(q)' /\ q.emp = e /\ q.seen = day[e]
      BY DEF Shaped, Marks, Sane, DayThere
    <3> QED
      BY <1>r, <2>1, <3>1, <3>2, RequestMoves
  <2> QED
    BY <2>2, <2>3
<1>6. ASSUME NEW r \in Requests, ReadLogs(r)
      PROVE  Fine
  <2> PICK S, L : S = Eligible(req[r].emp) /\ L = {LogRow(k) : k \in S}
    OBVIOUS
  <2> PICK q : q = [stage |-> "write", todo |-> req[r].todo, emp |-> req[r].emp,
                    overwrite |-> req[r].overwrite, seen |-> req[r].seen, read |-> S, logs |-> L]
    OBVIOUS
  <2>1. req' = [req EXCEPT ![r] = q] /\ UNCHANGED <<day, rows>> /\ req[r].stage = "read"
    BY <1>6 DEF ReadLogs
  <2>2. S \subseteq Stored /\ Stored' = Stored
    BY <2>1 DEF Eligible, Stored
  <2>3. req[r].emp \in Employees /\ (req[r].seen \in {NoRecord, Gone} \/ Record(req[r].seen))
    BY <2>1 DEF Sane, RequestsThere, Shaped
  <2>4. L \subseteq Log /\ IsFiniteSet(L)
    BY LogsOfRows
  <2>5. Shaped(q) /\ Marks(q)' /\ q.emp = req[r].emp /\ q.seen = req[r].seen
    BY <2>2, <2>3, <2>4 DEF Shaped, Marks
  <2> QED
    BY <1>r, <2>1, <2>5, RequestMoves DEF Sane, SeenThere
<1>7. ASSUME NEW r \in Requests, WriteRecord(r)
      PROVE  Fine
  <2>1. \A e \in Employees : day[e] # NoRecord => day'[e] # NoRecord
    BY <1>7, WriteDay
  <2>2. UNCHANGED rows /\ req[r].stage = "write"
    BY <1>7 DEF WriteRecord
  <2>3. CASE \E o, S : req' = [req EXCEPT ![r] = [stage |-> "next", todo |-> S, overwrite |-> o]]
    <3> PICK q : /\ req' = [req EXCEPT ![r] = q]
                 /\ \E o, S : q = [stage |-> "next", todo |-> S, overwrite |-> o]
      BY <2>3
    <3>1. Shaped(q) /\ Marks(q)' /\ q.stage \notin {"read", "write"}
      BY Light
    <3> QED
      BY <1>r, <2>1, <3>1, RequestMoves
  <2>4. CASE req' = [req EXCEPT ![r] = [stage |-> "mark", todo |-> req[r].todo,
                         overwrite |-> req[r].overwrite, read |-> req[r].read]]
    <3> PICK q : q = [stage |-> "mark", todo |-> req[r].todo,
                      overwrite |-> req[r].overwrite, read |-> req[r].read]
      OBVIOUS
    <3>1. req[r].read \subseteq Stored /\ Stored' = Stored
      BY <2>2 DEF Sane, RequestsThere, Marks, Stored
    <3>2. Shaped(q) /\ Marks(q)' /\ q.stage = "mark"
      BY <3>1 DEF Shaped, Marks
    <3> QED
      BY <1>r, <2>1, <2>4, <3>2, RequestMoves
  <2> QED
    BY <1>7, <2>3, <2>4 DEF WriteRecord
<1>8. ASSUME NEW e \in Employees, HrRemove(e)
      PROVE  Fine
  <2>1. /\ day' = [day EXCEPT ![e] = NoRecord] /\ UNCHANGED rows
        /\ req' = [r \in Requests |->
              IF req[r].stage \in {"read", "write"} /\ req[r].emp = e /\ req[r].seen # NoRecord
              THEN [req[r] EXCEPT !.seen = Gone] ELSE req[r]]
    BY <1>8 DEF HrRemove
  <2>2. \A r \in Requests : Shaped(req[r]) /\ Marks(req[r])
    BY DEF Sane, RequestsThere
  <2>3. ASSUME NEW r \in Requests
        PROVE  /\ Shaped(req'[r]) /\ Marks(req[r])'
               /\ req'[r].stage \in {"read", "write"} /\ req'[r].seen \notin {NoRecord, Gone}
                    => day'[req'[r].emp] # NoRecord
    <3>1. CASE /\ req[r].stage \in {"read", "write"} /\ req[r].emp = e
               /\ req[r].seen # NoRecord
      <4>1. /\ {"stage", "todo", "emp", "overwrite", "seen"} \subseteq DOMAIN req[r]
            /\ req[r].stage = "write" => "read" \in DOMAIN req[r]
            /\ req[r].emp \in Employees
        BY <2>2, <3>1 DEF Shaped
      <4>2. /\ req'[r].stage = req[r].stage /\ req'[r].emp = req[r].emp
            /\ req[r].stage = "write" => req'[r].read = req[r].read
            /\ req'[r].seen = Gone /\ DOMAIN req'[r] = DOMAIN req[r]
        BY <2>1, <3>1, <4>1
      <4> QED
        BY <2>1, <2>2, <3>1, <4>1, <4>2 DEF Shaped, Marks, Stored
    <3>2. CASE ~(/\ req[r].stage \in {"read", "write"} /\ req[r].emp = e
                 /\ req[r].seen # NoRecord)
      <4>1. req'[r] = req[r]
        BY <2>1, <3>2
      <4>2. Shaped(req'[r]) /\ Marks(req[r])'
        BY <2>1, <2>2, <4>1 DEF Marks, Stored
      <4>3. ASSUME req[r].stage \in {"read", "write"}, req[r].seen \notin {NoRecord, Gone}
            PROVE  day'[req[r].emp] # NoRecord
        <5>1. req[r].emp # e /\ req[r].emp \in Employees
          BY <2>2, <3>2, <4>3 DEF Shaped
        <5>2. day[req[r].emp] # NoRecord
          BY <4>3 DEF Sane, SeenThere
        <5> QED
          BY <2>1, <5>1, <5>2 DEF Sane, DayThere
      <4> QED
        BY <4>1, <4>2, <4>3
    <3> QED
      BY <3>1, <3>2
  <2>4. RequestsThere'
    BY <2>1, <2>3 DEF RequestsThere, Shaped
  <2>5. SeenThere'
    BY <2>3 DEF SeenThere
  <2> QED
    BY <2>4, <2>5
<1>9. CASE UNCHANGED req /\ \A e \in Employees : ~ HrRemove(e)
  BY <1>d, <1>r, <1>9, SameRequests
<1> QED
  BY <1>1, <1>2, <1>3, <1>4, <1>5, <1>6, <1>7, <1>8, <1>9
     DEF Next, Admin, Arrive, Step, AddEmployee, ResolveRow, MarkForReprocess, SwitchMode,
         SwitchSurprise, HrCreate, HrUpdate

LEMMA SaneStep == Sane /\ [Next]_vars => Sane'
<1>1. ASSUME Sane, Next
      PROVE  Sane'
  BY <1>1, RowsStep, DayStep, SettingsStep, RequestsStep DEF Sane, RowsFine
<1>2. ASSUME Sane, UNCHANGED vars
      PROVE  Sane'
  BY <1>2 DEF Sane, RowsThere, CardsOwn, DayThere, RequestsThere, Shaped, Marks, SettingsThere,
     DuplicatesAccounted, SeenThere, Stored, vars, settings, counters, history
<1> QED
  BY <1>1, <1>2
-----------------------------------------------------------------------------
(* Records of HR are kept.                                                 *)
(*                                                                         *)
(* A request that may not overwrite reads the record before it computes    *)
(* the new one.  It goes on when there is none, and then the unique index  *)
(* stops it if HR was faster, or with a record of the devices, and while   *)
(* that one is there HR cannot create another.                             *)

\* What a request under way knows of a record is what it knew, or that it is gone.
SameReading(r) ==
  \/ req'[r] = req[r]
  \/ req'[r].stage \notin {"read", "write"}
  \/ /\ req[r].stage \in {"read", "write"}
     /\ req'[r].emp = req[r].emp
     /\ req'[r].overwrite = req[r].overwrite
     /\ req'[r].seen = req[r].seen \/ req'[r].seen = Gone

LEMMA ReadingsStep ==
  ASSUME Sane, Next, NEW r \in Requests
  PROVE  SameReading(r) \/ \E e \in Employees : ReadRecord(r, e)
<1> DEFINE Fine == SameReading(r) \/ \E e \in Employees : ReadRecord(r, e)
<1> SUFFICES Fine
  OBVIOUS
<1>0. DOMAIN req = Requests /\ Shaped(req[r])
  BY DEF Sane, RequestsThere
<1>1. ASSUME NEW t \in Requests, NEW k, Ingest(t, k) \/ MarkDuplicate(t, k)
      PROVE  Fine
  <2>1. req[t].stage = "push" /\ {"todo", "marking"} \subseteq DOMAIN req[t]
    BY <1>1 DEF Ingest, MarkDuplicate, Sane, RequestsThere, Shaped
  <2>2. CASE Ingest(t, k) /\ rows[k] = NoRow
    <3> PICK q : q = [req[t] EXCEPT !.todo = @ \ {k}]
      OBVIOUS
    <3>1. q.stage = "push"
      BY <2>1
    <3>2. req' = [req EXCEPT ![t] = q]
      BY <1>0, <2>1, <2>2 DEF Ingest
    <3> QED
      BY <1>0, <3>1, <3>2 DEF SameReading
  <2>3. CASE Ingest(t, k) /\ rows[k] # NoRow
    <3> PICK q : q = [[req[t] EXCEPT !.todo = @ \ {k}] EXCEPT !.marking = @ \cup {k}]
      OBVIOUS
    <3>1. q.stage = "push"
      BY <2>1
    <3>2. req' = [req EXCEPT ![t] = q]
      BY <1>0, <2>1, <2>3 DEF Ingest
    <3> QED
      BY <1>0, <3>1, <3>2 DEF SameReading
  <2>4. CASE MarkDuplicate(t, k)
    <3> PICK q : q = [req[t] EXCEPT !.marking = @ \ {k}]
      OBVIOUS
    <3>1. q.stage = "push"
      BY <2>1
    <3>2. req' = [req EXCEPT ![t] = q]
      BY <1>0, <2>1, <2>4 DEF MarkDuplicate
    <3> QED
      BY <1>0, <3>1, <3>2 DEF SameReading
  <2> QED
    BY <1>1, <2>2, <2>3, <2>4
<1>2. ASSUME NEW t \in Requests, NEW S, NEW a, NEW o,
             \/ StartPush(t, S, a, o) \/ PushDone(t) \/ StartProcess(t, S, o)
             \/ StartReprocess(t, S) \/ Select(t) \/ MarkProcessed(t) \/ ProcessDone(t)
             \/ Die(t)
      PROVE  Fine
  <2>1. PICK q : req' = [req EXCEPT ![t] = q] /\ q.stage \notin {"read", "write"}
    BY <1>2 DEF StartPush, PushDone, StartProcess, StartReprocess, Select, MarkProcessed,
       ProcessDone, Die, Idle
  <2> QED
    BY <1>0, <2>1 DEF SameReading
<1>3. ASSUME NEW t \in Requests, NEW e \in Employees, ReadRecord(t, e)
      PROVE  Fine
  <2>1. t # r => req'[r] = req[r]
    BY <1>0, <1>3 DEF ReadRecord
  <2> QED
    BY <1>3, <2>1 DEF SameReading
<1>4. ASSUME NEW t \in Requests, ReadLogs(t)
      PROVE  Fine
  <2> PICK S, L : S = Eligible(req[t].emp) /\ L = {LogRow(k) : k \in S}
    OBVIOUS
  <2>1. /\ req' = [req EXCEPT ![t] = [stage |-> "write", todo |-> req[t].todo, emp |-> req[t].emp,
              overwrite |-> req[t].overwrite, seen |-> req[t].seen, read |-> S, logs |-> L]]
        /\ req[t].stage = "read"
    BY <1>4 DEF ReadLogs
  <2> QED
    BY <1>0, <2>1 DEF SameReading
<1>5. ASSUME NEW t \in Requests, WriteRecord(t)
      PROVE  Fine
  <2>1. \/ \E o, S : req' = [req EXCEPT ![t] = [stage |-> "next", todo |-> S, overwrite |-> o]]
        \/ \E o, S, T : req' = [req EXCEPT ![t] = [stage |-> "mark", todo |-> S,
                                                   overwrite |-> o, read |-> T]]
    BY <1>5 DEF WriteRecord
  <2> QED
    BY <1>0, <2>1 DEF SameReading
<1>6. ASSUME NEW e \in Employees, HrRemove(e)
      PROVE  Fine
  <2>1. req'[r] = IF req[r].stage \in {"read", "write"} /\ req[r].emp = e /\ req[r].seen # NoRecord
                  THEN [req[r] EXCEPT !.seen = Gone] ELSE req[r]
    BY <1>6 DEF HrRemove
  <2> QED
    BY <1>0, <2>1 DEF SameReading, Shaped
<1>7. CASE UNCHANGED req
  BY <1>7 DEF SameReading
<1> QED
  BY <1>1, <1>2, <1>3, <1>4, <1>5, <1>6, <1>7
     DEF Next, Admin, Arrive, Step, AddEmployee, ResolveRow, MarkForReprocess, SwitchMode,
         SwitchSurprise, HrCreate, HrUpdate

\* Only HR's own entry makes a record a manual one, and only the write replaces it.
LEMMA ManualStep == Sane /\ Sane' /\ ManualInv /\ [Next]_vars => ManualInv'
<1> SUFFICES ASSUME Sane, Sane', SeenOfDevice, ManualKept, Next
             PROVE  SeenOfDevice' /\ ManualKept'
  BY DEF ManualInv, SeenOfDevice, ManualKept, vars, settings, counters, history
<1>d. DOMAIN day = Employees
  BY DEF Sane, DayThere
<1>1. ASSUME manual' \subseteq manual
      PROVE  SeenOfDevice'
  <2> SUFFICES ASSUME NEW r \in Requests, req'[r].stage \in {"read", "write"},
                      ~req'[r].overwrite, req'[r].seen \notin {NoRecord, Gone}
               PROVE  req'[r].emp \notin manual
    BY <1>1 DEF SeenOfDevice
  <2>1. CASE SameReading(r)
    BY <2>1 DEF SameReading, SeenOfDevice
  <2>2. ASSUME NEW e \in Employees, ReadRecord(r, e), ~SameReading(r)
        PROVE  req'[r].emp \notin manual
    <3>1. CASE e \notin known \/ Skipped(r, e)
      <4>1. req[r].stage = "next" /\ "todo" \in DOMAIN req[r] /\ DOMAIN req = Requests
        BY <2>2 DEF ReadRecord, Sane, RequestsThere, Shaped
      <4> PICK rest : rest = req[r].todo \ {e}
        OBVIOUS
      <4> PICK q : q = [req[r] EXCEPT !.todo = rest]
        OBVIOUS
      <4>2. req' = [req EXCEPT ![r] = q] /\ q.stage = "next"
        BY <2>2, <3>1, <4>1 DEF ReadRecord
      <4> QED
        BY <4>1, <4>2
    <3>2. CASE ~(e \notin known \/ Skipped(r, e))
      <4>1. req'[r] = [stage |-> "read", todo |-> req[r].todo \ {e}, emp |-> e,
                       overwrite |-> req[r].overwrite, seen |-> day[e]]
        BY <2>2, <3>2 DEF ReadRecord, Sane, RequestsThere
      <4>2. req'[r].emp = e /\ req'[r].overwrite = req[r].overwrite /\ req'[r].seen = day[e]
        BY <4>1
      <4>3. day[e].source = "DEVICE"
        BY <3>2, <4>2 DEF Skipped
      <4> QED
        BY <4>2, <4>3 DEF ManualKept
    <3> QED
      BY <3>1, <3>2
  <2> QED
    BY <2>1, <2>2, ReadingsStep
<1>2. ASSUME NEW r \in Requests, WriteRecord(r)
      PROVE  SeenOfDevice' /\ ManualKept'
  <2> PICK e \in Employees : e = req[r].emp
    BY <1>2, WriteDay
  <2>1. manual' \subseteq manual /\ req[r].stage = "write"
    BY <1>2 DEF WriteRecord
  <2>2. \A d \in Employees \ {e} : day'[d] = day[d]
    BY <1>2, WriteDay
  <2>3. e \in manual' => day'[e] = day[e]
    <3>1. CASE UNCHANGED day
      BY <3>1
    <3>2. CASE req[r].overwrite /\ manual' = manual \ {e}
      BY <3>2
    <3>3. CASE ~req[r].overwrite /\ manual' = manual /\ day[e] = NoRecord
      BY <3>3 DEF ManualKept
    <3>4. CASE ~req[r].overwrite /\ manual' = manual /\ req[r].seen \notin {NoRecord, Gone}
      BY <2>1, <3>4 DEF SeenOfDevice
    <3> QED
      BY <1>2, <3>1, <3>2, <3>3, <3>4 DEF WriteRecord
  <2>4. manual \subseteq Employees
    BY DEF Sane, SettingsThere
  <2>5. ManualKept'
    BY <2>1, <2>2, <2>3, <2>4 DEF ManualKept
  <2> QED
    BY <1>1, <2>1, <2>5
<1>3. ASSUME NEW e \in Employees, HrCreate(e)
      PROVE  SeenOfDevice' /\ ManualKept'
  <2> PICK p : p = [in |-> HrTime, out |-> NoTime, total |-> NoTime, late |-> 0, overtime |-> 0,
                    status |-> "PRESENT", surprise |-> FALSE, source |-> "MANUAL"]
    OBVIOUS
  <2>1. p.source = "MANUAL" /\ p.in = HrTime /\ p # NoRecord
    BY DEF NoRecord
  <2>2. /\ day' = [day EXCEPT ![e] = p] /\ manual' = manual \cup {e}
        /\ UNCHANGED req /\ day[e] = NoRecord
    BY <1>3 DEF HrCreate
  <2>3. ManualKept'
    BY <1>d, <2>1, <2>2 DEF ManualKept
  <2>4. \A r \in Requests : req[r].stage \in {"read", "write"} /\ req[r].seen \notin {NoRecord, Gone}
          => req[r].emp # e
    BY <2>2 DEF Sane, SeenThere
  <2>5. SeenOfDevice'
    BY <2>2, <2>4 DEF SeenOfDevice
  <2> QED
    BY <2>3, <2>5
<1>4. ASSUME NEW e \in Employees, HrUpdate(e) \/ HrRemove(e)
      PROVE  SeenOfDevice' /\ ManualKept'
  <2>1. manual' = manual \ {e} /\ \A d \in Employees \ {e} : day'[d] = day[d]
    BY <1>4, <1>d DEF HrUpdate, HrRemove
  <2>2. ManualKept'
    BY <2>1 DEF ManualKept, Sane, SettingsThere
  <2> QED
    BY <1>1, <2>1, <2>2
<1>5. CASE UNCHANGED <<day, manual>>
  BY <1>1, <1>5 DEF ManualKept
<1> QED
  BY <1>2, <1>3, <1>4, <1>5
     DEF Next, Admin, Arrive, Step, Die, StartPush, Ingest, MarkDuplicate, PushDone,
         StartProcess, StartReprocess, Select, ReadRecord, ReadLogs, MarkProcessed,
         ProcessDone, AddEmployee, ResolveRow, MarkForReprocess, SwitchMode,
         SwitchSurprise, history
-----------------------------------------------------------------------------
(* What the records say.                                                   *)
(*                                                                         *)
(* Rows are never deleted and keep their employee, mode and mark of a      *)
(* surprise, so a time that was one of the employee's punches stays one,   *)
(* also while a request carries it.  A check-in that is there is taken     *)
(* away by HR alone: a request computes a new one from what it has read,   *)
(* and writes a column only if it differs from what it read.               *)

\* A row of employee e that attendance may be computed from.
RowOf(k, e) == k \in Stored /\ rows[k].emp = e /\ EmpOf[k] = e /\ ~rows[k].verifyOnly

OwnTimes(e) == {NoTime, HrTime} \cup
  {LogOf[k].time : k \in {l \in Stored : /\ rows[l].emp = e /\ EmpOf[l] = e
                                         /\ ~rows[l].verifyOnly /\ ~rows[l].surprise}}

\* What a request has read of a record, and of the rows, is what they may say.
OwnReadings == \A r \in Requests :
  /\ req[r].stage \in {"read", "write"}
  /\ req[r].seen \notin {NoRecord, Gone}
  => {req[r].seen.in, req[r].seen.out} \subseteq OwnTimes(req[r].emp)

OwnLogs == \A r \in Requests : req[r].stage = "write" =>
  /\ req[r].logs = {LogRow(k) : k \in req[r].read}
  /\ \A k \in req[r].read : RowOf(k, req[r].emp)

OwnInv == OwnPunches /\ OwnReadings /\ OwnLogs

\* A punch that makes a check-in.
MakesIn(k) == Apart(k) /\ ~rows[k].surprise /\ Side(LogOf[k], Shift) = "in"

HasIn(e) == day[e] # NoRecord /\ day[e].in # NoTime

\* A punch that has counted.
InThere(k) ==
  /\ rows[k].emp = EmpOf[k]
  /\ MakesIn(k) /\ EmpOf[k] \notin corrected => HasIn(EmpOf[k])

SeenIn == \A r \in Requests :
  /\ req[r].stage \in {"read", "write"} /\ req[r].emp \notin corrected
  /\ req[r].seen \notin {NoRecord, Gone} /\ req[r].seen.in # NoTime
  => HasIn(req[r].emp)

MarkedIn == \A r \in Requests : req[r].stage = "mark" => \A k \in req[r].read : InThere(k)

ProcessedIn == \A k \in Stored : rows[k].processed => InThere(k)

CountInv == SeenIn /\ MarkedIn /\ ProcessedIn

\* The inductive invariant.
IInv == Sane /\ ManualInv /\ OwnInv /\ CountInv /\ OwedOnWay

\* Which requests are about to write and to mark after a step.
LEMMA StagesStep ==
  ASSUME Sane, Next, NEW r \in Requests
  PROVE  /\ req'[r].stage = "write" =>
              \/ /\ req[r].stage = "write" /\ req'[r].emp = req[r].emp
                 /\ req'[r].read = req[r].read /\ req'[r].logs = req[r].logs
              \/ ReadLogs(r)
         /\ req'[r].stage = "mark" => req'[r] = req[r] \/ WriteRecord(r)
<1> DEFINE Fine == /\ req'[r].stage = "write" =>
                        \/ /\ req[r].stage = "write" /\ req'[r].emp = req[r].emp
                           /\ req'[r].read = req[r].read /\ req'[r].logs = req[r].logs
                        \/ ReadLogs(r)
                   /\ req'[r].stage = "mark" => req'[r] = req[r] \/ WriteRecord(r)
<1> SUFFICES Fine
  OBVIOUS
<1>0. DOMAIN req = Requests /\ Shaped(req[r])
  BY DEF Sane, RequestsThere
<1>s. ASSUME NEW t \in Requests, NEW q, req' = [req EXCEPT ![t] = q],
             q.stage \notin {"write", "mark"}
      PROVE  Fine
  BY <1>0, <1>s
<1>1. ASSUME NEW t \in Requests, NEW k, Ingest(t, k) \/ MarkDuplicate(t, k)
      PROVE  Fine
  <2>1. req[t].stage = "push" /\ {"todo", "marking"} \subseteq DOMAIN req[t]
    BY <1>1 DEF Ingest, MarkDuplicate, Sane, RequestsThere, Shaped
  <2>2. CASE Ingest(t, k) /\ rows[k] = NoRow
    <3> PICK q : q = [req[t] EXCEPT !.todo = @ \ {k}]
      OBVIOUS
    <3>1. q.stage = "push"
      BY <2>1
    <3>2. req' = [req EXCEPT ![t] = q]
      BY <1>0, <2>1, <2>2 DEF Ingest
    <3> QED
      BY <1>s, <3>1, <3>2
  <2>3. CASE Ingest(t, k) /\ rows[k] # NoRow
    <3> PICK q : q = [[req[t] EXCEPT !.todo = @ \ {k}] EXCEPT !.marking = @ \cup {k}]
      OBVIOUS
    <3>1. q.stage = "push"
      BY <2>1
    <3>2. req' = [req EXCEPT ![t] = q]
      BY <1>0, <2>1, <2>3 DEF Ingest
    <3> QED
      BY <1>s, <3>1, <3>2
  <2>4. CASE MarkDuplicate(t, k)
    <3> PICK q : q = [req[t] EXCEPT !.marking = @ \ {k}]
      OBVIOUS
    <3>1. q.stage = "push"
      BY <2>1
    <3>2. req' = [req EXCEPT ![t] = q]
      BY <1>0, <2>1, <2>4 DEF MarkDuplicate
    <3> QED
      BY <1>s, <3>1, <3>2
  <2> QED
    BY <1>1, <2>2, <2>3, <2>4
<1>2. ASSUME NEW t \in Requests, NEW S, NEW a, NEW o,
             \/ StartPush(t, S, a, o) \/ PushDone(t) \/ StartProcess(t, S, o)
             \/ StartReprocess(t, S) \/ Select(t) \/ MarkProcessed(t) \/ ProcessDone(t)
             \/ Die(t)
      PROVE  Fine
  <2>1. PICK q : req' = [req EXCEPT ![t] = q] /\ q.stage \notin {"write", "mark"}
    BY <1>2 DEF StartPush, PushDone, StartProcess, StartReprocess, Select, MarkProcessed,
       ProcessDone, Die, Idle
  <2> QED
    BY <1>s, <2>1
<1>3. ASSUME NEW t \in Requests, NEW e \in Employees, ReadRecord(t, e)
      PROVE  Fine
  <2> PICK rest : rest = req[t].todo \ {e}
    OBVIOUS
  <2>1. req[t].stage = "next" /\ "todo" \in DOMAIN req[t]
    BY <1>3 DEF ReadRecord, Sane, RequestsThere, Shaped
  <2>2. CASE e \notin known \/ Skipped(t, e)
    <3> PICK q : q = [req[t] EXCEPT !.todo = rest]
      OBVIOUS
    <3>1. req' = [req EXCEPT ![t] = q] /\ q.stage = "next"
      BY <1>3, <2>1, <2>2 DEF ReadRecord, Sane, RequestsThere
    <3> QED
      BY <1>s, <3>1
  <2>3. CASE ~(e \notin known \/ Skipped(t, e))
    <3> PICK q : q = [stage |-> "read", todo |-> rest, emp |-> e,
                      overwrite |-> req[t].overwrite, seen |-> day[e]]
      OBVIOUS
    <3>1. req' = [req EXCEPT ![t] = q] /\ q.stage = "read"
      BY <1>3, <2>3 DEF ReadRecord
    <3> QED
      BY <1>s, <3>1
  <2> QED
    BY <2>2, <2>3
<1>4. ASSUME NEW t \in Requests, ReadLogs(t)
      PROVE  Fine
  <2>1. t # r => req'[r] = req[r]
    BY <1>0, <1>4 DEF ReadLogs
  <2> PICK S, L : S = Eligible(req[t].emp) /\ L = {LogRow(k) : k \in S}
    OBVIOUS
  <2> PICK q : q = [stage |-> "write", todo |-> req[t].todo, emp |-> req[t].emp,
                    overwrite |-> req[t].overwrite, seen |-> req[t].seen, read |-> S, logs |-> L]
    OBVIOUS
  <2>2. req' = [req EXCEPT ![t] = q] /\ q.stage = "write"
    BY <1>4 DEF ReadLogs
  <2> QED
    BY <1>0, <1>4, <2>1, <2>2
<1>5. ASSUME NEW t \in Requests, WriteRecord(t)
      PROVE  Fine
  <2>1. t # r => req'[r] = req[r]
    BY <1>0, <1>5 DEF WriteRecord
  <2>2. req'[t].stage # "write"
    BY <1>5 DEF WriteRecord, Sane, RequestsThere
  <2> QED
    BY <1>5, <2>1, <2>2
<1>6. ASSUME NEW e \in Employees, HrRemove(e)
      PROVE  Fine
  <2>1. req'[r] = IF req[r].stage \in {"read", "write"} /\ req[r].emp = e /\ req[r].seen # NoRecord
                  THEN [req[r] EXCEPT !.seen = Gone] ELSE req[r]
    BY <1>6 DEF HrRemove
  <2>2. CASE req[r].stage \in {"read", "write"} /\ req[r].emp = e /\ req[r].seen # NoRecord
    <3>1. req'[r] = [req[r] EXCEPT !.seen = Gone]
      BY <2>1, <2>2
    <3>2. {"stage", "emp", "seen"} \subseteq DOMAIN req[r]
          /\ (req[r].stage = "write" => {"read", "logs"} \subseteq DOMAIN req[r])
      BY <1>0, <2>2 DEF Shaped
    <3> QED
      BY <2>2, <3>1, <3>2
  <2> QED
    BY <2>1, <2>2
<1>7. CASE UNCHANGED req
  BY <1>7
<1> QED
  BY <1>1, <1>2, <1>3, <1>4, <1>5, <1>6, <1>7
     DEF Next, Admin, Arrive, Step, AddEmployee, ResolveRow, MarkForReprocess, SwitchMode,
         SwitchSurprise, HrCreate, HrUpdate

\* A request that passes over an employee reads nothing; one that goes on reads the record.
LEMMA ReadIs ==
  ASSUME Sane, NEW r \in Requests, NEW e \in Employees, ReadRecord(r, e),
         req'[r].stage \in {"read", "write"}
  PROVE  req'[r].emp = e /\ req'[r].seen = day[e] /\ UNCHANGED <<day, corrected>>
<1>1. req[r].stage = "next" /\ "todo" \in DOMAIN req[r] /\ DOMAIN req = Requests
  BY DEF ReadRecord, Sane, RequestsThere, Shaped
<1> PICK rest : rest = req[r].todo \ {e}
  OBVIOUS
<1>2. CASE e \notin known \/ Skipped(r, e)
  <2> PICK q : q = [req[r] EXCEPT !.todo = rest]
    OBVIOUS
  <2>1. req' = [req EXCEPT ![r] = q] /\ q.stage = "next"
    BY <1>1, <1>2 DEF ReadRecord
  <2> QED
    BY <1>1, <2>1
<1>3. CASE ~(e \notin known \/ Skipped(r, e))
  <2>1. req'[r] = [stage |-> "read", todo |-> rest, emp |-> e,
                   overwrite |-> req[r].overwrite, seen |-> day[e]]
    BY <1>1, <1>3 DEF ReadRecord
  <2> QED
    BY <2>1 DEF ReadRecord
<1> QED
  BY <1>2, <1>3

\* What the upsert does, if it does anything.
LEMMA WriteIs ==
  ASSUME Sane, NEW r \in Requests, WriteRecord(r)
  PROVE  \E q, e, p :
           /\ q = req[r] /\ e = q.emp /\ e \in Employees /\ p = Payload(q)
           /\ Shaped(q) /\ q.stage = "write" /\ UNCHANGED <<rows, corrected>>
           /\ \A d \in Employees \ {e} : day'[d] = day[d]
           /\ \/ /\ day' = day /\ req'[r].stage = "next"
              \/ /\ q.seen = NoRecord /\ day[e] = NoRecord /\ day'[e] = p
                 /\ req'[r].read = q.read /\ Record(p)
              \/ /\ Record(q.seen) /\ Record(day[e]) /\ Record(p)
                 /\ q.seen \notin {NoRecord, Gone}
                 /\ day'[e] = Update(day[e], q.seen, p)
                 /\ req'[r].read = q.read
<1> PICK q, e, p : q = req[r] /\ e = q.emp /\ p = Payload(q)
  OBVIOUS
<1>1. /\ Shaped(q) /\ q.stage = "write" /\ UNCHANGED <<rows, corrected>> /\ e \in Employees
      /\ DOMAIN day = Employees /\ DOMAIN req = Requests
      /\ q.seen \in {NoRecord, Gone} \/ Record(q.seen)
  BY DEF WriteRecord, Sane, RequestsThere, Shaped, DayThere
<1>2. \A d \in Employees \ {e} : day'[d] = day[d]
  BY WriteDay
<1>3. NoRecord # Gone
  BY DEF NoRecord, Gone
<1>4. q.seen # Gone => Record(p)
  BY <1>1, PayloadIs
<1>5. q.seen \notin {NoRecord, Gone} => Record(day[e])
  BY <1>1 DEF Sane, SeenThere, DayThere
<1>6. CASE /\ UNCHANGED day
           /\ req' = [req EXCEPT ![r] = [stage |-> "next", todo |-> q.todo,
                                         overwrite |-> q.overwrite]]
  <2>1. day' = day /\ req'[r].stage = "next"
    BY <1>1, <1>6
  <2> QED
    BY <1>1, <1>2, <2>1
<1>7. CASE /\ q.seen = NoRecord /\ day[e] = NoRecord /\ day' = [day EXCEPT ![e] = p]
           /\ req' = [req EXCEPT ![r] = [stage |-> "mark", todo |-> q.todo,
                                         overwrite |-> q.overwrite, read |-> q.read]]
  <2>1. /\ q.seen = NoRecord /\ day[e] = NoRecord /\ day'[e] = p
        /\ req'[r].read = q.read /\ Record(p)
    BY <1>1, <1>3, <1>4, <1>7
  <2> QED
    BY <1>1, <1>2, <2>1
<1>8. CASE /\ q.seen \notin {NoRecord, Gone}
           /\ day' = [day EXCEPT ![e] = Update(@, q.seen, p)]
           /\ req' = [req EXCEPT ![r] = [stage |-> "mark", todo |-> q.todo,
                                         overwrite |-> q.overwrite, read |-> q.read]]
  <2>1. /\ Record(q.seen) /\ Record(day[e]) /\ Record(p)
        /\ day'[e] = Update(day[e], q.seen, p)
        /\ req'[r].read = q.read
    BY <1>1, <1>4, <1>5, <1>8
  <2> QED
    BY <1>1, <1>2, <1>8, <2>1
<1> QED
  BY <1>6, <1>7, <1>8 DEF WriteRecord

\* A row of an employee, a time of his and a punch that makes a check-in stay what they are.
LEMMA OwnOn ==
  ASSUME RowsFine, NEW e
  PROVE  /\ OwnTimes(e) \subseteq OwnTimes(e)'
         /\ \A k : RowOf(k, e) => RowOf(k, e)'
         /\ \A k \in Stored : MakesIn(k)' <=> MakesIn(k)
<1>1. \A k \in Stored :
         /\ k \in Stored' /\ rows'[k].verifyOnly = rows[k].verifyOnly
         /\ rows'[k].surprise = rows[k].surprise
         /\ rows[k].emp = EmpOf[k] => rows'[k].emp = EmpOf[k]
  BY DEF RowsFine, RowsKept, Stored
<1>3. ASSUME NEW k, RowOf(k, e)
      PROVE  RowOf(k, e)' /\ rows'[k].surprise = rows[k].surprise
  BY <1>1, <1>3 DEF RowOf
<1>2. OwnTimes(e) \subseteq OwnTimes(e)'
  <2> SUFFICES ASSUME NEW k, RowOf(k, e), ~rows[k].surprise
               PROVE  LogOf[k].time \in OwnTimes(e)'
    BY DEF OwnTimes, RowOf
  <2>1. RowOf(k, e)' /\ ~rows'[k].surprise
    BY <1>3
  <2> QED
    BY <2>1 DEF OwnTimes, RowOf
<1>4. ASSUME NEW k \in Stored
      PROVE  MakesIn(k)' <=> MakesIn(k)
  <2>1. rows'[k].surprise = rows[k].surprise
    BY <1>1
  <2> QED
    BY <2>1 DEF MakesIn, Apart
<1> QED
  BY <1>2, <1>3, <1>4

\* The punches a request computes from are the employee's.
LEMMA ReadTimes ==
  ASSUME NEW q, NEW e, q.logs = {LogRow(k) : k \in q.read}, \A k \in q.read : RowOf(k, e)
  PROVE  TimesOf(Counting(q)) \subseteq OwnTimes(e)
<1> SUFFICES ASSUME NEW l \in Counting(q)
             PROVE  l.time \in OwnTimes(e)
  BY DEF TimesOf
<1>1. PICK k \in q.read : l = LogRow(k)
  BY DEF Counting
<1>2. RowOf(k, e) /\ l.time = LogOf[k].time /\ ~rows[k].surprise
  BY <1>1 DEF LogRow, Counting
<1> QED
  BY <1>2 DEF RowOf, OwnTimes

\* OwnPunches: only punches of the employee, and HR, enter a time.
LEMMA OwnDay ==
  ASSUME Sane, OwnInv, Next
  PROVE  OwnPunches'
<1> DEFINE Fine(e) == day'[e] # NoRecord => {day'[e].in, day'[e].out} \subseteq OwnTimes(e)'
<1>o. ASSUME NEW e PROVE OwnTimes(e) \subseteq OwnTimes(e)'
  BY RowsStep, OwnOn
<1>p. \A e \in Employees : day[e] # NoRecord => {day[e].in, day[e].out} \subseteq OwnTimes(e)
  BY DEF OwnInv, OwnPunches, OwnTimes
<1>s. \A e \in Employees : day'[e] = day[e] => Fine(e)
  BY <1>o, <1>p
<1>d. DOMAIN day = Employees /\ \A e \in Employees : day[e] = NoRecord \/ Record(day[e])
  BY DEF Sane, DayThere
<1>h. \A e : HrTime \in OwnTimes(e)' /\ NoTime \in OwnTimes(e)'
  BY DEF OwnTimes
<1>1. ASSUME NEW r \in Requests, WriteRecord(r)
      PROVE  \A e \in Employees : Fine(e)
  <2> PICK q, e, p :
           /\ q = req[r] /\ e = q.emp /\ e \in Employees /\ p = Payload(q)
           /\ Shaped(q) /\ q.stage = "write" /\ UNCHANGED <<rows, corrected>>
           /\ \A d \in Employees \ {e} : day'[d] = day[d]
           /\ \/ /\ day' = day /\ req'[r].stage = "next"
              \/ /\ q.seen = NoRecord /\ day[e] = NoRecord /\ day'[e] = p
                 /\ req'[r].read = q.read /\ Record(p)
              \/ /\ Record(q.seen) /\ Record(day[e]) /\ Record(p)
                 /\ q.seen \notin {NoRecord, Gone}
                 /\ day'[e] = Update(day[e], q.seen, p)
                 /\ req'[r].read = q.read
    BY <1>1, WriteIs
  <2>1. TimesOf(Counting(q)) \subseteq OwnTimes(e)
    BY ReadTimes DEF OwnInv, OwnLogs
  <2>2. q.seen \notin {NoRecord, Gone} => {q.seen.in, q.seen.out} \subseteq OwnTimes(e)
    BY DEF OwnInv, OwnReadings
  <2>3. NoTime \in OwnTimes(e) /\ NoRecord # Gone
    BY DEF OwnTimes, NoRecord, Gone
  <2>4. q.seen # Gone => {p.in, p.out} \subseteq OwnTimes(e)
    BY <2>1, <2>2, <2>3, PayloadIs
  <2>5. Fine(e)
    <3>1. CASE day' = day
      BY <1>s, <3>1
    <3>2. CASE q.seen = NoRecord /\ day'[e] = p
      BY <1>o, <2>3, <2>4, <3>2
    <3>3. CASE /\ Record(q.seen) /\ Record(day[e]) /\ Record(p) /\ q.seen \notin {NoRecord, Gone}
               /\ day'[e] = Update(day[e], q.seen, p)
      <4>1. day[e] # NoRecord
        BY <3>3, RecordThere
      <4> PICK u : u = Update(day[e], q.seen, p)
        OBVIOUS
      <4>2. u.in \in {day[e].in, p.in} /\ u.out \in {day[e].out, p.out}
        BY <3>3, UpdateIs
      <4>3. {u.in, u.out} \subseteq OwnTimes(e)
        BY <1>p, <2>4, <3>3, <4>1, <4>2
      <4> QED
        BY <1>o, <3>3, <4>3
    <3> QED
      BY <3>1, <3>2, <3>3
  <2> QED
    BY <1>s, <2>5
<1>2. ASSUME NEW e \in Employees, HrCreate(e)
      PROVE  \A d \in Employees : Fine(d)
  <2> PICK p : p = [in |-> HrTime, out |-> NoTime, total |-> NoTime, late |-> 0, overtime |-> 0,
                    status |-> "PRESENT", surprise |-> FALSE, source |-> "MANUAL"]
    OBVIOUS
  <2>1. day' = [day EXCEPT ![e] = p] /\ p.in = HrTime /\ p.out = NoTime
    BY <1>2 DEF HrCreate
  <2> QED
    BY <1>d, <1>h, <1>s, <2>1
<1>3. ASSUME NEW e \in Employees, HrUpdate(e)
      PROVE  \A d \in Employees : Fine(d)
  <2>1. Record(day[e]) /\ day[e] # NoRecord
    BY <1>3, <1>d DEF HrUpdate
  <2> PICK s \in {day[e].source, "MANUAL"}, t \in {HrTime, NoTime} :
         day' = [day EXCEPT ![e].in = t, ![e].source = s]
    BY <1>3 DEF HrUpdate
  <2> PICK u : u = [[day[e] EXCEPT !.in = t] EXCEPT !.source = s]
    OBVIOUS
  <2>2. u.in = t /\ u.out = day[e].out
    BY <2>1 DEF Record, Fields
  <2>3. day' = [day EXCEPT ![e] = u]
    BY <1>d
  <2>4. u.in \in OwnTimes(e)' /\ u.out \in OwnTimes(e)'
    BY <1>h, <1>o, <1>p, <2>1, <2>2
  <2> QED
    BY <1>d, <1>s, <2>3, <2>4
<1>4. ASSUME NEW e \in Employees, HrRemove(e)
      PROVE  \A d \in Employees : Fine(d)
  BY <1>4, <1>d, <1>s DEF HrRemove
<1>5. ASSUME UNCHANGED day
      PROVE  \A e \in Employees : Fine(e)
  BY <1>5, <1>s
<1>6. \/ \E r \in Requests : WriteRecord(r)
      \/ \E e \in Employees : HrCreate(e) \/ HrUpdate(e) \/ HrRemove(e)
      \/ UNCHANGED day
  BY DEF Next, Admin, Arrive, Step, Die, StartPush, Ingest, MarkDuplicate, PushDone,
         StartProcess, StartReprocess, Select, ReadRecord, ReadLogs, MarkProcessed,
         ProcessDone, AddEmployee, ResolveRow, MarkForReprocess, SwitchMode,
         SwitchSurprise
<1>7. \A e \in Employees : Fine(e)
  BY <1>1, <1>2, <1>3, <1>4, <1>5, <1>6
<1> QED
  BY <1>7 DEF OwnPunches, OwnTimes

LEMMA OwnStep == Sane /\ OwnInv /\ [Next]_vars => OwnInv'
<1> SUFFICES ASSUME Sane, OwnInv, Next
             PROVE  OwnInv'
  BY DEF OwnInv, OwnPunches, OwnReadings, OwnLogs, OwnTimes, RowOf, LogRow, Stored, vars,
     settings, counters, history
<1>r. RowsFine
  BY RowsStep
<1>1. OwnPunches'
  BY OwnDay
<1>2. ASSUME NEW r \in Requests, req'[r].stage \in {"read", "write"},
             req'[r].seen \notin {NoRecord, Gone}
      PROVE  \E e : req'[r].emp = e /\ {req'[r].seen.in, req'[r].seen.out} \subseteq OwnTimes(e)'
  <2>1. CASE SameReading(r)
    <3> PICK e : e = req[r].emp
      OBVIOUS
    <3>1. /\ req[r].stage \in {"read", "write"} /\ req'[r].emp = e
          /\ req'[r].seen = req[r].seen
      BY <1>2, <2>1 DEF SameReading
    <3>2. {req[r].seen.in, req[r].seen.out} \subseteq OwnTimes(e)
      BY <1>2, <3>1 DEF OwnInv, OwnReadings
    <3> QED
      BY <1>r, <3>1, <3>2, OwnOn
  <2>2. ASSUME NEW e \in Employees, ReadRecord(r, e)
        PROVE  req'[r].emp = e /\ {req'[r].seen.in, req'[r].seen.out} \subseteq OwnTimes(e)'
    <3>1. req'[r].emp = e /\ req'[r].seen = day[e]
      BY <1>2, <2>2, ReadIs
    <3>2. {day[e].in, day[e].out} \subseteq OwnTimes(e)
      BY <1>2, <3>1 DEF OwnInv, OwnPunches, OwnTimes
    <3> QED
      BY <1>r, <3>1, <3>2, OwnOn
  <2> QED
    BY <2>1, <2>2, ReadingsStep
<1>3. OwnReadings'
  <2> SUFFICES ASSUME NEW r \in Requests, req'[r].stage \in {"read", "write"},
                      req'[r].seen \notin {NoRecord, Gone}
               PROVE  {req[r].seen.in, req[r].seen.out}' \subseteq OwnTimes(req[r].emp)'
    BY DEF OwnReadings
  <2> PICK e : req'[r].emp = e /\ {req'[r].seen.in, req'[r].seen.out} \subseteq OwnTimes(e)'
    BY <1>2
  <2> QED
    BY DEF OwnTimes
<1>4. ASSUME NEW r \in Requests, req'[r].stage = "write"
      PROVE  \E e, S : /\ req'[r].emp = e /\ req'[r].read = S
                       /\ req'[r].logs = {LogRow(k)' : k \in S}
                       /\ \A k \in S : RowOf(k, e)'
  <2>1. CASE /\ req[r].stage = "write" /\ req'[r].emp = req[r].emp
             /\ req'[r].read = req[r].read /\ req'[r].logs = req[r].logs
    <3> PICK e, S : e = req[r].emp /\ S = req[r].read
      OBVIOUS
    <3>1. req[r].logs = {LogRow(k) : k \in S} /\ \A k \in S : RowOf(k, e)
      BY <2>1 DEF OwnInv, OwnLogs
    <3>2. \A k \in S : RowOf(k, e)' /\ LogRow(k)' = LogRow(k)
      BY <1>r, <3>1, OwnOn DEF RowOf, RowsFine, RowsKept, LogRow
    <3>3. req[r].logs = {LogRow(k)' : k \in S}
      BY <3>1, <3>2
    <3> QED
      BY <2>1, <3>2, <3>3
  <2>2. CASE ReadLogs(r)
    <3> PICK e : e = req[r].emp
      OBVIOUS
    <3> PICK S, L : S = Eligible(e) /\ L = {LogRow(k) : k \in S}
      OBVIOUS
    <3>1. req'[r].emp = e /\ req'[r].read = S /\ req'[r].logs = L /\ UNCHANGED rows
      BY <2>2 DEF ReadLogs, Sane, RequestsThere
    <3>2. e \in Employees
      BY <2>2 DEF ReadLogs, Sane, RequestsThere, Shaped
    <3>3. \A k \in S : RowOf(k, e)
      BY <3>2, LogsAssumption DEF Eligible, RowOf, Sane, CardsOwn
    <3>4. \A k \in S : RowOf(k, e)' /\ LogRow(k)' = LogRow(k)
      BY <3>1, <3>3 DEF RowOf, LogRow, Stored
    <3>5. L = {LogRow(k)' : k \in S}
      BY <3>4
    <3> QED
      BY <3>1, <3>4, <3>5
  <2> QED
    BY <1>4, <2>1, <2>2, StagesStep
<1>5. OwnLogs'
  <2> SUFFICES ASSUME NEW r \in Requests, req'[r].stage = "write"
               PROVE  /\ req'[r].logs = {LogRow(k) : k \in req[r].read}'
                      /\ \A k \in req'[r].read : RowOf(k, req[r].emp)'
    BY DEF OwnLogs
  <2> PICK e, S : /\ req'[r].emp = e /\ req'[r].read = S
                  /\ req'[r].logs = {LogRow(k)' : k \in S}
                  /\ \A k \in S : RowOf(k, e)'
    BY <1>4
  <2> QED
    BY DEF RowOf
<1> QED
  BY <1>1, <1>3, <1>5 DEF OwnInv

\* A check-in that is there stays, unless HR steps in.
LEMMA HasInOn ==
  ASSUME Sane, Next, NEW e \in Employees, e \notin corrected', HasIn(e)
  PROVE  HasIn(e)'
<1>s. ASSUME day'[e] = day[e]
      PROVE  HasIn(e)'
  BY <1>s DEF HasIn
<1>1. ASSUME NEW r \in Requests, WriteRecord(r)
      PROVE  HasIn(e)'
  <2> PICK q, d, p :
           /\ q = req[r] /\ d = q.emp /\ d \in Employees /\ p = Payload(q)
           /\ Shaped(q) /\ q.stage = "write" /\ UNCHANGED <<rows, corrected>>
           /\ \A c \in Employees \ {d} : day'[c] = day[c]
           /\ \/ /\ day' = day /\ req'[r].stage = "next"
              \/ /\ q.seen = NoRecord /\ day[d] = NoRecord /\ day'[d] = p
                 /\ req'[r].read = q.read /\ Record(p)
              \/ /\ Record(q.seen) /\ Record(day[d]) /\ Record(p)
                 /\ q.seen \notin {NoRecord, Gone}
                 /\ day'[d] = Update(day[d], q.seen, p)
                 /\ req'[r].read = q.read
    BY <1>1, WriteIs
  <2>1. CASE d = e /\ day'[e] # day[e]
    <3>1. /\ Record(q.seen) /\ Record(day[e]) /\ Record(p) /\ q.seen \notin {NoRecord, Gone}
          /\ day'[e] = Update(day[e], q.seen, p)
      BY <2>1 DEF HasIn
    <3> PICK u : u = Update(day[e], q.seen, p)
      OBVIOUS
    <3>2. Record(u) /\ u.in = IF p.in = q.seen.in THEN day[e].in ELSE p.in
      BY <3>1, UpdateIs
    <3>3. q.seen.in # NoTime => p.in # NoTime
      BY <3>1, PayloadIs
    <3>4. u.in # NoTime
      BY <3>2, <3>3 DEF HasIn
    <3>5. u # NoRecord
      BY <3>2, RecordThere
    <3> QED
      BY <3>1, <3>4, <3>5 DEF HasIn
  <2> QED
    BY <1>s, <2>1
<1>2. ASSUME NEW d \in Employees, HrCreate(d) \/ HrUpdate(d) \/ HrRemove(d)
      PROVE  HasIn(e)'
  <2>1. d \in corrected'
    BY <1>2 DEF HrCreate, HrUpdate, HrRemove
  <2>2. DOMAIN day = Employees /\ d # e
    BY <2>1 DEF Sane, DayThere
  <2>3. HrUpdate(d) => \E t, s : day' = [day EXCEPT ![d].in = t, ![d].source = s]
    BY DEF HrUpdate
  <2> QED
    BY <1>2, <1>s, <2>2, <2>3 DEF HrCreate, HrRemove
<1>3. CASE UNCHANGED day
  BY <1>3, <1>s
<1> QED
  BY <1>1, <1>2, <1>3
     DEF Next, Admin, Arrive, Step, Die, StartPush, Ingest, MarkDuplicate, PushDone,
         StartProcess, StartReprocess, Select, ReadRecord, ReadLogs, MarkProcessed,
         ProcessDone, AddEmployee, ResolveRow, MarkForReprocess, SwitchMode,
         SwitchSurprise

\* So a punch that has counted goes on counting.
LEMMA InThereOn ==
  ASSUME Sane, Next, NEW k \in Stored, InThere(k)
  PROVE  InThere(k)'
<1> PICK e : e = EmpOf[k]
  OBVIOUS
<1>1. RowsFine /\ e \in Employees
  BY RowsStep, LogsAssumption DEF Stored
<1>2. rows[k].emp = e /\ (MakesIn(k) /\ e \notin corrected => HasIn(e))
  BY DEF InThere
<1>3. rows'[k].emp = e
  BY <1>1, <1>2 DEF RowsFine, RowsKept
<1>4. MakesIn(k)' <=> MakesIn(k)
  BY <1>1, OwnOn
<1>5. corrected \subseteq corrected'
  BY DEF Next, Admin, Arrive, Step, Die, StartPush, Ingest, MarkDuplicate, PushDone,
         StartProcess, StartReprocess, Select, ReadRecord, ReadLogs, WriteRecord,
         MarkProcessed, ProcessDone, AddEmployee, ResolveRow, MarkForReprocess, SwitchMode,
         SwitchSurprise, HrCreate, HrUpdate, HrRemove, history
<1>6. e \notin corrected' /\ HasIn(e) => HasIn(e)'
  BY <1>1, HasInOn
<1>7. MakesIn(k)' /\ e \notin corrected' => HasIn(e)'
  BY <1>2, <1>4, <1>5, <1>6
<1> QED
  BY <1>3, <1>7 DEF InThere

\* Only the update that ends an employee's turn marks a row as processed.
LEMMA ProcessedStep ==
  ASSUME Sane, Next, NEW k \in Punches, rows'[k] # NoRow, rows'[k].processed
  PROVE  /\ k \in Stored
         /\ \/ rows[k].processed
            \/ \E r \in Requests : req[r].stage = "mark" /\ k \in req[r].read
<1> DEFINE Fine == /\ k \in Stored
                   /\ \/ rows[k].processed
                      \/ \E r \in Requests : req[r].stage = "mark" /\ k \in req[r].read
<1> SUFFICES Fine
  OBVIOUS
<1>0. rows \in [Punches -> Row \cup {NoRow}]
  BY DEF Sane, RowsThere
<1>s. ASSUME rows'[k] = rows[k]
      PROVE  Fine
  BY <1>s DEF Stored
<1>u. ASSUME NEW row \in Row, rows[k] = row
      PROVE  /\ row # NoRow /\ k \in Stored
             /\ DOMAIN row = {"emp", "duplicate", "verifyOnly", "processed", "surprise"}
  BY <1>u, NoRowAssumption DEF Row, Stored
<1>1. ASSUME NEW t \in Requests, NEW l \in Punches, Ingest(t, l)
      PROVE  Fine
  <2>1. CASE rows[l] = NoRow
    <3> PICK n : n = NewRow(req[t], l)
      OBVIOUS
    <3>1. rows' = [rows EXCEPT ![l] = n] /\ n.processed = FALSE
      BY <1>1, <2>1 DEF Ingest, NewRow
    <3>2. k # l
      BY <1>0, <3>1
    <3> QED
      BY <1>0, <1>s, <3>1, <3>2
  <2>2. CASE rows[l] # NoRow
    BY <1>1, <1>s, <2>2 DEF Ingest
  <2> QED
    BY <2>1, <2>2
<1>2. ASSUME NEW t \in Requests, NEW l \in Punches, MarkDuplicate(t, l)
      PROVE  Fine
  <2>1. l \in Stored /\ rows[l] \in Row
    BY <1>0, <1>2 DEF MarkDuplicate, Sane, RequestsThere, Marks, Stored
  <2> PICK n : n = [rows[l] EXCEPT !.duplicate = TRUE]
    OBVIOUS
  <2>2. rows' = [rows EXCEPT ![l] = n]
    BY <1>0, <1>2 DEF MarkDuplicate
  <2>3. n.processed = rows[l].processed
    BY <2>1 DEF Row
  <2> QED
    BY <1>0, <1>s, <2>1, <2>2, <2>3
<1>3. ASSUME NEW t \in Requests, NEW S, StartReprocess(t, S)
      PROVE  Fine
  <2>1. CASE \E e \in S : k \in Eligible(e)
    <3>1. k \in Stored /\ rows[k] \in Row
      BY <1>0, <2>1 DEF Eligible, Stored
    <3>2. rows'[k] = [rows[k] EXCEPT !.processed = FALSE]
      BY <1>3, <2>1 DEF StartReprocess
    <3>3. rows'[k].processed = FALSE
      BY <3>1, <3>2 DEF Row
    <3> QED
      BY <3>3
  <2>2. CASE ~ \E e \in S : k \in Eligible(e)
    BY <1>3, <1>s, <2>2 DEF StartReprocess
  <2> QED
    BY <2>1, <2>2
<1>4. ASSUME NEW t \in Requests, MarkProcessed(t)
      PROVE  Fine
  <2>1. CASE k \in req[t].read
    BY <1>4, <2>1 DEF MarkProcessed, Sane, RequestsThere, Marks
  <2>2. CASE k \notin req[t].read
    BY <1>4, <1>s, <2>2 DEF MarkProcessed
  <2> QED
    BY <2>1, <2>2
<1>5. ASSUME NEW l \in Punches, ResolveRow(l)
      PROVE  Fine
  <2>1. l \in Stored /\ rows[l] \in Row
    BY <1>0, <1>5 DEF ResolveRow, Stored
  <2> PICK n : n = [rows[l] EXCEPT !.emp = EmpOf[l]]
    OBVIOUS
  <2>2. rows' = [rows EXCEPT ![l] = n]
    BY <1>0, <1>5 DEF ResolveRow
  <2>3. n.processed = rows[l].processed
    BY <2>1 DEF Row
  <2> QED
    BY <1>0, <1>s, <2>1, <2>2, <2>3
<1>6. ASSUME NEW l \in Punches, MarkForReprocess(l)
      PROVE  Fine
  <2>1. l \in Stored /\ rows[l] \in Row
    BY <1>0, <1>6 DEF MarkForReprocess, Stored
  <2> PICK n : n = [[rows[l] EXCEPT !.processed = FALSE] EXCEPT !.duplicate = FALSE]
    OBVIOUS
  <2>2. rows' = [rows EXCEPT ![l] = n]
    BY <1>0, <1>6 DEF MarkForReprocess
  <2>3. n.processed = FALSE
    BY <2>1 DEF Row
  <2> QED
    BY <1>0, <1>s, <2>1, <2>2, <2>3
<1>7. ASSUME UNCHANGED rows
      PROVE  Fine
  BY <1>7, <1>s
<1>8. \/ \E t \in Requests, l \in Punches : Ingest(t, l) \/ MarkDuplicate(t, l)
      \/ \E t \in Requests, S \in {Employees} \cup {{e} : e \in Employees} :
            StartReprocess(t, S)
      \/ \E t \in Requests : MarkProcessed(t)
      \/ \E l \in Punches : ResolveRow(l) \/ MarkForReprocess(l)
      \/ UNCHANGED rows
  BY DEF Next, Admin, Arrive, Step, Die, StartPush, PushDone, StartProcess, Select,
         ReadRecord, ReadLogs, WriteRecord, ProcessDone, AddEmployee, SwitchMode,
         SwitchSurprise, HrCreate, HrUpdate, HrRemove
<1> QED
  BY <1>1, <1>2, <1>3, <1>4, <1>5, <1>6, <1>7, <1>8

\* What a request has just written counts every punch it has read.
LEMMA WriteCounts ==
  ASSUME Sane, OwnInv, SeenIn, Next, NEW r \in Requests, WriteRecord(r), req'[r].stage = "mark",
         NEW k \in req'[r].read
  PROVE  InThere(k)'
<1> PICK q, e, p :
         /\ q = req[r] /\ e = q.emp /\ e \in Employees /\ p = Payload(q)
         /\ Shaped(q) /\ q.stage = "write" /\ UNCHANGED <<rows, corrected>>
         /\ \A d \in Employees \ {e} : day'[d] = day[d]
         /\ \/ /\ day' = day /\ req'[r].stage = "next"
            \/ /\ q.seen = NoRecord /\ day[e] = NoRecord /\ day'[e] = p
               /\ req'[r].read = q.read /\ Record(p)
            \/ /\ Record(q.seen) /\ Record(day[e]) /\ Record(p)
               /\ q.seen \notin {NoRecord, Gone}
               /\ day'[e] = Update(day[e], q.seen, p)
               /\ req'[r].read = q.read
  BY WriteIs
<1>1. k \in q.read /\ q.seen # Gone
  BY DEF NoRecord, Gone
<1>2. /\ q.logs = {LogRow(l) : l \in q.read}
      /\ \A l \in q.read : RowOf(l, e)
  BY DEF OwnInv, OwnLogs
<1>3. rows[k].emp = e /\ EmpOf[k] = e /\ k \in Punches
  BY <1>1, <1>2 DEF RowOf, Stored
<1>4. ASSUME MakesIn(k)
      PROVE  p.in # NoTime
  <2> PICK l : l = LogRow(k)
    OBVIOUS
  <2>1. l \in Counting(q) /\ l.time = LogOf[k].time
    BY <1>1, <1>2, <1>4 DEF Counting, LogRow, MakesIn
  <2>2. Side(l, Shift) = "in"
    BY <1>4 DEF MakesIn, LogRow, Side
  <2>3. ASSUME NEW m \in q.logs \ {l}
        PROVE  l.time - m.time > RapidWindow \/ m.time - l.time > RapidWindow
    <3>1. PICK j \in q.read : m = LogRow(j)
      BY <1>2
    <3>2. j \in Punches \ {k} /\ EmpOf[j] = EmpOf[k] /\ m.time = LogOf[j].time
      BY <1>2, <1>3, <2>3, <3>1 DEF RowOf, Stored, LogRow
    <3> QED
      BY <1>4, <2>1, <3>2 DEF MakesIn, Apart
  <2>4. Alone(q, l)
    BY <2>3 DEF Alone
  <2> QED
    BY <1>1, <2>1, <2>2, <2>4, PayloadIs
<1>5. ASSUME MakesIn(k), e \notin corrected
      PROVE  day'[e] # NoRecord /\ day'[e].in # NoTime
  <2>1. CASE Record(p) /\ day'[e] = p
    BY <1>4, <1>5, <2>1, RecordThere
  <2>2. CASE /\ Record(q.seen) /\ Record(day[e]) /\ Record(p)
             /\ q.seen \notin {NoRecord, Gone}
             /\ day'[e] = Update(day[e], q.seen, p)
    <3> PICK u : u = Update(day[e], q.seen, p)
      OBVIOUS
    <3>1. Record(u) /\ u.in = IF p.in = q.seen.in THEN day[e].in ELSE p.in
      BY <2>2, UpdateIs
    <3>2. p.in # NoTime
      BY <1>4, <1>5
    <3>3. q.seen.in # NoTime => day[e].in # NoTime
      BY <1>5, <2>2 DEF SeenIn, HasIn
    <3>4. u.in # NoTime /\ u # NoRecord
      BY <3>1, <3>2, <3>3, RecordThere
    <3> QED
      BY <2>2, <3>4
  <2> QED
    BY <2>1, <2>2
<1>6. MakesIn(k)' <=> MakesIn(k)
  BY DEF MakesIn, Apart
<1>7. rows'[k].emp = EmpOf[k] /\ (MakesIn(k)' /\ EmpOf[k] \notin corrected' => HasIn(EmpOf[k])')
  BY <1>3, <1>5, <1>6 DEF HasIn
<1> QED
  BY <1>7 DEF InThere

LEMMA CountStep == Sane /\ OwnInv /\ CountInv /\ [Next]_vars => CountInv'
<1> SUFFICES ASSUME Sane, OwnInv, SeenIn, MarkedIn, ProcessedIn, Next
             PROVE  SeenIn' /\ MarkedIn' /\ ProcessedIn'
  BY DEF CountInv, SeenIn, MarkedIn, ProcessedIn, HasIn, InThere, MakesIn, Apart, Stored, vars,
     settings, counters, history
<1>0. corrected \subseteq corrected'
  BY DEF Next, Admin, Arrive, Step, Die, StartPush, Ingest, MarkDuplicate, PushDone,
         StartProcess, StartReprocess, Select, ReadRecord, ReadLogs, WriteRecord,
         MarkProcessed, ProcessDone, AddEmployee, ResolveRow, MarkForReprocess, SwitchMode,
         SwitchSurprise, HrCreate, HrUpdate, HrRemove, history
<1>1. ASSUME NEW r \in Requests, NEW e, NEW seen, e = req'[r].emp, seen = req'[r].seen,
             req'[r].stage \in {"read", "write"}, e \notin corrected',
             seen \notin {NoRecord, Gone}, seen.in # NoTime
      PROVE  HasIn(e)'
  <2>1. CASE SameReading(r)
    <3>1. /\ req[r].stage \in {"read", "write"} /\ req[r].emp = e /\ req[r].seen = seen
      BY <1>1, <2>1 DEF SameReading
    <3>2. e \in Employees
      BY <3>1 DEF Sane, RequestsThere, Shaped
    <3>3. HasIn(e)
      BY <1>0, <1>1, <3>1 DEF SeenIn
    <3> QED
      BY <1>1, <3>2, <3>3, HasInOn
  <2>2. ASSUME NEW d \in Employees, ReadRecord(r, d)
        PROVE  HasIn(e)'
    <3>1. e = d /\ seen = day[e] /\ UNCHANGED day
      BY <1>1, <2>2, ReadIs
    <3> QED
      BY <1>1, <3>1 DEF HasIn
  <2> QED
    BY <2>1, <2>2, ReadingsStep
<1>2. SeenIn'
  BY <1>1 DEF SeenIn, HasIn
<1>3. ASSUME NEW r \in Requests, req'[r].stage = "mark", NEW k \in req'[r].read
      PROVE  InThere(k)'
  <2>1. CASE req'[r] = req[r]
    <3>1. req[r].stage = "mark" /\ k \in req[r].read
      BY <1>3, <2>1
    <3>2. k \in Stored /\ InThere(k)
      BY <3>1 DEF Sane, RequestsThere, Marks, MarkedIn
    <3> QED
      BY <3>2, InThereOn
  <2>2. CASE WriteRecord(r)
    BY <1>3, <2>2, WriteCounts
  <2> QED
    BY <1>3, <2>1, <2>2, StagesStep
<1>4. MarkedIn'
  BY <1>3 DEF MarkedIn, InThere, HasIn, MakesIn, Apart
<1>5. ASSUME NEW k \in Punches, rows'[k] # NoRow, rows'[k].processed
      PROVE  InThere(k)'
  <2>1. k \in Stored /\ InThere(k)
    BY <1>5, ProcessedStep DEF ProcessedIn, MarkedIn
  <2> QED
    BY <2>1, InThereOn
<1>6. ProcessedIn'
  BY <1>5 DEF ProcessedIn, Stored, InThere, HasIn, MakesIn, Apart
<1> QED
  BY <1>2, <1>4, <1>6

-----------------------------------------------------------------------------
(* An import accounts for its punches.                                     *)

\* Where a punch is, it is still after a step that leaves its request alone.
LEMMA WayOn ==
  ASSUME Sane, RowsFine, NEW k \in Punches, NEW q, OnItsWay(q, k)
  PROVE  OnItsWay(q, k)'
BY CountsOn DEF OnItsWay

LEMMA DischargedOn ==
  ASSUME accounted \subseteq accounted', NEW r \in Requests, failed[r] \subseteq failed'[r],
         NEW k \in Punches, Discharged(r, k)
  PROVE  Discharged(r, k)'
BY DEF Discharged

\* A row of the day that counts and is no duplicate is what processing reads for its employee.
LEMMA CountsEligible ==
  ASSUME Sane, NEW k \in OnDay, Counts(k)
  PROVE  k \in accounted \/ k \in Eligible(EmpOf[k])
BY LogsAssumption DEF Sane, DuplicatesAccounted, Counts, Stored, Eligible

\* Request r is now q; the others are as they were.
LEMMA WayMoves ==
  ASSUME Sane, RowsFine, OwedOnWay, NEW r \in Requests, NEW q, req' = [req EXCEPT ![r] = q],
         \A t \in Requests \ {r} : owed'[t] = owed[t] /\ failed[t] \subseteq failed'[t],
         q.stage # "idle" => \A k \in owed'[r] : Discharged(r, k)' \/ OnItsWay(q, k)'
  PROVE  OwedOnWay'
<1>1. \A t \in Requests : req'[t] = IF t = r THEN q ELSE req[t]
  BY DEF Sane, RequestsThere
<1>2. ASSUME NEW t \in Requests, t # r, req'[t].stage # "idle", NEW k \in owed'[t]
      PROVE  Discharged(t, k)' \/ OnItsWay(req[t], k)'
  <2> PICK p : p = req[t] /\ req'[t] = p
    BY <1>1, <1>2
  <2>1. k \in Punches /\ k \in owed[t] /\ p.stage # "idle"
    BY <1>2 DEF Sane, SettingsThere
  <2>2. Discharged(t, k) \/ OnItsWay(p, k)
    BY <1>2, <2>1 DEF OwedOnWay
  <2>3. Discharged(t, k)' \/ OnItsWay(p, k)'
    BY <1>2, <2>1, <2>2, WayOn, DischargedOn DEF RowsFine
  <2> QED
    BY <2>3 DEF OnItsWay
<1>3. ASSUME req'[r].stage # "idle", NEW k \in owed'[r]
      PROVE  Discharged(r, k)' \/ OnItsWay(req[r], k)'
  <2>1. req'[r] = q
    BY <1>1
  <2>2. Discharged(r, k)' \/ OnItsWay(q, k)'
    BY <1>3, <2>1
  <2> QED
    BY <2>1, <2>2 DEF OnItsWay
<1> QED
  BY <1>2, <1>3 DEF OwedOnWay

\* Request r goes on as q with what it owes.
LEMMA WayGoesOn ==
  ASSUME Sane, RowsFine, OwedOnWay, NEW r \in Requests, NEW q, req' = [req EXCEPT ![r] = q],
         req[r].stage # "idle", UNCHANGED owed,
         \A t \in Requests : failed[t] \subseteq failed'[t],
         q.stage # "idle" => \A k \in Punches :
            OnItsWay(req[r], k) => Discharged(r, k)' \/ OnItsWay(q, k)'
  PROVE  OwedOnWay'
<1>1. ASSUME NEW k \in owed'[r], q.stage # "idle"
      PROVE  Discharged(r, k)' \/ OnItsWay(q, k)'
  <2>1. k \in Punches /\ k \in owed[r]
    BY <1>1 DEF Sane, SettingsThere
  <2>2. Discharged(r, k) \/ OnItsWay(req[r], k)
    BY <2>1 DEF OwedOnWay
  <2> QED
    BY <1>1, <2>1, <2>2, DischargedOn DEF RowsFine
<1> QED
  BY <1>1, WayMoves

LEMMA WayStep == Sane /\ OwedOnWay /\ [Next]_vars => OwedOnWay'
<1> SUFFICES ASSUME Sane, OwedOnWay, Next
             PROVE  OwedOnWay'
  BY DEF OwedOnWay, Discharged, OnItsWay, Counts, vars, settings, counters, history
<1>r. RowsFine
  BY RowsStep
<1>q. DOMAIN req = Requests /\ \A r \in Requests : Shaped(req[r])
  BY DEF Sane, RequestsThere
<1>f. failed \in [Requests -> SUBSET Employees] /\ owed \in [Requests -> SUBSET Punches]
  BY DEF Sane, SettingsThere
<1>1. ASSUME NEW r \in Requests, NEW S \in SUBSET Punches, NEW a \in BOOLEAN, NEW o \in BOOLEAN,
             StartPush(r, S, a, o)
      PROVE  OwedOnWay'
  <2> PICK q : q = [stage |-> "push", todo |-> S, marking |-> {}, verify |-> verify,
                    surprise |-> surprise, known |-> known, auto |-> a, overwrite |-> o]
    OBVIOUS
  <2>1. /\ req' = [req EXCEPT ![r] = q]
        /\ failed' = [failed EXCEPT ![r] = {}]
        /\ owed' = [owed EXCEPT ![r] = IF a /\ o /\ ~verify THEN {k \in S \cap OnDay : EmpOf[k] \in known} ELSE {}]
    BY <1>1 DEF StartPush
  <2>2. /\ q.stage = "push" /\ q.todo = S /\ q.verify = verify /\ q.known = known
        /\ q.auto = a /\ q.overwrite = o
    OBVIOUS
  <2>3. \A k \in owed'[r] : k \in S /\ k \in OnDay /\ a /\ o /\ ~verify /\ EmpOf[k] \in known
    BY <1>f, <2>1
  <2>4. \A k \in owed'[r] : OnItsWay(q, k)'
    BY <2>2, <2>3 DEF OnItsWay
  <2>5. \A t \in Requests \ {r} : owed'[t] = owed[t] /\ failed[t] \subseteq failed'[t]
    BY <1>f, <2>1
  <2> QED
    BY <1>r, <2>1, <2>4, <2>5, WayMoves
<1>2. ASSUME NEW r \in Requests, NEW S, NEW o, StartProcess(r, S, o) \/ StartReprocess(r, S)
      PROVE  OwedOnWay'
  <2>1. PICK q : req' = [req EXCEPT ![r] = q]
    BY <1>2 DEF StartProcess, StartReprocess
  <2>2. owed' = [owed EXCEPT ![r] = {}] /\ failed' = [failed EXCEPT ![r] = {}]
    BY <1>2 DEF StartProcess, StartReprocess
  <2> QED
    BY <1>r, <1>f, <2>1, <2>2, WayMoves
<1>3. ASSUME NEW r \in Requests, NEW l \in Punches, Ingest(r, l)
      PROVE  OwedOnWay'
  <2>1. /\ req[r].stage = "push" /\ {"todo", "marking"} \subseteq DOMAIN req[r]
        /\ req[r].verify \in BOOLEAN
    BY <1>3, <1>q DEF Ingest, Shaped
  <2>2. UNCHANGED <<owed, failed>>
    BY <1>3 DEF Ingest, history
  <2>3. CASE rows[l] = NoRow
    <3> PICK q : q = [req[r] EXCEPT !.todo = @ \ {l}]
      OBVIOUS
    <3>1. req' = [req EXCEPT ![r] = q] /\ rows' = [rows EXCEPT ![l] = NewRow(req[r], l)]
      BY <1>3, <1>q, <2>1, <2>3 DEF Ingest
    <3>2. /\ q.stage = "push" /\ q.todo = req[r].todo \ {l} /\ q.marking = req[r].marking
          /\ q.verify = req[r].verify /\ q.known = req[r].known /\ q.auto = req[r].auto
          /\ q.overwrite = req[r].overwrite
      BY <2>1
    <3>3. ASSUME ~req[r].verify, EmpOf[l] \in req[r].known
          PROVE  Counts(l)'
      <4> PICK new : new = NewRow(req[r], l)
        OBVIOUS
      <4>1. rows'[l] = new /\ new.emp = EmpOf[l] /\ ~new.verifyOnly
        BY <3>1, <3>3 DEF NewRow, Sane, RowsThere
      <4>2. rows'[l] # NoRow
        <5>1. req[r].surprise \in BOOLEAN
          BY <1>q, <2>1 DEF Shaped
        <5>2. new \in Row
          BY <2>1, <5>1, LogsAssumption DEF NewRow, Row
        <5> QED
          BY <4>1, <5>2, NoRowAssumption
      <4> QED
        BY <4>1, <4>2 DEF Counts
    <3>4. ASSUME NEW k \in Punches, OnItsWay(req[r], k)
          PROVE  OnItsWay(q, k)'
      <4>1. k = l => Counts(k)'
        BY <2>1, <3>3, <3>4 DEF OnItsWay
      <4>2. Counts(k) => Counts(k)'
        BY <1>r, CountsOn
      <4> QED
        BY <2>1, <3>2, <3>4, <4>1, <4>2 DEF OnItsWay
    <3> QED
      BY <1>r, <2>1, <2>2, <3>1, <3>4, WayGoesOn
  <2>4. CASE rows[l] # NoRow
    <3> PICK q : q = [[req[r] EXCEPT !.todo = @ \ {l}] EXCEPT !.marking = @ \cup {l}]
      OBVIOUS
    <3>1. req' = [req EXCEPT ![r] = q]
      BY <1>3, <1>q, <2>1, <2>4 DEF Ingest
    <3>2. /\ q.stage = "push" /\ q.todo = req[r].todo \ {l} /\ q.marking = req[r].marking \cup {l}
          /\ q.verify = req[r].verify /\ q.known = req[r].known /\ q.auto = req[r].auto
          /\ q.overwrite = req[r].overwrite
      BY <2>1
    <3>3. ASSUME NEW k \in Punches, OnItsWay(req[r], k)
          PROVE  OnItsWay(q, k)'
      <4>1. Counts(k) => Counts(k)'
        BY <1>r, CountsOn
      <4> QED
        BY <2>1, <3>2, <3>3, <4>1 DEF OnItsWay
    <3> QED
      BY <1>r, <2>1, <2>2, <3>1, <3>3, WayGoesOn
  <2> QED
    BY <2>3, <2>4
<1>4. ASSUME NEW r \in Requests, NEW l \in Punches, MarkDuplicate(r, l)
      PROVE  OwedOnWay'
  <2>1. req[r].stage = "push" /\ {"todo", "marking"} \subseteq DOMAIN req[r]
    BY <1>4, <1>q DEF MarkDuplicate, Shaped
  <2>2. UNCHANGED <<owed, failed>> /\ accounted' = accounted \cup {l}
    BY <1>4 DEF MarkDuplicate
  <2> PICK q : q = [req[r] EXCEPT !.marking = @ \ {l}]
    OBVIOUS
  <2>3. req' = [req EXCEPT ![r] = q]
    BY <1>4, <1>q, <2>1 DEF MarkDuplicate
  <2>4. /\ q.stage = "push" /\ q.todo = req[r].todo /\ q.marking = req[r].marking \ {l}
        /\ q.verify = req[r].verify /\ q.known = req[r].known /\ q.auto = req[r].auto
        /\ q.overwrite = req[r].overwrite
    BY <2>1
  <2>5. ASSUME NEW k \in Punches, OnItsWay(req[r], k)
        PROVE  Discharged(r, k)' \/ OnItsWay(q, k)'
    <3>1. CASE k = l
      BY <2>2, <3>1 DEF Discharged
    <3>2. CASE k # l
      <4>1. Counts(k) => Counts(k)'
        BY <1>r, CountsOn
      <4> QED
        BY <2>1, <2>4, <2>5, <3>2, <4>1 DEF OnItsWay
    <3> QED
      BY <3>1, <3>2
  <2> QED
    BY <1>r, <2>1, <2>2, <2>3, <2>5, WayGoesOn
<1>5. ASSUME NEW r \in Requests, PushDone(r)
      PROVE  OwedOnWay'
  <2>1. /\ req[r].stage = "push" /\ req[r].todo = {} /\ req[r].marking = {}
        /\ UNCHANGED <<owed, failed>>
    BY <1>5 DEF PushDone, history
  <2>2. CASE req[r].auto
    <3> PICK q : q = [stage |-> "select", overwrite |-> req[r].overwrite]
      OBVIOUS
    <3>1. req' = [req EXCEPT ![r] = q]
      BY <1>5, <2>2 DEF PushDone
    <3>2. q.stage = "select" /\ q.overwrite = req[r].overwrite
      OBVIOUS
    <3>3. ASSUME NEW k \in Punches, OnItsWay(req[r], k)
          PROVE  OnItsWay(q, k)'
      <4>1. Counts(k)'
        BY <1>r, <2>1, <3>3, CountsOn DEF OnItsWay
      <4> QED
        BY <3>2, <3>3, <4>1 DEF OnItsWay
    <3> QED
      BY <1>r, <2>1, <3>1, <3>3, WayGoesOn
  <2>3. CASE ~req[r].auto
    <3>1. req' = [req EXCEPT ![r] = Idle]
      BY <1>5, <2>3 DEF PushDone
    <3>2. Idle.stage = "idle"
      BY DEF Idle
    <3> QED
      BY <1>r, <2>1, <3>1, <3>2, WayGoesOn
  <2> QED
    BY <2>2, <2>3
<1>6. ASSUME NEW r \in Requests, Select(r)
      PROVE  OwedOnWay'
  <2>1. req[r].stage = "select" /\ UNCHANGED <<owed, failed, rows, accounted>>
    BY <1>6 DEF Select, history
  <2> PICK T : T = {e \in Employees : Eligible(e) # {}}
    OBVIOUS
  <2> PICK q : q = [stage |-> "next", overwrite |-> req[r].overwrite, todo |-> T]
    OBVIOUS
  <2>2. req' = [req EXCEPT ![r] = q]
    BY <1>6 DEF Select
  <2>3. q.stage = "next" /\ q.overwrite = req[r].overwrite /\ q.todo = T
    OBVIOUS
  <2>4. ASSUME NEW k \in Punches, OnItsWay(req[r], k)
        PROVE  Discharged(r, k)' \/ OnItsWay(q, k)'
    <3>1. k \in OnDay /\ Counts(k) /\ Counts(k)'
      BY <1>r, <2>1, <2>4, CountsOn DEF OnItsWay
    <3>2. k \in accounted' \/ EmpOf[k] \in T
      BY <2>1, <3>1, CountsEligible, LogsAssumption
    <3> QED
      BY <2>3, <2>4, <3>1, <3>2 DEF OnItsWay, Discharged
  <2> QED
    BY <1>r, <2>1, <2>2, <2>4, WayGoesOn
<1>7. ASSUME NEW r \in Requests, NEW e \in Employees, ReadRecord(r, e)
      PROVE  OwedOnWay'
  <2> PICK rest : rest = req[r].todo \ {e}
    OBVIOUS
  <2>1. req[r].stage = "next" /\ "todo" \in DOMAIN req[r] /\ UNCHANGED owed
    BY <1>7, <1>q DEF ReadRecord, Shaped
  <2>2. CASE e \notin known \/ Skipped(r, e)
    <3> PICK q : q = [req[r] EXCEPT !.todo = rest]
      OBVIOUS
    <3>1. req' = [req EXCEPT ![r] = q]
      BY <1>7, <2>2 DEF ReadRecord, Sane, RequestsThere
    <3>2. q.stage = "next" /\ q.overwrite = req[r].overwrite /\ q.todo = rest
      BY <2>1
    <3>3. IF e \notin known THEN failed' = [failed EXCEPT ![r] = @ \cup {e}] ELSE failed' = failed
      BY <1>7, <2>2 DEF ReadRecord, Report
    <3>4. /\ \A t \in Requests : failed[t] \subseteq failed'[t]
          /\ e \notin known => e \in failed'[r]
      BY <1>f, <3>3
    <3>5. ASSUME NEW k \in Punches, OnItsWay(req[r], k)
          PROVE  Discharged(r, k)' \/ OnItsWay(q, k)'
      <4>1. req[r].overwrite /\ EmpOf[k] \in req[r].todo /\ Counts(k)' /\ k \in OnDay
        BY <1>r, <2>1, <3>5, CountsOn DEF OnItsWay
      <4>2. CASE EmpOf[k] = e
        BY <2>2, <3>4, <4>1, <4>2 DEF Skipped, Discharged
      <4>3. CASE EmpOf[k] # e
        BY <3>2, <4>1, <4>3 DEF OnItsWay
      <4> QED
        BY <4>2, <4>3
    <3> QED
      BY <1>r, <2>1, <3>1, <3>4, <3>5, WayGoesOn
  <2>3. CASE ~(e \notin known \/ Skipped(r, e))
    <3> PICK q : q = [stage |-> "read", todo |-> rest, emp |-> e,
                      overwrite |-> req[r].overwrite, seen |-> day[e]]
      OBVIOUS
    <3>1. req' = [req EXCEPT ![r] = q] /\ UNCHANGED failed
      BY <1>7, <2>3 DEF ReadRecord
    <3>2. q.stage = "read" /\ q.overwrite = req[r].overwrite /\ q.todo = rest /\ q.emp = e
      OBVIOUS
    <3>3. ASSUME NEW k \in Punches, OnItsWay(req[r], k)
          PROVE  OnItsWay(q, k)'
      <4>1. req[r].overwrite /\ EmpOf[k] \in req[r].todo /\ Counts(k)' /\ k \in OnDay
        BY <1>r, <2>1, <3>3, CountsOn DEF OnItsWay
      <4> QED
        BY <3>2, <4>1 DEF OnItsWay
    <3> QED
      BY <1>r, <2>1, <3>1, <3>3, WayGoesOn
  <2> QED
    BY <2>2, <2>3
<1>8. ASSUME NEW r \in Requests, ReadLogs(r)
      PROVE  OwedOnWay'
  <2> PICK S, L : S = Eligible(req[r].emp) /\ L = {LogRow(k) : k \in S}
    OBVIOUS
  <2> PICK q : q = [stage |-> "write", todo |-> req[r].todo, emp |-> req[r].emp,
                    overwrite |-> req[r].overwrite, seen |-> req[r].seen, read |-> S, logs |-> L]
    OBVIOUS
  <2>1. /\ req' = [req EXCEPT ![r] = q] /\ UNCHANGED <<owed, failed, accounted>>
        /\ req[r].stage = "read"
    BY <1>8 DEF ReadLogs, history
  <2>2. /\ q.stage = "write" /\ q.overwrite = req[r].overwrite /\ q.todo = req[r].todo
        /\ q.emp = req[r].emp /\ q.read = S
    OBVIOUS
  <2>3. ASSUME NEW k \in Punches, OnItsWay(req[r], k)
        PROVE  Discharged(r, k)' \/ OnItsWay(q, k)'
    <3>1. k \in OnDay /\ Counts(k) /\ Counts(k)' /\ req[r].overwrite /\ EmpOf[k] \in req[r].todo \cup {req[r].emp}
      BY <1>r, <2>1, <2>3, CountsOn DEF OnItsWay
    <3>2. k \in accounted' \/ EmpOf[k] # req[r].emp \/ k \in S
      BY <2>1, <3>1, CountsEligible
    <3> QED
      BY <2>2, <3>1, <3>2 DEF OnItsWay, Discharged
  <2> QED
    BY <1>r, <2>1, <2>3, WayGoesOn
<1>9. ASSUME NEW r \in Requests, WriteRecord(r)
      PROVE  OwedOnWay'
  <2>1. req[r].stage = "write" /\ UNCHANGED <<owed, accounted>>
    BY <1>9 DEF WriteRecord
  <2>2. CASE /\ req' = [req EXCEPT ![r] = [stage |-> "next", todo |-> req[r].todo,
                                          overwrite |-> req[r].overwrite]]
             /\ Report(r, req[r].emp)
    <3> PICK q : q = [stage |-> "next", todo |-> req[r].todo, overwrite |-> req[r].overwrite]
      OBVIOUS
    <3>1. req' = [req EXCEPT ![r] = q]
      BY <2>2
    <3>2. q.stage = "next" /\ q.overwrite = req[r].overwrite /\ q.todo = req[r].todo
      OBVIOUS
    <3>3. /\ \A t \in Requests : failed[t] \subseteq failed'[t]
          /\ req[r].emp \in failed'[r]
      BY <1>f, <2>2 DEF Report
    <3>4. ASSUME NEW k \in Punches, OnItsWay(req[r], k)
          PROVE  Discharged(r, k)' \/ OnItsWay(q, k)'
      <4>1. k \in OnDay /\ Counts(k)' /\ req[r].overwrite /\ EmpOf[k] \in req[r].todo \cup {req[r].emp}
        BY <1>r, <2>1, <3>4, CountsOn DEF OnItsWay
      <4> QED
        BY <3>2, <3>3, <4>1 DEF OnItsWay, Discharged
    <3> QED
      BY <1>r, <2>1, <3>1, <3>3, <3>4, WayGoesOn
  <2>3. CASE /\ req' = [req EXCEPT ![r] = [stage |-> "mark", todo |-> req[r].todo,
                                          overwrite |-> req[r].overwrite, read |-> req[r].read]]
             /\ UNCHANGED failed
    <3> PICK q : q = [stage |-> "mark", todo |-> req[r].todo,
                      overwrite |-> req[r].overwrite, read |-> req[r].read]
      OBVIOUS
    <3>1. req' = [req EXCEPT ![r] = q] /\ UNCHANGED failed
      BY <2>3
    <3>2. /\ q.stage = "mark" /\ q.overwrite = req[r].overwrite /\ q.todo = req[r].todo
          /\ q.read = req[r].read
      OBVIOUS
    <3>3. ASSUME NEW k \in Punches, OnItsWay(req[r], k)
          PROVE  OnItsWay(q, k)'
      <4>1. /\ k \in OnDay /\ Counts(k)' /\ req[r].overwrite
            /\ EmpOf[k] \in req[r].todo \/ k \in req[r].read
        BY <1>r, <2>1, <3>3, CountsOn DEF OnItsWay
      <4> QED
        BY <3>2, <4>1 DEF OnItsWay
    <3> QED
      BY <1>r, <2>1, <3>1, <3>3, WayGoesOn
  <2> QED
    BY <1>9, <2>2, <2>3 DEF WriteRecord
<1>10. ASSUME NEW r \in Requests, MarkProcessed(r)
      PROVE  OwedOnWay'
  <2> PICK q : q = [stage |-> "next", todo |-> req[r].todo, overwrite |-> req[r].overwrite]
    OBVIOUS
  <2>1. /\ req[r].stage = "mark" /\ UNCHANGED <<owed, failed>>
        /\ req' = [req EXCEPT ![r] = q] /\ accounted' = accounted \cup req[r].read
    BY <1>10 DEF MarkProcessed
  <2>2. q.stage = "next" /\ q.overwrite = req[r].overwrite /\ q.todo = req[r].todo
    OBVIOUS
  <2>3. ASSUME NEW k \in Punches, OnItsWay(req[r], k)
        PROVE  Discharged(r, k)' \/ OnItsWay(q, k)'
    <3>1. /\ k \in OnDay /\ Counts(k)' /\ req[r].overwrite
          /\ EmpOf[k] \in req[r].todo \/ k \in req[r].read
      BY <1>r, <2>1, <2>3, CountsOn DEF OnItsWay
    <3> QED
      BY <2>1, <2>2, <3>1 DEF OnItsWay, Discharged
  <2> QED
    BY <1>r, <2>1, <2>3, WayGoesOn
<1>11. ASSUME NEW r \in Requests, ProcessDone(r) \/ Die(r)
      PROVE  OwedOnWay'
  <2>1. req' = [req EXCEPT ![r] = Idle] /\ UNCHANGED <<owed, failed>>
    BY <1>11 DEF ProcessDone, Die, history
  <2>2. Idle.stage = "idle"
    BY DEF Idle
  <2> QED
    BY <1>r, <2>1, <2>2, WayMoves
<1>12. ASSUME NEW e \in Employees, HrRemove(e)
      PROVE  OwedOnWay'
  <2>1. UNCHANGED <<owed, failed, accounted, rows>>
    BY <1>12 DEF HrRemove
  <2>2. ASSUME NEW r \in Requests, req'[r] # req[r]
        PROVE  /\ req[r].stage \in {"read", "write"} /\ req'[r].stage = req[r].stage
               /\ req'[r].overwrite = req[r].overwrite /\ req'[r].todo = req[r].todo
               /\ req'[r].emp = req[r].emp
               /\ req[r].stage = "write" => req'[r].read = req[r].read
    <3>1. /\ req'[r] = [req[r] EXCEPT !.seen = Gone]
          /\ req[r].stage \in {"read", "write"}
      BY <1>12, <2>2 DEF HrRemove
    <3>2. /\ {"stage", "todo", "emp", "overwrite"} \subseteq DOMAIN req[r]
          /\ req[r].stage = "write" => "read" \in DOMAIN req[r]
      BY <1>q, <3>1 DEF Shaped
    <3> QED
      BY <3>1, <3>2
  <2>3. ASSUME NEW r \in Requests, req'[r].stage # "idle", NEW k \in owed'[r]
        PROVE  Discharged(r, k)' \/ OnItsWay(req[r], k)'
    <3>1. CASE req'[r] = req[r]
      BY <2>1, <2>3, <3>1 DEF OwedOnWay, Discharged, OnItsWay, Counts
    <3>2. CASE req'[r] # req[r]
      <4>1. Discharged(r, k) \/ OnItsWay(req[r], k)
        BY <2>1, <2>2, <2>3, <3>2 DEF OwedOnWay
      <4> QED
        BY <2>1, <2>2, <3>2, <4>1 DEF Discharged, OnItsWay, Counts
    <3> QED
      BY <3>1, <3>2
  <2> QED
    BY <2>3 DEF OwedOnWay
<1>13. CASE UNCHANGED <<req, owed, failed, accounted>>
  <2>1. ASSUME NEW r \in Requests, req[r].stage # "idle", NEW k \in owed[r]
        PROVE  Discharged(r, k)' \/ OnItsWay(req[r], k)'
    <3> PICK q : q = req[r] /\ req'[r] = q
      BY <1>13
    <3>1. k \in Punches /\ (Discharged(r, k) \/ OnItsWay(q, k))
      BY <1>f, <2>1 DEF OwedOnWay
    <3>2. Discharged(r, k)' \/ OnItsWay(q, k)'
      BY <1>13, <1>r, <3>1, WayOn DEF Discharged
    <3> QED
      BY <3>2 DEF OnItsWay
  <2> QED
    BY <1>13, <2>1 DEF OwedOnWay
<1> QED
  BY <1>1, <1>2, <1>3, <1>4, <1>5, <1>6, <1>7, <1>8, <1>9, <1>10, <1>11, <1>12, <1>13
     DEF Next, Admin, Arrive, Step, AddEmployee, ResolveRow, MarkForReprocess, SwitchMode,
         SwitchSurprise, HrCreate, HrUpdate, history

-----------------------------------------------------------------------------
(* The theorems.                                                           *)

LEMMA IInvInit == Init => IInv
<1> SUFFICES ASSUME Init PROVE IInv
  OBVIOUS
<1>1. Stored = {}
  BY DEF Init, Stored
<1>2. \A r \in Requests : req[r] = Idle /\ Idle.stage = "idle"
  BY DEF Init, Idle
<1>3. Sane
  BY <1>1, <1>2 DEF Init, Sane, RowsThere, CardsOwn, DayThere, RequestsThere, Shaped, Marks,
     SettingsThere, DuplicatesAccounted, SeenThere
<1>4. ManualInv
  BY <1>2 DEF Init, ManualInv, SeenOfDevice, ManualKept
<1>5. OwedOnWay
  BY <1>2 DEF OwedOnWay
<1>6. OwnInv
  BY <1>2 DEF Init, OwnInv, OwnPunches, OwnReadings, OwnLogs
<1>7. CountInv
  BY <1>1, <1>2 DEF CountInv, SeenIn, MarkedIn, ProcessedIn
<1> QED
  BY <1>3, <1>4, <1>5, <1>6, <1>7 DEF IInv

LEMMA IInvStep == IInv /\ [Next]_vars => IInv'
BY SaneStep, ManualStep, OwnStep, CountStep, WayStep DEF IInv

\* The inductive invariant holds: what requests carry of rows and records fits what is there.
THEOREM IInvHolds == Spec => []IInv
BY IInvInit, IInvStep, PTL DEF Spec

\* The type invariant: rows, records and requests under way are what the code expects.
THEOREM TypeCorrect == Spec => []TypeOK
<1>1. IInv => TypeOK
  BY DEF IInv, Sane, RowsThere, DayThere, Record, RequestsThere, Shaped, SettingsThere, TypeOK
<1> QED
  BY <1>1, IInvHolds, PTL

\* OwnPunches: the times in a record come from punches of that employee that may count, or
\* from HR.
THEOREM TimesAreOwn == Spec => []OwnPunches
<1>1. IInv => OwnPunches
  BY DEF IInv, OwnInv
<1> QED
  BY <1>1, IInvHolds, PTL

\* ProcessedCounts: a check-in that was processed has left the employee with a check-in, unless
\* HR stepped in.
THEOREM CheckInsCounted == Spec => []ProcessedCounts
<1>1. IInv => ProcessedCounts
  BY DEF IInv, CountInv, ProcessedIn, InThere, MakesIn, HasIn, ProcessedCounts
<1> QED
  BY <1>1, IInvHolds, PTL

\* ManualKept: a record HR created stays as HR made it until a request is told to overwrite.
THEOREM HrKept == Spec => []ManualKept
<1>1. IInv => ManualKept
  BY DEF IInv, ManualInv
<1> QED
  BY <1>1, IInvHolds, PTL

\* Forwarded: of the punches an import of the work date leaves behind it counts the employees
\* among its errors, so that there are never more of them than its answer says.
THEOREM PunchesForwarded == Spec => Forwarded
<1>1. ASSUME IInv, NEW r \in Requests, ProcessDone(r)
      PROVE  Cardinality(LeftBehind(r)) <= Cardinality(failed[r])
  <2>1. \A k \in owed[r] : k \in accounted \/ EmpOf[k] \in failed[r]
    BY <1>1 DEF IInv, OwedOnWay, Discharged, OnItsWay, ProcessDone
  <2>2. LeftBehind(r) \subseteq failed[r]
    BY <2>1 DEF LeftBehind
  <2>3. failed[r] \subseteq Employees
    BY <1>1 DEF IInv, Sane, SettingsThere
  <2>4. IsFiniteSet(failed[r])
    BY <2>3, LogsAssumption, FS_Subset
  <2> QED
    BY <2>2, <2>4, FS_Subset
<1>2. IInv => [\A r \in Requests : ProcessDone(r) =>
                 Cardinality(LeftBehind(r)) <= Cardinality(failed[r])]_vars
  BY <1>1
<1> QED
  BY <1>2, IInvHolds, PTL DEF Forwarded
-----------------------------------------------------------------------------
(* One day, punch by punch.                                                *)

Ordered(list) == \A i, j \in 1 .. Len(list) : i < j => list[i].time <= list[j].time

\* The type of a day, and what its record is computed from.
DayInv ==
  /\ logs \in Seq(Log) /\ Ordered(logs)
  /\ shift \in Shifts
  /\ today = DayOf(shift, logs)

\* One more punch is one more turn of the loop.
LEMMA DedupeAppend ==
  ASSUME NEW list \in Seq(Log), NEW log \in Log
  PROVE  Dedupe(Append(list, log)) = Keep(Dedupe(list), log)
<1> PICK more : more = Append(list, log)
  OBVIOUS
<1>1. /\ more \in Seq(Log) /\ Len(more) = Len(list) + 1 /\ more[Len(list) + 1] = log
      /\ \A i \in 1 .. Len(list) : more[i] = list[i]
  OBVIOUS
<1> PICK f : Loop(list, f) /\ Dedupe(list) = f[Len(list)]
  BY DedupeLoop
<1> PICK g : Loop(more, g) /\ Dedupe(more) = g[Len(more)]
  BY <1>1, DedupeLoop
<1> DEFINE S == {n \in Nat : n <= Len(list) => g[n] = f[n]}
<1>2. 0 \in S
  BY <1>1 DEF Loop
<1>3. ASSUME NEW n \in Nat, n \in S
      PROVE  n + 1 \in S
  <2> SUFFICES ASSUME n + 1 <= Len(list)
               PROVE  g[n + 1] = f[n + 1]
    OBVIOUS
  <2>1. g[n] = f[n] /\ n + 1 \in 1 .. Len(list)
    BY <1>3
  <2>2. f[n + 1] = Keep(f[n], list[n + 1])
    BY DEF Loop
  <2>3. g[n + 1] = Keep(g[n], more[n + 1])
    BY <1>1 DEF Loop
  <2> QED
    BY <1>1, <2>1, <2>2, <2>3
<1>4. Len(list) \in S
  <2> HIDE DEF S
  <2> QED
    BY <1>2, <1>3, CountUp
<1>5. g[Len(list) + 1] = Keep(g[Len(list)], more[Len(list) + 1])
  BY <1>1 DEF Loop
<1> QED
  BY <1>1, <1>4, <1>5

\* The punches kept are those more than a minute behind every earlier one that was kept.
LEMMA DedupeKeepsExactly ==
  ASSUME NEW list \in Seq(Log), Ordered(list)
  PROVE  \E K \in SUBSET DOMAIN list :
           /\ \A i \in DOMAIN list :
                i \in K <=> \A j \in K : j < i => list[i].time - list[j].time > RapidWindow
           /\ Len(Dedupe(list)) = Cardinality(K)
           /\ \A i \in K : list[i] \in Range(Dedupe(list))
<1> PICK kept : Loop(list, kept) /\ Dedupe(list) = kept[Len(list)]
  BY DedupeLoop
<1> DEFINE New(i) == ~(kept[i - 1] # <<>> /\ list[i].time - Last(kept[i - 1]).time <= RapidWindow)
           K(m) == {i \in 1 .. m : New(i)}
           Good(m) == /\ IsFiniteSet(K(m)) /\ Len(kept[m]) = Cardinality(K(m))
                      /\ \A i \in K(m) : list[i] \in Range(kept[m])
                      /\ m # 0 => /\ kept[m] # <<>>
                                  /\ \E j \in K(m) : /\ Last(kept[m]) = list[j]
                                                     /\ \A i \in K(m) : i <= j
           S == {m \in Nat : m <= Len(list) => Good(m)}
<1>1. kept[0] = <<>> /\ New(1)
  BY DEF Loop
<1>2. 0 \in S
  <2>1. K(0) = {}
    OBVIOUS
  <2> HIDE DEF K
  <2>2. IsFiniteSet({}) /\ Cardinality({}) = 0 /\ Len(<<>>) = 0
    BY FS_EmptySet
  <2> QED
    BY <1>1, <2>1, <2>2
<1>3. ASSUME NEW m \in Nat, m \in S, m + 1 <= Len(list)
      PROVE  Good(m + 1)
  <2>1. Good(m) /\ kept[m] \in Seq(Log) /\ list[m + 1] \in Log
    BY <1>3, LoopKeeps
  <2>2. kept[m + 1] = Keep(kept[m], list[m + 1]) /\ (m + 1) - 1 = m
    BY <1>3 DEF Loop
  <2>3. CASE New(m + 1)
    <3>1. kept[m + 1] = Append(kept[m], list[m + 1])
      BY <2>2, <2>3 DEF Keep
    <3>2. K(m + 1) = K(m) \cup {m + 1} /\ m + 1 \notin K(m) /\ \A i \in K(m) : i <= m + 1
      BY <2>3
    <3> HIDE DEF K, New
    <3>3. /\ IsFiniteSet(K(m + 1)) /\ Cardinality(K(m + 1)) = Cardinality(K(m)) + 1
      BY <2>1, <3>2, FS_AddElement
    <3>4. /\ Len(kept[m + 1]) = Len(kept[m]) + 1 /\ kept[m + 1] # <<>>
          /\ Last(kept[m + 1]) = list[m + 1]
          /\ Range(kept[m + 1]) = Range(kept[m]) \cup {list[m + 1]}
      <4> PICK s, l : s = kept[m] /\ l = list[m + 1] /\ s \in Seq(Log)
        BY <2>1
      <4>1. /\ Len(Append(s, l)) = Len(s) + 1 /\ Append(s, l) # <<>>
            /\ Last(Append(s, l)) = l
            /\ Range(Append(s, l)) = Range(s) \cup {l}
        BY DEF Last, Range
      <4> QED
        BY <3>1, <4>1
    <3> QED
      BY <2>1, <3>2, <3>3, <3>4
  <2>4. CASE ~New(m + 1)
    <3>1. m # 0
      BY <1>1, <2>4
    <3>2. kept[m + 1] = kept[m]
      BY <2>2, <2>4 DEF Keep
    <3>3. K(m + 1) = K(m)
      BY <2>4
    <3> HIDE DEF K, New
    <3> QED
      BY <2>1, <3>1, <3>2, <3>3
  <2> QED
    BY <2>3, <2>4
<1>4. ASSUME NEW m \in 0 .. Len(list)
      PROVE  Good(m)
  <2>1. m \in S
    <3>1. \A n \in Nat : n \in S => n + 1 \in S
      <4> HIDE DEF Good
      <4> QED
        BY <1>3
    <3> HIDE DEF S
    <3> QED
      BY <1>2, <3>1, CountUp
  <2> QED
    BY <2>1
<1>5. ASSUME NEW i \in 1 .. Len(list)
      PROVE  New(i) <=> \A j \in K(Len(list)) : j < i => list[i].time - list[j].time > RapidWindow
  <2>1. CASE i = 1
    BY <1>1, <2>1
  <2>2. CASE i # 1
    <3>1. i - 1 \in 0 .. Len(list) /\ i - 1 # 0
      BY <2>2
    <3>2. Good(i - 1)
      BY <1>4, <3>1
    <3>3. PICK j \in K(i - 1) : Last(kept[i - 1]) = list[j] /\ \A l \in K(i - 1) : l <= j
      BY <3>1, <3>2
    <3>4. kept[i - 1] # <<>>
      BY <3>1, <3>2
    <3>5. \A l \in 1 .. Len(list) : list[l].time \in Nat
      BY DEF Log
    <3>6. j \in K(Len(list)) /\ j \in 1 .. Len(list) /\ j < i
      BY <3>3
    <3>7. ASSUME New(i), NEW l \in K(Len(list)), l < i
          PROVE  list[i].time - list[l].time > RapidWindow
      <4>1. l \in K(i - 1) /\ l \in 1 .. Len(list)
        BY <3>7
      <4>2. l <= j
        BY <3>3, <4>1
      <4>3. list[l].time <= list[j].time
        BY <3>5, <3>6, <4>1, <4>2 DEF Ordered
      <4>4. list[i].time - list[j].time > RapidWindow
        BY <3>3, <3>4, <3>5, <3>6, <3>7 DEF RapidWindow
      <4> QED
        BY <3>5, <3>6, <4>1, <4>3, <4>4 DEF RapidWindow
    <3>8. ASSUME list[i].time - list[j].time > RapidWindow
          PROVE  New(i)
      BY <3>3, <3>4, <3>5, <3>6, <3>8 DEF RapidWindow
    <3> QED
      BY <3>6, <3>7, <3>8
  <2> QED
    BY <2>1, <2>2
<1> DEFINE all == K(Len(list))
<1>6. all \in SUBSET DOMAIN list /\ \A i \in DOMAIN list : i \in all <=> New(i)
  OBVIOUS
<1>7. Good(Len(list))
  <2>1. Len(list) \in 0 .. Len(list)
    OBVIOUS
  <2> HIDE DEF Good
  <2> QED
    BY <1>4, <2>1
<1>8. /\ Len(Dedupe(list)) = Cardinality(all)
      /\ \A i \in all : list[i] \in Range(Dedupe(list))
  <2> HIDE DEF K
  <2> QED
    BY <1>7
<1>9. \A i \in DOMAIN list :
        i \in all <=> \A j \in all : j < i => list[i].time - list[j].time > RapidWindow
  <2>1. DOMAIN list = 1 .. Len(list)
    OBVIOUS
  <2> HIDE DEF K, New
  <2> QED
    BY <1>5, <1>6, <2>1
<1> HIDE DEF all
<1> QED
  BY <1>6, <1>8, <1>9

LEMMA MinIs ==
  ASSUME NEW T, T \subseteq Nat, NEW x \in T, \A y \in T : x <= y
  PROVE  Min(T) = x
<1> PICK z \in T : z = Min(T) /\ \A y \in T : z <= y
  BY DEF Min
<1>1. z \in Nat /\ x \in Nat /\ z <= x
  OBVIOUS
<1>2. x <= z
  OBVIOUS
<1> QED
  BY <1>1, <1>2

LEMMA MaxIs ==
  ASSUME NEW T, T \subseteq Nat, NEW x \in T, \A y \in T : y <= x
  PROVE  Max(T) = x
<1> PICK z \in T : z = Max(T) /\ \A y \in T : z >= y
  BY DEF Max
<1>1. z \in Nat /\ x \in Nat /\ z >= x
  OBVIOUS
<1>2. z <= x
  OBVIOUS
<1> QED
  BY <1>1, <1>2

\* A finite set of logs has a first and a last time.
LEMMA Bounds ==
  ASSUME NEW L, L \subseteq Log, IsFiniteSet(L), L # {}
  PROVE  /\ \A t \in TimesOf(L) : Min(TimesOf(L)) <= t
         /\ \A t \in TimesOf(L) : t <= Max(TimesOf(L))
<1>1. TimesOf(L) \subseteq Nat /\ IsFiniteSet(TimesOf(L)) /\ TimesOf(L) # {}
  BY TimesFinite DEF TimesOf
<1>2. \A t \in TimesOf(L) : Min(TimesOf(L)) <= t
  BY <1>1, Least DEF Min
<1>3. \A t \in TimesOf(L) : Max(TimesOf(L)) >= t
  BY <1>1, Greatest DEF Max
<1>4. Max(TimesOf(L)) \in Nat
  BY <1>1, Extremes
<1> QED
  BY <1>1, <1>2, <1>3, <1>4

LEMMA OutLeftOver ==
  ASSUME NEW L, NEW sh, OnSide(L, sh, "out") = {}, Cardinality(L) > 1
  PROVE  LastCheckOut(L, sh) = Max(TimesOf(L))
<1> PICK outs, m : outs = OnSide(L, sh, "out") /\ m = Max(TimesOf(L))
  OBVIOUS
<1> PICK two \in BOOLEAN : two <=> Cardinality(L) > 1
  OBVIOUS
<1>1. LastCheckOut(L, sh) = CASE outs # {} -> Max(outs)
                              [] outs = {} /\ two -> m
                              [] OTHER -> NoTime
  BY DEF LastCheckOut
<1> PICK x : x = Max(outs)
  OBVIOUS
<1> QED
  BY <1>1

\* A later punch leaves the check-in, and moves the check-out forward if there is one.
LEMMA TimesForward ==
  ASSUME NEW L, L \subseteq Log, IsFiniteSet(L), NEW log \in Log,
         \A l \in L : l.time <= log.time, NEW sh, NoTime \notin Nat
  PROVE  LET M == L \cup {log} IN
         /\ FirstCheckIn(L, sh) # NoTime => FirstCheckIn(M, sh) = FirstCheckIn(L, sh)
         /\ LastCheckOut(L, sh) # NoTime => /\ LastCheckOut(M, sh) # NoTime
                                            /\ LastCheckOut(M, sh) >= LastCheckOut(L, sh)
<1> PICK M : M = L \cup {log}
  OBVIOUS
<1> DEFINE On(N, side) == {l \in N : Side(l, sh) = side}
<1>1. M \subseteq Log /\ IsFiniteSet(M) /\ L \subseteq M /\ log \in M /\ log.time \in Nat
  BY FS_AddElement DEF Log
<1>2. \A side : \A N \in {L, M} : OnSide(N, sh, side) = TimesOf(On(N, side))
  BY DEF OnSide
<1>3. \A side : \A N \in {L, M} :
        /\ On(N, side) \subseteq Log /\ IsFiniteSet(On(N, side)) /\ On(N, side) \in SUBSET N
  BY <1>1, FS_Subset
<1>4. \A side : On(M, side) = On(L, side) \/ On(M, side) = On(L, side) \cup {log}
  OBVIOUS
<1> HIDE DEF On
<1>5. ASSUME NEW A, A \subseteq Log, IsFiniteSet(A), NEW a \in A
      PROVE  a.time \in TimesOf(A) /\ TimesOf(A) \subseteq Nat /\ a.time \in Nat
  BY <1>5, TimesFinite DEF TimesOf, Log
<1>6. ASSUME NEW A, NEW B, A \subseteq L, A # {}, B = A \/ B = A \cup {log}
      PROVE  /\ Min(TimesOf(B)) = Min(TimesOf(A))
             /\ Max(TimesOf(B)) >= Max(TimesOf(A))
             /\ Max(TimesOf(A)) \in Nat /\ Max(TimesOf(B)) \in Nat
  <2>1. A \subseteq Log /\ IsFiniteSet(A)
    BY <1>6, FS_Subset
  <2>2. B \subseteq Log /\ IsFiniteSet(B) /\ B # {} /\ A \subseteq B
    BY <1>6, <2>1, FS_AddElement
  <2>3. TimesOf(B) = TimesOf(A) \/ TimesOf(B) = TimesOf(A) \cup {log.time}
    BY <1>6 DEF TimesOf
  <2>4. TimesOf(A) \subseteq Nat /\ TimesOf(B) \subseteq Nat
    BY <2>1, <2>2, TimesFinite
  <2>5. PICK x \in TimesOf(A) : x = Min(TimesOf(A)) /\ \A t \in TimesOf(A) : x <= t
    BY <1>6, <2>1, Extremes, Bounds
  <2>6. x <= log.time /\ x \in TimesOf(B)
    BY <1>6, <2>3, <2>5 DEF TimesOf
  <2>7. \A t \in TimesOf(B) : x <= t
    BY <2>3, <2>5, <2>6
  <2>8. Min(TimesOf(B)) = x
    BY <2>4, <2>6, <2>7, MinIs
  <2>9. /\ Max(TimesOf(A)) \in TimesOf(A) /\ Max(TimesOf(B)) \in TimesOf(B)
        /\ \A t \in TimesOf(B) : t <= Max(TimesOf(B))
    BY <1>6, <2>1, <2>2, Extremes, Bounds
  <2>10. Max(TimesOf(A)) \in TimesOf(B)
    BY <2>3, <2>9
  <2>11. Max(TimesOf(A)) \in Nat /\ Max(TimesOf(B)) \in Nat /\ Max(TimesOf(A)) <= Max(TimesOf(B))
    BY <2>4, <2>9, <2>10
  <2> QED
    BY <2>5, <2>8, <2>11
<1>7. \A N, side : On(N, side) = {} <=> TimesOf(On(N, side)) = {}
  BY DEF TimesOf
<1>8. FirstCheckIn(L, sh) # NoTime => FirstCheckIn(M, sh) = FirstCheckIn(L, sh)
  <2> PICK A, B : A = On(L, "in") /\ B = On(M, "in")
    OBVIOUS
  <2> SUFFICES ASSUME A # {}
               PROVE  FirstCheckIn(M, sh) = FirstCheckIn(L, sh)
    BY <1>2, <1>7 DEF FirstCheckIn
  <2>1. B # {} /\ (B = A \/ B = A \cup {log}) /\ A \subseteq L
    BY <1>3, <1>4
  <2>2. Min(TimesOf(B)) = Min(TimesOf(A))
    BY <1>6, <2>1
  <2>3. FirstCheckIn(L, sh) = Min(TimesOf(A)) /\ FirstCheckIn(M, sh) = Min(TimesOf(B))
    BY <1>2, <1>7, <2>1 DEF FirstCheckIn
  <2> QED
    BY <2>2, <2>3
<1>9. ASSUME LastCheckOut(L, sh) # NoTime
      PROVE  LastCheckOut(M, sh) # NoTime /\ LastCheckOut(M, sh) >= LastCheckOut(L, sh)
  <2> PICK A, B : A = On(L, "out") /\ B = On(M, "out")
    OBVIOUS
  <2>1. A \subseteq L /\ (B = A \/ B = A \cup {log})
    BY <1>3, <1>4
  <2>5. /\ OnSide(L, sh, "out") = {} <=> A = {}
        /\ OnSide(M, sh, "out") = {} <=> B = {}
    BY <1>2, <1>7
  <2>2. CASE A # {}
    <3>1. B # {}
      BY <2>1, <2>2
    <3>2. LastCheckOut(L, sh) = Max(TimesOf(A)) /\ LastCheckOut(M, sh) = Max(TimesOf(B))
      BY <1>2, <1>7, <2>2, <3>1 DEF LastCheckOut
    <3> QED
      BY <1>6, <2>1, <2>2, <3>2
  <2>3. CASE A = {} /\ Cardinality(L) > 1
    <3>1. L # {}
      <4>1. Cardinality({}) = 0 /\ ~(0 > 1)
        BY FS_EmptySet
      <4> QED
        BY <2>3, <4>1
    <3>2. LastCheckOut(L, sh) = Max(TimesOf(L))
      BY <2>3, <2>5, OutLeftOver
    <3>3. /\ Max(TimesOf(M)) >= Max(TimesOf(L))
          /\ Max(TimesOf(L)) \in Nat /\ Max(TimesOf(M)) \in Nat
      BY <1>6, <3>1
    <3>4. CASE B = {}
      <4>1. Cardinality(L) \in Nat /\ Cardinality(M) \in Nat /\ Cardinality(L) <= Cardinality(M)
        BY <1>1, FS_Subset, FS_CardinalityType
      <4>2. Cardinality(M) > 1
        BY <2>3, <4>1
      <4>3. LastCheckOut(M, sh) = Max(TimesOf(M))
        BY <2>5, <3>4, <4>2, OutLeftOver
      <4> QED
        BY <3>2, <3>3, <4>3
    <3>5. CASE B # {}
      <4>1. B = {log}
        BY <2>1, <2>3, <3>5
      <4>2. TimesOf(B) = {log.time}
        BY <4>1 DEF TimesOf
      <4>3. Max(TimesOf(B)) = log.time
        <5> PICK x, T : x = log.time /\ T = {x} /\ x \in Nat
          BY <1>1
        <5>1. T \subseteq Nat /\ x \in T /\ \A y \in T : y <= x
          OBVIOUS
        <5>2. Max(T) = x
          BY <5>1, MaxIs
        <5> QED
          BY <4>2, <5>2
      <4>4. LastCheckOut(M, sh) = log.time
        BY <1>2, <1>7, <3>5, <4>3 DEF LastCheckOut
      <4>5. Max(TimesOf(L)) \in TimesOf(L)
        BY <3>1, Extremes
      <4>6. Max(TimesOf(L)) <= log.time
        BY <4>5 DEF TimesOf
      <4> QED
        BY <1>1, <3>2, <3>3, <4>4, <4>6
    <3> QED
      BY <3>4, <3>5
  <2>4. CASE A = {} /\ ~(Cardinality(L) > 1)
    BY <1>2, <1>7, <1>9, <2>4 DEF LastCheckOut
  <2> QED
    BY <2>2, <2>3, <2>4
<1> QED
  BY <1>8, <1>9

\* What follows for the minutes and the status.
LEMMA MetricsForward ==
  ASSUME NEW in \in Nat \cup {NoTime}, NEW out \in Nat \cup {NoTime},
         NEW in2 \in Nat \cup {NoTime}, NEW out2 \in Nat \cup {NoTime}, NEW sh \in Shifts,
         in # NoTime => in2 = in,
         out # NoTime => out2 # NoTime /\ out2 >= out
  PROVE  LET m == Metrics(in, out, sh)
             n == Metrics(in2, out2, sh)
         IN  /\ m.total # NoTime => n.total # NoTime /\ n.total >= m.total
             /\ n.overtime >= m.overtime /\ n.late >= m.late
             /\ m.status # "ABSENT" => n.status # "ABSENT"
             /\ m.status = "LATE" => n.status \in {"LATE", "HALF_DAY"}
<1> PICK t, u : t = Worked(in, out) /\ u = Worked(in2, out2)
  OBVIOUS
<1>1. ASSUME NEW k \in Int, NEW l \in Int, k <= l
      PROVE  /\ AtLeastZero(k) \in Nat /\ AtLeastZero(l) \in Nat
             /\ AtLeastZero(k) <= AtLeastZero(l)
  BY <1>1 DEF AtLeastZero
<1>2. t \in Nat \cup {NoTime} /\ u \in Nat \cup {NoTime}
  <2>1. ASSUME NEW a \in Nat \cup {NoTime}, NEW b \in Nat \cup {NoTime}
        PROVE  Worked(a, b) \in Nat \cup {NoTime}
    <3>1. CASE a # NoTime /\ b # NoTime /\ b > a
      <4>1. a \in Nat /\ b \in Nat /\ b - a \in Nat
        BY <3>1
      <4> QED
        BY <3>1, <4>1 DEF Worked
    <3>2. CASE ~(a # NoTime /\ b # NoTime /\ b > a)
      BY <3>2 DEF Worked
    <3> QED
      BY <3>1, <3>2
  <2> QED
    BY <2>1
<1>3. t # NoTime => u # NoTime /\ u >= t
  <2> SUFFICES ASSUME t # NoTime
               PROVE  u # NoTime /\ u >= t
    OBVIOUS
  <2>1. in # NoTime /\ out # NoTime /\ out > in /\ t = out - in
    BY DEF Worked
  <2>2. in \in Nat /\ out \in Nat /\ in2 = in /\ out2 \in Nat /\ out2 >= out
    BY <2>1
  <2>3. u = out2 - in
    <3>1. out2 > in2 /\ in2 # NoTime /\ out2 # NoTime
      BY <2>1, <2>2
    <3> QED
      BY <2>2, <3>1 DEF Worked
  <2>4. u \in Nat /\ u >= t
    BY <2>1, <2>2, <2>3
  <2> QED
    BY <2>4, PunchAssumption
<1>4. sh # NoShift => /\ sh.start \in Nat /\ sh.grace \in Nat
                      /\ sh.standard \in Nat /\ sh.threshold \in Nat
  BY PunchAssumption
<1>5. Overtime(u, sh) >= Overtime(t, sh)
  <2>1. CASE sh = NoShift
    BY <2>1 DEF Overtime
  <2>2. CASE sh # NoShift /\ t # NoTime
    <3> PICK c \in Int : /\ Overtime(t, sh) = AtLeastZero(t - c)
                         /\ Overtime(u, sh) = AtLeastZero(u - c)
      <4> PICK c : c = sh.standard + sh.threshold
        OBVIOUS
      <4>1. /\ t \in Nat /\ u \in Nat /\ c \in Int
            /\ t - sh.standard - sh.threshold = t - c
            /\ u - sh.standard - sh.threshold = u - c
        BY <1>2, <1>3, <1>4, <2>2
      <4> QED
        BY <1>3, <2>2, <4>1 DEF Overtime, StandardMinutes
    <3> PICK k, l : k = t - c /\ l = u - c
      OBVIOUS
    <3>1. k \in Int /\ l \in Int /\ k <= l
      BY <1>2, <1>3, <2>2
    <3>2. /\ AtLeastZero(k) <= AtLeastZero(l)
          /\ AtLeastZero(k) \in Nat /\ AtLeastZero(l) \in Nat
      BY <1>1, <3>1
    <3>3. Overtime(t, sh) = AtLeastZero(k) /\ Overtime(u, sh) = AtLeastZero(l)
      OBVIOUS
    <3> QED
      BY <3>2, <3>3
  <2>3. CASE sh # NoShift /\ t = NoTime /\ u # NoTime
    <3> PICK k : k = u - sh.standard - sh.threshold
      OBVIOUS
    <3>1. k \in Int
      BY <1>2, <1>4, <2>3
    <3>2. Overtime(t, sh) = 0 /\ Overtime(u, sh) = AtLeastZero(k)
      BY <2>3 DEF Overtime, StandardMinutes
    <3>3. AtLeastZero(k) \in Nat
      <4>1. k <= k
        BY <3>1
      <4> QED
        BY <1>1, <3>1, <4>1
    <3> QED
      BY <3>2, <3>3
  <2>4. CASE t = NoTime /\ u = NoTime
    BY <2>4 DEF Overtime
  <2> QED
    BY <2>1, <2>2, <2>3, <2>4
<1>6. /\ in # NoTime => Late(in2, sh) = Late(in, sh)
      /\ in = NoTime => Late(in, sh) = 0
  BY DEF Late
<1>7. \A i \in {in, in2} : Late(i, sh) \in Nat
  <2> TAKE i \in {in, in2}
  <2>1. CASE i # NoTime /\ sh # NoShift
    <3> PICK k : k = i - sh.start - sh.grace
      OBVIOUS
    <3>1. k \in Int
      BY <1>4, <2>1
    <3>2. Late(i, sh) = AtLeastZero(k) /\ k <= k
      BY <2>1, <3>1 DEF Late
    <3>3. AtLeastZero(k) \in Nat
      BY <1>1, <3>1, <3>2
    <3> QED
      BY <3>2, <3>3
  <2>2. CASE ~(i # NoTime /\ sh # NoShift)
    BY <2>2 DEF Late
  <2> QED
    BY <2>1, <2>2
<1>8. Late(in2, sh) >= Late(in, sh)
  BY <1>6, <1>7
<1>9. ASSUME NEW i, NEW o
      PROVE  /\ Status(i, o, sh) # "ABSENT" <=> i # NoTime
             /\ Status(i, o, sh) = "LATE" => Late(i, sh) > 0
             /\ i # NoTime /\ Late(i, sh) > 0 => Status(i, o, sh) \in {"LATE", "HALF_DAY"}
  <2> PICK half \in BOOLEAN :
         half <=> Worked(i, o) # NoTime /\ 2 * Worked(i, o) < StandardMinutes(sh)
    OBVIOUS
  <2>1. Status(i, o, sh) = CASE i = NoTime -> "ABSENT"
                             [] i # NoTime /\ half -> "HALF_DAY"
                             [] OTHER -> IF Late(i, sh) > 0 THEN "LATE" ELSE "PRESENT"
    BY DEF Status
  <2>2. CASE i = NoTime
    BY <2>1, <2>2
  <2>3. CASE i # NoTime /\ half
    BY <2>1, <2>3
  <2>4. CASE i # NoTime /\ ~half
    BY <2>1, <2>4
  <2> QED
    BY <2>2, <2>3, <2>4
<1>10. /\ Status(in, out, sh) # "ABSENT" => Status(in2, out2, sh) # "ABSENT"
       /\ Status(in, out, sh) = "LATE" => Status(in2, out2, sh) \in {"LATE", "HALF_DAY"}
  <2>1. Status(in, out, sh) # "ABSENT" => in # NoTime /\ in2 # NoTime
    BY <1>9
  <2>2. Status(in, out, sh) = "LATE" => in # NoTime /\ Late(in, sh) > 0
    BY <1>9
  <2>3. Status(in, out, sh) = "LATE" => in2 # NoTime /\ Late(in2, sh) > 0
    BY <1>6, <2>2
  <2> QED
    BY <1>9, <2>1, <2>3
<1>11. ASSUME NEW i, NEW o
       PROVE  /\ Metrics(i, o, sh).total = Worked(i, o)
              /\ Metrics(i, o, sh).late = Late(i, sh)
              /\ Metrics(i, o, sh).overtime = Overtime(Worked(i, o), sh)
              /\ Metrics(i, o, sh).status = Status(i, o, sh)
  BY DEF Metrics
<1> QED
  BY <1>3, <1>5, <1>8, <1>10, <1>11

\* DayForward of one step.
Forward(a, b) ==
  LET m == a.metrics
      n == b.metrics
  IN  /\ a.in # NoTime => b.in = a.in
      /\ a.out # NoTime => b.out # NoTime /\ b.out >= a.out
      /\ m.total # NoTime => n.total # NoTime /\ n.total >= m.total
      /\ n.overtime >= m.overtime /\ n.late >= m.late
      /\ m.status # "ABSENT" => n.status # "ABSENT"
      /\ m.status = "LATE" => n.status \in {"LATE", "HALF_DAY"}

LEMMA DayGoesOn ==
  ASSUME NEW list \in Seq(Log), NEW log \in Log, NEW sh \in Shifts,
         \A i \in 1 .. Len(list) : list[i].time <= log.time
  PROVE  Forward(DayOf(sh, list), DayOf(sh, Append(list, log)))
<1> PICK old, new : old = Range(Dedupe(list)) /\ new = Range(Dedupe(Append(list, log)))
  OBVIOUS
<1>1. old \subseteq Range(list) /\ \A l \in Range(list) : l \in Log /\ l.time <= log.time
  <2>1. DOMAIN list = 1 .. Len(list) /\ \A i \in 1 .. Len(list) : list[i] \in Log
    OBVIOUS
  <2>2. \A l \in Range(list) : l \in Log /\ l.time <= log.time
    BY <2>1 DEF Range
  <2> QED
    BY <2>2, DedupeOwn
<1>2. IsFiniteSet(old)
  <2> PICK s : s = Dedupe(list) /\ s \in Seq(Log)
    <3> PICK kept : Loop(list, kept) /\ Dedupe(list) = kept[Len(list)]
      BY DedupeLoop
    <3>1. Len(list) \in 0 .. Len(list)
      OBVIOUS
    <3>2. kept[Len(list)] \in Seq(Log)
      BY <3>1, LoopKeeps
    <3> QED
      BY <3>2
  <2>1. s \in Surjection(1 .. Len(s), Range(s))
    BY DEF Surjection, Range
  <2>2. IsFiniteSet(1 .. Len(s))
    <3>1. Len(s) \in Int /\ 1 \in Int
      OBVIOUS
    <3> QED
      BY <3>1, FS_Interval
  <2> QED
    BY <2>1, <2>2, FS_Surjection
<1>3. new = old \/ new = old \cup {log}
  <2> PICK s : s = Dedupe(list) /\ s \in Seq(Log)
    <3> PICK kept : Loop(list, kept) /\ Dedupe(list) = kept[Len(list)]
      BY DedupeLoop
    <3>1. Len(list) \in 0 .. Len(list)
      OBVIOUS
    <3>2. kept[Len(list)] \in Seq(Log)
      BY <3>1, LoopKeeps
    <3> QED
      BY <3>2
  <2>1. new = Range(Keep(s, log))
    BY DedupeAppend
  <2>2. Keep(s, log) = s \/ Keep(s, log) = Append(s, log)
    BY DEF Keep
  <2>3. Range(Append(s, log)) = Range(s) \cup {log}
    BY DEF Range
  <2> QED
    BY <2>1, <2>2, <2>3
<1> PICK a, b, c, d : /\ a = FirstCheckIn(old, sh) /\ b = LastCheckOut(old, sh)
                      /\ c = FirstCheckIn(new, sh) /\ d = LastCheckOut(new, sh)
  OBVIOUS
<1>4. old \subseteq Log /\ new \subseteq Log /\ IsFiniteSet(new)
  BY <1>1, <1>2, <1>3, FS_AddElement
<1>5. /\ a \in Nat \cup {NoTime} /\ b \in Nat \cup {NoTime}
      /\ c \in Nat \cup {NoTime} /\ d \in Nat \cup {NoTime}
  BY <1>2, <1>4, CheckTimes, TimesFinite
<1>6. /\ a # NoTime => c = a
      /\ b # NoTime => d # NoTime /\ d >= b
  <2>1. CASE new = old
    BY <1>5, <2>1
  <2>2. CASE new = old \cup {log}
    BY <1>1, <1>2, <1>4, <2>2, TimesForward, PunchAssumption
  <2> QED
    BY <1>3, <2>1, <2>2
<1>7. /\ DayOf(sh, list) = [in |-> a, out |-> b, metrics |-> Metrics(a, b, sh)]
      /\ DayOf(sh, Append(list, log)) = [in |-> c, out |-> d, metrics |-> Metrics(c, d, sh)]
  BY DEF DayOf
<1> PICK m, n : m = Metrics(a, b, sh) /\ n = Metrics(c, d, sh)
  OBVIOUS
<1>8. /\ m.total # NoTime => n.total # NoTime /\ n.total >= m.total
      /\ n.overtime >= m.overtime /\ n.late >= m.late
      /\ m.status # "ABSENT" => n.status # "ABSENT"
      /\ m.status = "LATE" => n.status \in {"LATE", "HALF_DAY"}
  BY <1>5, <1>6, MetricsForward
<1> PICK p, q : p = DayOf(sh, list) /\ q = DayOf(sh, Append(list, log))
  OBVIOUS
<1>9. /\ p.in = a /\ p.out = b /\ p.metrics = m
      /\ q.in = c /\ q.out = d /\ q.metrics = n
  BY <1>7
<1>10. Forward(p, q)
  BY <1>6, <1>8, <1>9 DEF Forward
<1> QED
  BY <1>10

LEMMA PunchGoesOn ==
  ASSUME DayInv, NEW type \in EventTypes, NEW time \in Times, Punch(type, time)
  PROVE  DayInv' /\ Forward(today, today')
<1> PICK log : log = [type |-> type, time |-> time]
  OBVIOUS
<1>1. log \in Log /\ log.time = time /\ time \in Nat
  BY PunchAssumption DEF Log
<1>2. logs \in Seq(Log) /\ Ordered(logs) /\ logs' = Append(logs, log) /\ shift' = shift
  BY DEF DayInv, Punch
<1>3. \A i \in 1 .. Len(logs) : logs[i].time \in Nat
  BY <1>2 DEF Log
<1>4. \A i \in 1 .. Len(logs) : logs[i].time <= log.time
  <2> TAKE i \in 1 .. Len(logs)
  <2>1. logs # <<>> /\ Len(logs) \in 1 .. Len(logs)
    BY <1>2
  <2>2. logs[Len(logs)].time <= log.time
    BY <1>1, <2>1 DEF Punch, Last
  <2>3. i < Len(logs) => logs[i].time <= logs[Len(logs)].time
    BY <1>2, <2>1 DEF Ordered
  <2> QED
    BY <1>1, <1>2, <1>3, <2>1, <2>2, <2>3
<1>5. logs' \in Seq(Log)
  BY <1>1, <1>2
<1>6. Ordered(logs)'
  <2> PICK more : more = Append(logs, log)
    OBVIOUS
  <2>1. Ordered(more)
    <3>1. /\ Len(more) = Len(logs) + 1 /\ more[Len(logs) + 1] = log
          /\ \A i \in 1 .. Len(logs) : more[i] = logs[i]
      BY <1>1, <1>2
    <3> SUFFICES ASSUME NEW i \in 1 .. Len(more), NEW j \in 1 .. Len(more), i < j
                 PROVE  more[i].time <= more[j].time
      BY DEF Ordered
    <3>2. i \in 1 .. Len(logs)
      BY <1>2, <3>1
    <3>3. CASE j = Len(logs) + 1
      BY <1>4, <3>1, <3>2, <3>3
    <3>4. CASE j # Len(logs) + 1
      <4>1. j \in 1 .. Len(logs)
        BY <1>2, <3>1, <3>4
      <4> QED
        BY <1>2, <3>1, <3>2, <4>1 DEF Ordered
    <3> QED
      BY <3>3, <3>4
  <2> QED
    BY <1>2, <2>1 DEF Ordered
<1>7. today' = DayOf(shift, logs') /\ shift \in Shifts /\ today = DayOf(shift, logs)
  BY DEF Punch, DayInv
<1>8. (today = DayOf(shift, logs))'
  BY <1>2, <1>7 DEF DayOf
<1>9. Forward(today, today')
  BY <1>1, <1>2, <1>4, <1>7, DayGoesOn
<1> QED
  BY <1>2, <1>5, <1>6, <1>7, <1>8, <1>9 DEF DayInv

LEMMA DayStart == DayInit => DayInv
BY DEF DayInit, DayInv, Ordered

LEMMA DaysGoOn == DayInv /\ [DayNext]_dayVars => DayInv'
<1> SUFFICES ASSUME DayInv, [DayNext]_dayVars
             PROVE  DayInv'
  OBVIOUS
<1>1. ASSUME DayNext
      PROVE  DayInv'
  BY <1>1, PunchGoesOn DEF DayNext
<1>2. CASE UNCHANGED dayVars
  BY <1>2 DEF DayInv, dayVars, Ordered, DayOf
<1> QED
  BY <1>1, <1>2

\* In every state the punches are in order and the record is what they give.
THEOREM DayHolds == DaySpec => []DayInv
BY DayStart, DaysGoOn, PTL DEF DaySpec

\* DedupeExact: the punches dropped as rapid repeats, of whatever type, are exactly those
\* within a minute of one that was kept, however many there are.
THEOREM RepeatsExact == DaySpec => []DedupeExact
<1>1. DayInv => DedupeExact
  BY DedupeKeepsExactly DEF DayInv, DedupeExact
<1> QED
  BY <1>1, DayHolds, PTL

\* DayForward: as punches arrive a day only moves forward, whatever the shift.
THEOREM DaysMoveForward == DaySpec => DayForward
<1>1. DayInv /\ [DayNext]_dayVars => [Forward(today, today')]_dayVars
  BY PunchGoesOn DEF DayNext
<1>2. [Forward(today, today')]_dayVars <=>
        [LET m == today.metrics
             n == today'.metrics
         IN  /\ today.in # NoTime => today'.in = today.in
             /\ today.out # NoTime => today'.out # NoTime /\ today'.out >= today.out
             /\ m.total # NoTime => n.total # NoTime /\ n.total >= m.total
             /\ n.overtime >= m.overtime /\ n.late >= m.late
             /\ m.status # "ABSENT" => n.status # "ABSENT"
             /\ m.status = "LATE" => n.status \in {"LATE", "HALF_DAY"}]_dayVars
  BY DEF Forward
<1> QED
  BY <1>1, <1>2, DayHolds, PTL DEF DaySpec, DayForward
=============================================================================
