--------------------------- MODULE AlgorithmProofs ---------------------------
(* The algorithms on ranges, for ranges of any size.                            *)
EXTENDS Permutation, SearchIntervals, QuickSort, PivotPartition, UniformRange,
        SeqLemmas

-----------------------------------------------------------------------------
(* permute. What is done is closed: the place an element comes from is done,    *)
(* and so is the place it goes to, but for the two ends of the cycle that is    *)
(* being followed. Hence the next place of a cycle is a new one.                *)
Size == Len(p)
Positions == 0 .. Len(p) - 1
PermTypeOK ==
  /\ Len(p) \in Nat
  /\ p \in [1 .. Size -> 0 .. Size - 1]
  /\ rng \in [1 .. Size -> Int]
  /\ moved \in [1 .. Size -> Int]
  /\ done \subseteq Positions
  /\ head \in 0 .. Size
  /\ InCycle => prev \in done /\ next = p[prev + 1]
AllDifferent(s) == \A a, b \in DOMAIN s : a # b => s[a] # s[b]
DoneIsClosed ==
  /\ \A q \in Positions : q < head => q \in done
  /\ \A q \in done : (InCycle /\ q = prev) \/ p[q + 1] \in done
  /\ \A q \in done : \/ InCycle /\ q = head
                     \/ \E m \in done : p[m + 1] = q /\ ~ (InCycle /\ m = prev)
PermInv == PermTypeOK /\ AllDifferent(p) /\ DoneIsClosed /\ DoneIsPlaced

LEMMA PermInitInv == PermInit => PermInv
<1> SUFFICES ASSUME PermInit PROVE PermInv
  OBVIOUS
<1>1. PICK n \in 0 .. MaxPermuted : p \in Permutations0(n) /\ rng = [a \in 1 .. n |-> a]
  BY DEF PermInit
<1>2. n \in Nat
  BY PermutationAssumption
<1>3. p \in [1 .. n -> 0 .. n - 1] /\ Len(p) = n /\ AllDifferent(p)
  BY <1>1, <1>2 DEF Permutations0, IsInjective, AllDifferent
<1>4. moved = rng /\ done = {} /\ head = 0
  BY DEF PermInit
<1>5. rng \in [1 .. n -> Int]
  BY <1>1, <1>2
<1> QED
  BY <1>2, <1>3, <1>4, <1>5
     DEF PermInv, PermTypeOK, DoneIsClosed, DoneIsPlaced, Size, Positions, InCycle

\* The next place of a cycle is not done yet, unless it is where the cycle began.
LEMMA NextIsNew ==
  ASSUME PermInv, InCycle
  PROVE  /\ next \in Positions /\ next \notin done
         /\ prev \in done /\ prev \in Positions /\ head \in done /\ next = p[prev + 1]
         /\ prev # next
<1>1. /\ prev \in done /\ next = p[prev + 1] /\ head \in done /\ head # next
      /\ prev \in Positions
  BY DEF PermInv, PermTypeOK, InCycle
<1>2. prev + 1 \in 1 .. Size /\ Size \in Nat /\ p \in [1 .. Size -> 0 .. Size - 1]
  BY <1>1 DEF PermInv, PermTypeOK, Positions, Size
<1>3. next \in Positions
  BY <1>1, <1>2 DEF Positions, Size
<1>4. ASSUME next \in done PROVE FALSE
  <2>1. PICK m \in done : p[m + 1] = next /\ m # prev
    BY <1>1, <1>4 DEF PermInv, DoneIsClosed
  <2>2. m + 1 \in 1 .. Size /\ m + 1 # prev + 1 /\ DOMAIN p = 1 .. Size
    BY <1>1, <1>2, <2>1 DEF PermInv, PermTypeOK, Positions, Size
  <2> QED
    BY <1>1, <1>2, <2>1, <2>2 DEF PermInv, AllDifferent
<1> QED
  BY <1>1, <1>3, <1>4

LEMMA SkipDoneInv == ASSUME PermInv, SkipDone PROVE PermInv'
<1>1. /\ head < Len(p) /\ head \in done /\ ~InCycle /\ head' = head + 1 /\ next' = head + 1
      /\ UNCHANGED <<rng, p, moved, done, prev>>
  BY DEF SkipDone
<1>2. ~InCycle'
  BY <1>1 DEF InCycle
<1>3. PermTypeOK'
  BY <1>1, <1>2 DEF PermInv, PermTypeOK, Size, Positions
<1>4. DoneIsClosed'
  BY <1>1, <1>2 DEF PermInv, PermTypeOK, Size, Positions, DoneIsClosed
<1>5. DoneIsPlaced'
  BY <1>1, <1>2 DEF PermInv, DoneIsPlaced
<1> QED
  BY <1>1, <1>3, <1>4, <1>5 DEF PermInv, AllDifferent

LEMMA BeginCycleInv == ASSUME PermInv, BeginCycle PROVE PermInv'
<1>1. /\ head < Len(p) /\ head \notin done /\ done' = done \cup {head} /\ prev' = head
      /\ next' = p[head + 1] /\ UNCHANGED <<rng, p, moved, head>>
  BY DEF BeginCycle
<1>2. ~InCycle /\ (InCycle' <=> next' # head)
  BY <1>1 DEF InCycle
<1>t. /\ Len(p) \in Nat /\ head \in Positions /\ head + 1 \in 1 .. Size
      /\ p \in [1 .. Size -> 0 .. Size - 1]
  BY <1>1 DEF PermInv, PermTypeOK, Size, Positions
<1>3. PermTypeOK'
  BY <1>1, <1>2, <1>t DEF PermInv, PermTypeOK, Size, Positions
<1>4. DoneIsClosed'
  <2>1. \A q \in Positions : q < head' => q \in done'
    BY <1>1 DEF PermInv, DoneIsClosed
  <2>2. \A q \in done' : (InCycle' /\ q = prev') \/ p[q + 1] \in done'
    BY <1>1, <1>2 DEF PermInv, DoneIsClosed
  <2>3. ASSUME NEW q \in done'
        PROVE  (InCycle' /\ q = head) \/ \E m \in done' : p[m + 1] = q /\ ~ (InCycle' /\ m = prev')
    <3>1. CASE q = head
      BY <1>1, <1>2, <3>1
    <3>2. CASE q # head
      <4>1. PICK m \in done : p[m + 1] = q
        BY <1>1, <1>2, <2>3, <3>2 DEF PermInv, DoneIsClosed
      <4>2. m \in done' /\ m # prev'
        BY <1>1, <4>1
      <4> QED
        BY <4>1, <4>2
    <3> QED
      BY <3>1, <3>2
  <2> QED
    BY <1>1, <2>1, <2>2, <2>3 DEF DoneIsClosed, Positions
<1>5. DoneIsPlaced'
  <2> SUFFICES ASSUME NEW q \in Positions
               PROVE moved[q + 1] = IF InCycle' /\ q = head THEN rng[head + 1]
                                    ELSE IF q \in done' THEN rng[p[q + 1] + 1] ELSE rng[q + 1]
    BY <1>1 DEF DoneIsPlaced, Positions
  <2>1. moved[q + 1] = IF q \in done THEN rng[p[q + 1] + 1] ELSE rng[q + 1]
    BY <1>2 DEF PermInv, DoneIsPlaced, Positions
  <2> QED
    BY <1>1, <1>2, <2>1
<1> QED
  BY <1>1, <1>3, <1>4, <1>5 DEF PermInv, AllDifferent

LEMMA FollowCycleInv == ASSUME PermInv, FollowCycle PROVE PermInv'
<1>1. /\ InCycle
      /\ moved' = [moved EXCEPT ![prev + 1] = moved[next + 1], ![next + 1] = moved[prev + 1]]
      /\ done' = done \cup {next} /\ prev' = next /\ next' = p[next + 1]
      /\ UNCHANGED <<rng, p, head>>
  BY DEF FollowCycle
<1>2. /\ next \in Positions /\ next \notin done /\ prev \in done /\ prev \in Positions
      /\ head \in done /\ next = p[prev + 1] /\ prev # next
  BY <1>1, NextIsNew
<1>3. head # next /\ (InCycle' <=> next' # head)
  BY <1>1, <1>2 DEF InCycle
<1>t. /\ Len(p) \in Nat /\ next + 1 \in 1 .. Size /\ prev + 1 \in 1 .. Size
      /\ p \in [1 .. Size -> 0 .. Size - 1] /\ moved \in [1 .. Size -> Int]
      /\ done \subseteq Positions
  BY <1>2 DEF PermInv, PermTypeOK, Size, Positions
<1>m. /\ moved' \in [1 .. Size -> Int]
      /\ \A q \in Positions : moved'[q + 1] = IF q = next THEN moved[prev + 1]
                                              ELSE IF q = prev THEN moved[next + 1]
                                              ELSE moved[q + 1]
  <2>1. moved' = [a \in 1 .. Size |-> IF a = next + 1 THEN moved[prev + 1]
                                      ELSE IF a = prev + 1 THEN moved[next + 1] ELSE moved[a]]
    BY <1>1, <1>2, <1>t
  <2>2. moved' \in [1 .. Size -> Int]
    BY <2>1, <1>t
  <2> SUFFICES ASSUME NEW q \in Positions
               PROVE moved'[q + 1] = IF q = next THEN moved[prev + 1]
                                     ELSE IF q = prev THEN moved[next + 1] ELSE moved[q + 1]
    BY <2>2
  <2>3. q + 1 \in 1 .. Size /\ (q + 1 = next + 1 <=> q = next) /\ (q + 1 = prev + 1 <=> q = prev)
    BY <1>2, <1>t DEF Size, Positions
  <2> QED
    BY <2>1, <2>3
<1>4. PermTypeOK'
  BY <1>1, <1>2, <1>3, <1>t, <1>m DEF PermInv, PermTypeOK, Size, Positions
<1>5. DoneIsClosed'
  <2>1. \A q \in Positions : q < head' => q \in done'
    BY <1>1 DEF PermInv, DoneIsClosed
  <2>2. ASSUME NEW q \in done' PROVE (InCycle' /\ q = prev') \/ p[q + 1] \in done'
    <3>1. CASE q = next
      BY <1>1, <1>2, <1>3, <3>1
    <3>2. CASE q # next
      BY <1>1, <1>2, <2>2, <3>2 DEF PermInv, DoneIsClosed
    <3> QED
      BY <3>1, <3>2
  <2>3. ASSUME NEW q \in done'
        PROVE  (InCycle' /\ q = head) \/ \E m \in done' : p[m + 1] = q /\ ~ (InCycle' /\ m = prev')
    <3>1. CASE q = next
      BY <1>1, <1>2, <3>1
    <3>2. CASE q = head
      BY <1>1, <1>2, <1>3, <3>2
    <3>3. CASE q # next /\ q # head
      <4>1. PICK m \in done : p[m + 1] = q
        BY <1>1, <2>3, <3>3 DEF PermInv, DoneIsClosed
      <4>2. m \in done' /\ m # prev'
        BY <1>1, <1>2, <4>1
      <4> QED
        BY <4>1, <4>2
    <3> QED
      BY <3>1, <3>2, <3>3
  <2> QED
    BY <1>1, <2>1, <2>2, <2>3 DEF DoneIsClosed, Positions
<1>6. DoneIsPlaced'
  <2> SUFFICES ASSUME NEW q \in Positions
               PROVE moved'[q + 1] = IF InCycle' /\ q = next THEN rng[head + 1]
                                     ELSE IF q \in done' THEN rng[p[q + 1] + 1] ELSE rng[q + 1]
    BY <1>1 DEF DoneIsPlaced, Positions
  <2>1. \A u \in Positions :
          moved[u + 1] = IF u = prev THEN rng[head + 1]
                         ELSE IF u \in done THEN rng[p[u + 1] + 1] ELSE rng[u + 1]
    BY <1>1 DEF PermInv, DoneIsPlaced, Positions
  <2>2. moved[prev + 1] = rng[head + 1] /\ moved[next + 1] = rng[next + 1]
    BY <1>2, <2>1
  <2>3. CASE q = next
    <3>1. moved'[q + 1] = rng[head + 1]
      BY <1>m, <2>2, <2>3
    <3>2. next' = head => p[q + 1] = head
      BY <1>1, <2>3
    <3> QED
      BY <1>1, <1>3, <2>3, <3>1, <3>2
  <2>4. CASE q = prev
    <3>1. moved'[q + 1] = rng[p[q + 1] + 1]
      BY <1>m, <1>2, <2>2, <2>4
    <3> QED
      BY <1>1, <1>2, <2>4, <3>1
  <2>5. CASE q # next /\ q # prev
    BY <1>m, <1>1, <2>1, <2>5
  <2> QED
    BY <2>3, <2>4, <2>5
<1> QED
  BY <1>1, <1>4, <1>5, <1>6 DEF PermInv, AllDifferent

LEMMA PermStepInv == ASSUME PermInv, [PermNext]_permVars PROVE PermInv'
<1>1. CASE UNCHANGED permVars
  BY <1>1 DEF permVars, PermInv, PermTypeOK, Size, Positions, AllDifferent, DoneIsClosed,
              DoneIsPlaced, InCycle
<1> QED
  BY <1>1, SkipDoneInv, BeginCycleInv, FollowCycleInv DEF PermNext

\* At the end there is no cycle to follow, and every position is done.
LEMMA PermEnds == ASSUME PermInv PROVE RangeIsPermuted
<1> SUFFICES ASSUME head = Len(p) PROVE moved = Permuted(rng, p) /\ InvPermuted(moved, p) = rng
  BY DEF RangeIsPermuted
<1> DEFINE n == Len(p)
<1>1. /\ n \in Nat /\ p \in [1 .. n -> 0 .. n - 1] /\ rng \in [1 .. n -> Int]
      /\ moved \in [1 .. n -> Int] /\ done \subseteq 0 .. n - 1
  BY DEF PermInv, PermTypeOK, Size, Positions
<1>2. ~InCycle /\ \A q \in 0 .. n - 1 : q \in done
  BY <1>1 DEF PermInv, DoneIsClosed, Positions, InCycle
<1>3. \A q \in 0 .. n - 1 : moved[q + 1] = rng[p[q + 1] + 1]
  BY <1>2 DEF PermInv, DoneIsPlaced
<1>4. \A a \in 1 .. n : moved[a] = rng[p[a] + 1]
  <2> SUFFICES ASSUME NEW a \in 1 .. n PROVE moved[a] = rng[p[a] + 1]
    OBVIOUS
  <2>1. a - 1 \in 0 .. n - 1 /\ (a - 1) + 1 = a
    BY <1>1
  <2> QED
    BY <1>3, <2>1
<1>5. moved = Permuted(rng, p)
  BY <1>1, <1>4 DEF Permuted
<1>6. \A a, b \in 1 .. n : a # b => p[a] # p[b]
  BY <1>1 DEF PermInv, AllDifferent
<1>7. /\ InvPermuted(moved, p) \in [1 .. n -> Int]
      /\ \A a \in 1 .. n : \E b \in 1 .. n : p[b] + 1 = a /\ InvPermuted(moved, p)[a] = moved[b]
  BY <1>1, <1>6, InvPermutedFact
<1>8. ASSUME NEW a \in 1 .. n PROVE InvPermuted(moved, p)[a] = rng[a]
  <2>1. PICK b \in 1 .. n : p[b] + 1 = a /\ InvPermuted(moved, p)[a] = moved[b]
    BY <1>7
  <2> QED
    BY <1>4, <2>1
<1>9. InvPermuted(moved, p) = rng
  BY <1>1, <1>7, <1>8
<1> QED
  BY <1>5, <1>9

(* permute puts each element where the permutation wants it, with nothing but   *)
(* the range itself and one bit per element, for permutations of any size:      *)
(* on the way every done position but one has its element, and in the end the   *)
(* range is the permuted one, which inv_permute gives back.                     *)
THEOREM PermuteCorrect == PermuteInPlace => []PermutesInPlace
<1>1. PermInv => PermutesInPlace
  BY PermEnds DEF PermInv, PermutesInPlace
<1> QED
  BY <1>1, PermInitInv, PermStepInv, PTL DEF PermuteInPlace


-----------------------------------------------------------------------------
(* search_near_or_containing_interval. The intervals are inter[n], inter[n+1],  *)
(* for n in Parts; ticks are numbered from 0.                                   *)
Parts == 0 .. Len(inter) - 2
TickIds == 0 .. Len(ticks) - 1
PartAt(t) == ContainingInterval(Tick(t), inter)
Knot(t) == NearKnot(Tick(t), inter, PartAt(t), max_distance, eq)
InPart(t, n) ==
  n \in Parts /\ PartAt(t) = n /\ inter[n + 1] <= Tick(t) /\ Tick(t) <= inter[n + 2]

SearchArgsOK ==
  /\ Len(inter) \in Nat /\ Len(inter) >= 2 /\ inter \in [1 .. Len(inter) -> Nat]
  /\ \A a, b \in 1 .. Len(inter) : a <= b => inter[a] <= inter[b]
  /\ Len(ticks) \in Nat /\ ticks \in [1 .. Len(ticks) -> Nat]
  /\ \A a, b \in TickIds : a <= b => Tick(a) <= Tick(b)
  /\ \A a \in TickIds : inter[1] <= Tick(a) /\ Tick(a) <= inter[Len(inter)]
  /\ max_distance \in Nat /\ eq \in BOOLEAN

\* The vectors firsts and parts give the intervals of the ticks before end.
RunsCover(firsts, parts, end) ==
  /\ firsts \in Seq(Nat) /\ parts \in Seq(Nat) /\ Len(parts) = Len(firsts)
  /\ firsts # <<>> => firsts[1] = 0
  /\ \A a, b \in 1 .. Len(firsts) : a < b => firsts[a] < firsts[b] /\ parts[a] < parts[b]
  /\ \A r \in 1 .. Len(firsts), t \in TickIds :
       /\ firsts[r] <= t /\ t < end
       /\ r < Len(firsts) => t < firsts[r + 1]
       => InPart(t, parts[r])

FirstPassInv ==
  /\ k \in Parts /\ i \in 0 .. Len(ticks)
  /\ i < Len(ticks) => inter[k + 1] <= Tick(i)
  /\ RunsCover(first_ticks, inter_indices, i)
  /\ i = 0 <=> first_ticks = <<>>
  /\ \A r \in 1 .. Len(first_ticks) : first_ticks[r] < i /\ inter_indices[r] <= k

RunsFound ==
  /\ RunsCover(first_ticks, inter_indices, Len(ticks))
  /\ first_ticks # <<>> /\ first_ticks[Len(first_ticks)] = Len(ticks)

LEMMA SearchInitArgs ==
  ASSUME SearchInit
  PROVE  SearchArgsOK /\ InFirstPass /\ FirstPassInv
<1>1. PICK m \in 2 .. MaxInterval + 1 : inter \in Increasing(m, MaxValue)
  BY DEF SearchInit
<1>2. PICK w \in 0 .. MaxTick : ticks \in Increasing(w, MaxValue)
  BY DEF SearchInit
<1>3. MaxTick \in Nat /\ MaxInterval \in Nat /\ MaxValue \in Nat /\ MaxDistance \in Nat
  BY SearchAssumption
<1>4. /\ m \in Nat /\ m >= 2 /\ Len(inter) = m /\ inter \in [1 .. m -> Nat]
      /\ \A a, b \in 1 .. m : a < b => inter[a] <= inter[b]
  BY <1>1, <1>3 DEF Increasing
<1>5. /\ w \in Nat /\ Len(ticks) = w /\ ticks \in [1 .. w -> Nat]
      /\ \A a, b \in 1 .. w : a < b => ticks[a] <= ticks[b]
  BY <1>2, <1>3 DEF Increasing
<1>6. ticks # <<>> => inter[1] <= ticks[1] /\ ticks[w] <= inter[m]
  BY <1>4, <1>5 DEF SearchInit, Last
<1>7. \A a, b \in 1 .. m : a <= b => inter[a] <= inter[b]
  BY <1>4
<1>8. \A a, b \in TickIds : a <= b => Tick(a) <= Tick(b)
  BY <1>5 DEF TickIds, Tick
<1>9. ASSUME NEW a \in TickIds PROVE inter[1] <= Tick(a) /\ Tick(a) <= inter[m]
  <2>1. a + 1 \in 1 .. w /\ 1 \in 1 .. w /\ w \in 1 .. w /\ ticks # <<>>
    BY <1>5 DEF TickIds
  <2>2. ticks[1] <= ticks[a + 1] /\ ticks[a + 1] <= ticks[w]
    BY <1>5, <2>1
  <2>3. 1 \in 1 .. m /\ m \in 1 .. m
    BY <1>4
  <2> QED
    BY <1>4, <1>5, <1>6, <2>1, <2>2, <2>3 DEF Tick
<1>10. max_distance \in Nat /\ eq \in BOOLEAN
  BY <1>3 DEF SearchInit
<1>11. SearchArgsOK
  BY <1>4, <1>5, <1>7, <1>8, <1>9, <1>10 DEF SearchArgsOK
<1>12. k = 0 /\ i = 0 /\ first_ticks = <<>> /\ inter_indices = <<>> /\ run = 0
  BY DEF SearchInit
<1>13. i < Len(ticks) => inter[k + 1] <= Tick(i)
  BY <1>5, <1>9, <1>12 DEF TickIds
<1> QED
  BY <1>4, <1>5, <1>11, <1>12, <1>13 DEF FirstPassInv, RunsCover, InFirstPass, Parts

\* The interval that begins at a tick or before it, and ends after it, is unique.
LEMMA PartOfTick ==
  ASSUME SearchArgsOK, NEW t \in TickIds, NEW n \in Parts,
         \/ Tick(t) = inter[Len(inter)] /\ n = Len(inter) - 2
         \/ Tick(t) # inter[Len(inter)] /\ inter[n + 1] <= Tick(t) /\ Tick(t) < inter[n + 2]
  PROVE  InPart(t, n)
<1> DEFINE M == Len(inter)
<1>1. /\ M \in Nat /\ M >= 2 /\ inter \in [1 .. M -> Nat]
      /\ \A a, b \in 1 .. M : a <= b => inter[a] <= inter[b]
      /\ Tick(t) \in Nat
  BY DEF SearchArgsOK, TickIds, Tick
<1>2. n \in 0 .. M - 2
  BY DEF Parts
<1>m. M = Len(inter)
  OBVIOUS
<1> HIDE DEF M
<1>3. CASE Tick(t) = inter[M] /\ n = M - 2
  <2>1. M - 1 \in 1 .. M /\ M \in 1 .. M /\ n + 1 = M - 1 /\ n + 2 = M
    BY <1>1, <1>3
  <2> QED
    BY <1>1, <1>m, <1>3, <2>1 DEF InPart, PartAt, ContainingInterval
<1>4. CASE Tick(t) # inter[M] /\ inter[n + 1] <= Tick(t) /\ Tick(t) < inter[n + 2]
  <2> DEFINE Is(u) == inter[u + 1] <= Tick(t) /\ Tick(t) < inter[u + 2]
  <2>1. ASSUME NEW u \in 0 .. M - 2, Is(u) PROVE u = n
    <3>0. /\ u + 1 \in 1 .. M /\ u + 2 \in 1 .. M /\ n + 1 \in 1 .. M /\ n + 2 \in 1 .. M
          /\ inter[u + 1] \in Nat /\ inter[u + 2] \in Nat
          /\ inter[n + 1] \in Nat /\ inter[n + 2] \in Nat
      <4>1. u + 1 \in 1 .. M /\ u + 2 \in 1 .. M /\ n + 1 \in 1 .. M /\ n + 2 \in 1 .. M
        BY <1>1, <1>2
      <4> QED
        BY <1>1, <4>1
    <3>1. ASSUME u < n PROVE FALSE
      <4>1. u + 2 \in 1 .. M /\ n + 1 \in 1 .. M /\ u + 2 <= n + 1
        BY <1>1, <1>2, <3>1
      <4>2. inter[u + 2] <= inter[n + 1]
        BY <1>1, <4>1
      <4> QED
        BY <1>1, <1>4, <2>1, <3>0, <4>2
    <3>2. ASSUME n < u PROVE FALSE
      <4>1. n + 2 \in 1 .. M /\ u + 1 \in 1 .. M /\ n + 2 <= u + 1
        BY <1>1, <1>2, <3>2
      <4>2. inter[n + 2] <= inter[u + 1]
        BY <1>1, <4>1
      <4> QED
        BY <1>1, <1>4, <2>1, <3>0, <4>2
    <3> QED
      BY <1>1, <1>2, <3>1, <3>2
  <2>2. Is(n)
    BY <1>4
  <2>3. PartAt(t) = CHOOSE u \in 0 .. M - 2 : Is(u)
    BY <1>4, <1>m DEF PartAt, ContainingInterval
  <2> HIDE DEF Is
  <2>4. PartAt(t) = n
    BY <1>2, <2>1, <2>2, <2>3
  <2>5. n + 2 \in 1 .. M
    BY <1>1, <1>2
  <2>6. inter[n + 2] \in Nat
    BY <1>1, <2>5
  <2> QED
    BY <1>1, <1>4, <2>4, <2>6 DEF InPart
<1> QED
  BY <1>m, <1>3, <1>4

\* Record: the tick i, that is in part n.
LEMMA RecordFact ==
  ASSUME SearchArgsOK, FirstPassInv, i < Len(ticks), NEW n \in Parts, k <= n, InPart(i, n),
         Record(n)
  PROVE  /\ i' = i + 1 /\ i' \in 1 .. Len(ticks)
         /\ RunsCover(first_ticks', inter_indices', i') /\ first_ticks' # <<>>
         /\ \A r \in 1 .. Len(first_ticks') : first_ticks'[r] < i' /\ inter_indices'[r] <= n
<1> DEFINE L == Len(first_ticks)
<1>1. /\ i \in Nat /\ i \in TickIds /\ k \in Nat /\ n \in Nat /\ Len(ticks) \in Nat
      /\ i' = i + 1 /\ i' \in 1 .. Len(ticks)
  BY DEF FirstPassInv, SearchArgsOK, Parts, TickIds, Record
<1>2. /\ first_ticks \in Seq(Nat) /\ inter_indices \in Seq(Nat) /\ Len(inter_indices) = L
      /\ first_ticks # <<>> => first_ticks[1] = 0
      /\ \A a, b \in 1 .. L :
           a < b => first_ticks[a] < first_ticks[b] /\ inter_indices[a] < inter_indices[b]
  BY DEF FirstPassInv, RunsCover
<1>3. ASSUME NEW r \in 1 .. L, NEW t \in TickIds, first_ticks[r] <= t, t < i,
             r < L => t < first_ticks[r + 1]
      PROVE  InPart(t, inter_indices[r])
  BY <1>3 DEF FirstPassInv, RunsCover
<1>4. \A r \in 1 .. L : /\ first_ticks[r] < i /\ inter_indices[r] <= k
                        /\ first_ticks[r] \in Nat /\ inter_indices[r] \in Nat
  BY <1>2 DEF FirstPassInv
<1>5. i = 0 <=> first_ticks = <<>>
  BY DEF FirstPassInv
<1>6. L \in Nat /\ (first_ticks = <<>> <=> L = 0) /\ (inter_indices = <<>> <=> L = 0)
  BY <1>2
<1>7. CASE inter_indices = <<>> \/ Last(inter_indices) # n
  <2>1. first_ticks' = Append(first_ticks, i) /\ inter_indices' = Append(inter_indices, n)
    BY <1>7 DEF Record
  <2>2. /\ first_ticks' \in Seq(Nat) /\ inter_indices' \in Seq(Nat)
        /\ Len(first_ticks') = L + 1 /\ Len(inter_indices') = L + 1
        /\ first_ticks'[L + 1] = i /\ inter_indices'[L + 1] = n
        /\ \A r \in 1 .. L : first_ticks'[r] = first_ticks[r] /\ inter_indices'[r] = inter_indices[r]
    BY <1>1, <1>2, <2>1
  <2>3. \A r \in 1 .. L : inter_indices[r] < n
    <3>1. SUFFICES ASSUME NEW r \in 1 .. L, ~ inter_indices[r] < n PROVE FALSE
      OBVIOUS
    <3>2. inter_indices[r] = n
      BY <1>1, <1>4, <3>1
    <3>3. r = L
      <4>1. SUFFICES ASSUME r < L PROVE FALSE
        BY <1>6
      <4>2. inter_indices[r] < inter_indices[L] /\ L \in 1 .. L
        BY <1>2, <1>6, <4>1
      <4> QED
        BY <1>1, <1>4, <3>2, <4>2
    <3> QED
      BY <1>2, <1>6, <1>7, <3>2, <3>3 DEF Last
  <2>4. \A r \in 1 .. L + 1 : first_ticks'[r] < i' /\ inter_indices'[r] <= n
    <3>1. SUFFICES ASSUME NEW r \in 1 .. L + 1 PROVE first_ticks'[r] < i' /\ inter_indices'[r] <= n
      OBVIOUS
    <3>2. CASE r = L + 1
      BY <1>1, <2>2, <3>2
    <3>3. CASE r \in 1 .. L
      <4>1. /\ first_ticks'[r] = first_ticks[r] /\ inter_indices'[r] = inter_indices[r]
            /\ first_ticks[r] < i /\ first_ticks[r] \in Nat
            /\ inter_indices[r] < n /\ inter_indices[r] \in Nat
        BY <1>4, <2>2, <2>3, <3>3
      <4> QED
        BY <1>1, <4>1
    <3> QED
      BY <1>6, <3>2, <3>3
  <2>5. first_ticks'[1] = 0
    BY <1>2, <1>5, <1>6, <2>2
  <2>6. \A a, b \in 1 .. L + 1 :
          a < b => first_ticks'[a] < first_ticks'[b] /\ inter_indices'[a] < inter_indices'[b]
    <3>1. SUFFICES ASSUME NEW a \in 1 .. L + 1, NEW b \in 1 .. L + 1, a < b
                   PROVE first_ticks'[a] < first_ticks'[b] /\ inter_indices'[a] < inter_indices'[b]
      OBVIOUS
    <3>2. a \in 1 .. L
      BY <1>6, <3>1
    <3>3. CASE b = L + 1
      BY <1>4, <2>2, <2>3, <3>2, <3>3
    <3>4. CASE b \in 1 .. L
      BY <1>2, <2>2, <3>1, <3>2, <3>4
    <3> QED
      BY <1>6, <3>3, <3>4
  <2>7. ASSUME NEW r \in 1 .. L + 1, NEW t \in TickIds, first_ticks'[r] <= t, t < i',
               r < L + 1 => t < first_ticks'[r + 1]
        PROVE  InPart(t, inter_indices'[r])
    <3>1. t \in Nat
      BY DEF TickIds
    <3>2. CASE r = L + 1
      <4>1. t = i
        BY <1>1, <2>2, <2>7, <3>1, <3>2
      <4> QED
        BY <2>2, <3>2, <4>1
    <3>3. CASE r = L /\ r \in 1 .. L
      <4>1. t < i
        BY <1>6, <2>2, <2>7, <3>3
      <4>2. first_ticks[r] <= t /\ inter_indices'[r] = inter_indices[r]
        BY <2>2, <2>7, <3>3
      <4>3. InPart(t, inter_indices[r])
        BY <1>3, <3>3, <4>1, <4>2
      <4> QED
        BY <4>2, <4>3
    <3>4. CASE r < L /\ r \in 1 .. L
      <4>0. r + 1 \in 1 .. L /\ r < L + 1
        BY <1>6, <3>4
      <4>1. r + 1 \in 1 .. L /\ t < first_ticks[r + 1] /\ first_ticks[r] <= t
        BY <2>2, <2>7, <3>4, <4>0
      <4>2. t < i
        BY <1>1, <1>4, <3>1, <4>1
      <4> QED
        BY <1>3, <2>2, <3>4, <4>1, <4>2
    <3> QED
      BY <1>6, <3>2, <3>3, <3>4
  <2> QED
    BY <1>1, <1>6, <2>2, <2>4, <2>5, <2>6, <2>7 DEF RunsCover
<1>8. CASE inter_indices # <<>> /\ Last(inter_indices) = n
  <2>1. first_ticks' = first_ticks /\ inter_indices' = inter_indices
    BY <1>8 DEF Record
  <2>2. L \in 1 .. L /\ inter_indices[L] = n
    BY <1>2, <1>6, <1>8 DEF Last
  <2>3. \A r \in 1 .. L : first_ticks[r] < i' /\ inter_indices[r] <= n
    BY <1>1, <1>4
  <2>4. ASSUME NEW r \in 1 .. L, NEW t \in TickIds, first_ticks[r] <= t, t < i',
               r < L => t < first_ticks[r + 1]
        PROVE  InPart(t, inter_indices[r])
    <3>1. t \in Nat
      BY DEF TickIds
    <3>2. CASE r < L
      <4>1. r + 1 \in 1 .. L /\ t < first_ticks[r + 1]
        BY <1>6, <2>4, <3>2
      <4>2. t < i
        BY <1>1, <1>4, <3>1, <4>1
      <4> QED
        BY <1>3, <2>4, <3>2, <4>2
    <3>3. CASE r = L /\ t < i
      BY <1>3, <2>4, <3>3
    <3>4. CASE r = L /\ t = i
      BY <2>2, <3>4
    <3> QED
      BY <1>1, <1>6, <2>4, <3>1, <3>2, <3>3, <3>4
  <2> QED
    BY <1>1, <1>2, <1>6, <2>1, <2>2, <2>3, <2>4 DEF RunsCover
<1> QED
  BY <1>7, <1>8

\* A tick that is recorded is below the bound of the part.
LEMMA NotPassed ==
  ASSUME RecordTick
  PROVE  ~ Tick(i) >= inter[k + 2]
BY DEF RecordTick, Passed

\* One step of the search of the intervals.
LEMMA FirstPassStep ==
  ASSUME SearchArgsOK, FirstPassInv, RecordEnd \/ NextInterval \/ RecordTick
  PROVE  FirstPassInv'
<1>a. /\ Len(inter) \in Nat /\ Len(inter) >= 2 /\ inter \in [1 .. Len(inter) -> Nat]
      /\ \A a, b \in 1 .. Len(inter) : a <= b => inter[a] <= inter[b]
      /\ Len(ticks) \in Nat
      /\ k \in Parts /\ k \in Nat /\ k <= Len(inter) - 2 /\ i \in Nat
  BY DEF SearchArgsOK, FirstPassInv, Parts
<1>b. i < Len(ticks) /\ i \in TickIds
  BY <1>a DEF RecordEnd, NextInterval, RecordTick, TickIds
<1>f. \A a \in TickIds : Tick(a) \in Nat
  BY <1>a DEF SearchArgsOK, Tick, TickIds
<1>c. /\ Tick(i) \in Nat /\ inter[k + 1] <= Tick(i) /\ Tick(i) <= inter[Len(inter)]
      /\ \A a, b \in TickIds : a <= b => Tick(a) <= Tick(b)
      /\ \A a \in TickIds : Tick(a) \in Nat
  BY <1>f, <1>b DEF SearchArgsOK, FirstPassInv
<1>d. UNCHANGED searchArgs
  BY DEF RecordEnd, NextInterval, RecordTick
<1>e. /\ UNCHANGED <<ticks, inter>> /\ Parts' = Parts /\ TickIds' = TickIds
      /\ \A t \in TickIds : Tick(t)' = Tick(t)
      /\ \A t, n : InPart(t, n)' <=> InPart(t, n)
  BY <1>d DEF searchArgs, Parts, TickIds, Tick, InPart, PartAt
<1>s. ASSUME NEW n \in Parts, k <= n, InPart(i, n), Record(n), k' = n PROVE FirstPassInv'
  <2>1. /\ i' = i + 1 /\ i' \in 1 .. Len(ticks)
        /\ RunsCover(first_ticks', inter_indices', i') /\ first_ticks' # <<>>
        /\ \A r \in 1 .. Len(first_ticks') : first_ticks'[r] < i' /\ inter_indices'[r] <= n
    BY <1>s, <1>b, RecordFact
  <2>2. RunsCover(first_ticks, inter_indices, i)'
    BY <2>1, <1>e DEF RunsCover
  <2>3. ASSUME i' < Len(ticks) PROVE inter[n + 1] <= Tick(i')
    <3>1. i' \in TickIds /\ i <= i'
      BY <1>a, <2>1, <2>3 DEF TickIds
    <3>2. Tick(i) <= Tick(i') /\ Tick(i') \in Nat /\ Tick(i) \in Nat
      BY <1>b, <1>c, <3>1
    <3>3. inter[n + 1] <= Tick(i) /\ n + 1 \in 1 .. Len(inter)
      BY <1>s, <1>a DEF InPart, Parts
    <3>4. inter[n + 1] \in Nat
      BY <1>a, <3>3
    <3> QED
      BY <3>2, <3>3, <3>4
  <2>4. Tick(i)' = Tick(i')
    BY <1>e DEF Tick
  <2>5. i' # 0 /\ i' \in 0 .. Len(ticks)
    BY <2>1, <1>a
  <2> QED
    BY <1>s, <1>e, <2>1, <2>2, <2>3, <2>4, <2>5 DEF FirstPassInv
<1>1. CASE RecordEnd
  <2>1. k' = Len(inter) - 2 /\ Record(Len(inter) - 2) /\ Tick(i) = inter[Len(inter)]
    BY <1>1 DEF RecordEnd, Last, Record
  <2>2. Len(inter) - 2 \in Parts /\ k <= Len(inter) - 2
    BY <1>a DEF Parts
  <2>3. InPart(i, Len(inter) - 2)
    BY <1>b, <2>1, <2>2, PartOfTick
  <2> QED
    BY <1>s, <2>1, <2>2, <2>3
<1>2. CASE RecordTick
  <2>1. k' = k /\ Record(k) /\ Tick(i) # inter[Len(inter)] /\ ~ Tick(i) >= inter[k + 2]
    BY <1>2 DEF RecordTick, Last, Record, Passed
  <2>2. k + 2 \in 1 .. Len(inter)
    BY <1>a
  <2>3. inter[k + 2] \in Nat
    <3>1. inter \in [1 .. Len(inter) -> Nat]
      BY <1>a
    <3> QED
      BY Zenon, <2>2, <3>1
  <2>4. Tick(i) < inter[k + 2]
    <3>1. Tick(i) \in Nat
      BY <1>c
    <3>2. ~ Tick(i) >= inter[k + 2]
      BY Zenon, <1>2, NotPassed
    <3> QED
      BY <2>3, <3>1, <3>2
  <2>5. InPart(i, k)
    <3>1. i \in TickIds /\ k \in Parts
      BY <1>a, <1>b
    <3>2. Tick(i) # inter[Len(inter)] /\ inter[k + 1] <= Tick(i) /\ Tick(i) < inter[k + 2]
      BY <1>c, <2>1, <2>4
    <3> QED
      BY <3>1, <3>2, PartOfTick
  <2>6. k \in Parts /\ k <= k
    BY <1>a
  <2>7. k' = k /\ Record(k)
    BY <2>1
  <2> QED
    BY <1>s, <2>5, <2>6, <2>7
<1>3. CASE NextInterval
  <2>1. /\ k' = k + 1 /\ UNCHANGED <<i, first_ticks, inter_indices>>
        /\ Tick(i) # inter[Len(inter)] /\ Tick(i) >= inter[k + 2]
    BY <1>3 DEF NextInterval, Last, Passed
  <2>2. k + 2 # Len(inter)
    <3>1. SUFFICES ASSUME k + 2 = Len(inter) PROVE FALSE
      OBVIOUS
    <3>2. Len(inter) \in 1 .. Len(inter)
      BY <1>a
    <3>3. inter[Len(inter)] \in Nat
      BY <1>a, <3>2
    <3> QED
      BY <1>c, <2>1, <3>1, <3>3
  <2>3. k' \in Parts /\ k' + 1 = k + 2 /\ k <= k' /\ k' \in Nat
    <3>0. Len(inter) \in Nat /\ k \in Nat /\ k <= Len(inter) - 2
      BY <1>a
    <3>1. /\ k' = k + 1 /\ k + 2 # Len(inter)
          /\ Len(inter) \in Nat /\ k \in Nat /\ k <= Len(inter) - 2
      BY Zenon, <2>1, <2>2, <3>0
    <3>2. \A m \in Nat, n \in Nat :
            m <= n - 2 /\ m + 2 # n => m + 1 \in 0 .. n - 2 /\ m + 1 + 1 = m + 2 /\ m <= m + 1
      OBVIOUS
    <3>3. k + 1 \in 0 .. Len(inter) - 2 /\ k + 1 + 1 = k + 2 /\ k <= k + 1 /\ k + 1 \in Nat
      BY <3>1, <3>2
    <3>4. Parts = 0 .. Len(inter) - 2
      BY DEF Parts
    <3>5. k' = k + 1
      BY <3>1
    <3>6. k' \in Parts
      BY Zenon, <3>3, <3>4, <3>5
    <3>7. k' + 1 = k + 2 /\ k <= k' /\ k' \in Nat
      BY Zenon, <3>3, <3>5
    <3> QED
      BY <3>6, <3>7
  <2>4. inter[k + 2] <= Tick(i)
    <3>1. k + 2 \in 1 .. Len(inter)
      BY <1>a
    <3>2. inter[k + 2] \in Nat
      BY <1>a, <3>1
    <3> QED
      BY <1>c, <2>1, <3>2
  <2>5. RunsCover(first_ticks, inter_indices, i)'
    BY <1>e, <2>1 DEF RunsCover, FirstPassInv
  <2>6. ASSUME NEW r \in 1 .. Len(first_ticks) PROVE first_ticks[r] < i /\ inter_indices[r] <= k'
    <3>1. first_ticks[r] < i /\ inter_indices[r] <= k
      BY DEF FirstPassInv
    <3>2. inter_indices[r] \in Nat
      BY DEF FirstPassInv, RunsCover
    <3> QED
      BY <1>a, <2>3, <3>1, <3>2
  <2>7. Tick(i)' = Tick(i)
    BY <1>e, <2>1 DEF Tick
  <2> QED
    BY <1>e, <2>1, <2>3, <2>4, <2>5, <2>6, <2>7 DEF FirstPassInv
<1> QED
  BY <1>1, <1>2, <1>3

\* What appending does to a sequence of indices.
LEMMA NatsAppended ==
  ASSUME NEW s \in Seq(Nat), NEW v \in Nat
  PROVE  /\ Append(s, v) \in Seq(Nat) /\ Append(s, v) # <<>> /\ Len(Append(s, v)) = Len(s) + 1
         /\ Append(s, v)[Len(s) + 1] = v /\ \A r \in 1 .. Len(s) : Append(s, v)[r] = s[r]
<1>1. Append(s, v) \in Seq(Nat) /\ Len(Append(s, v)) = Len(s) + 1
  OBVIOUS
<1>2. Append(s, v) # <<>>
  OBVIOUS
<1>3. Append(s, v)[Len(s) + 1] = v
  OBVIOUS
<1>4. \A r \in 1 .. Len(s) : Append(s, v)[r] = s[r]
  OBVIOUS
<1> QED
  BY <1>1, <1>2, <1>3, <1>4

\* "proper ending".
LEMMA CloseSearchFact ==
  ASSUME SearchArgsOK, FirstPassInv, CloseSearch
  PROVE  RunsFound' /\ run' = 1 /\ j' = 0 /\ first_ticks'[1] = 0 /\ UNCHANGED searchArgs
<1> DEFINE L == Len(first_ticks)
<1>a. /\ i = Len(ticks) /\ i \in Nat /\ k \in Nat
      /\ first_ticks' = Append(first_ticks, i) /\ inter_indices' = Append(inter_indices, k + 1)
      /\ run' = 1 /\ j' = first_ticks'[1] /\ UNCHANGED <<searchArgs, k, i>>
  BY DEF CloseSearch, FirstPassInv, Parts
<1>b. /\ UNCHANGED <<ticks, inter>> /\ TickIds' = TickIds
      /\ \A t, n : InPart(t, n)' <=> InPart(t, n)
  BY <1>a DEF searchArgs, Parts, TickIds, Tick, InPart, PartAt
<1>1. /\ first_ticks \in Seq(Nat) /\ inter_indices \in Seq(Nat) /\ Len(inter_indices) = L
      /\ first_ticks # <<>> => first_ticks[1] = 0
      /\ \A a, b \in 1 .. L :
           a < b => first_ticks[a] < first_ticks[b] /\ inter_indices[a] < inter_indices[b]
  BY DEF FirstPassInv, RunsCover
<1>2. ASSUME NEW r \in 1 .. L, NEW t \in TickIds, first_ticks[r] <= t, t < i,
             r < L => t < first_ticks[r + 1]
      PROVE  InPart(t, inter_indices[r])
  BY <1>2 DEF FirstPassInv, RunsCover
<1>3. \A r \in 1 .. L : /\ first_ticks[r] < i /\ inter_indices[r] <= k
                        /\ first_ticks[r] \in Nat /\ inter_indices[r] \in Nat
  BY <1>1 DEF FirstPassInv
<1>4. L \in Nat /\ (first_ticks = <<>> <=> L = 0) /\ (i = 0 <=> L = 0)
  BY <1>1 DEF FirstPassInv
<1>5. /\ first_ticks' \in Seq(Nat) /\ inter_indices' \in Seq(Nat) /\ first_ticks' # <<>>
      /\ Len(first_ticks') = L + 1 /\ Len(inter_indices') = L + 1
      /\ first_ticks'[L + 1] = i /\ inter_indices'[L + 1] = k + 1
      /\ \A r \in 1 .. L : first_ticks'[r] = first_ticks[r] /\ inter_indices'[r] = inter_indices[r]
  <2>1. k + 1 \in Nat /\ i \in Nat /\ first_ticks \in Seq(Nat) /\ inter_indices \in Seq(Nat)
    BY <1>a, <1>1
  <2>2. first_ticks' = Append(first_ticks, i) /\ inter_indices' = Append(inter_indices, k + 1)
    BY <1>a
  <2>3. /\ first_ticks' \in Seq(Nat) /\ first_ticks' # <<>> /\ Len(first_ticks') = L + 1
        /\ first_ticks'[L + 1] = i /\ \A r \in 1 .. L : first_ticks'[r] = first_ticks[r]
    <3>0. first_ticks \in Seq(Nat) /\ i \in Nat
      BY <2>1
    <3>1. Append(first_ticks, i) \in Seq(Nat) /\ Len(Append(first_ticks, i)) = L + 1
      BY <3>0
    <3>2. Append(first_ticks, i) # <<>>
      BY <3>0
    <3>3. Append(first_ticks, i)[L + 1] = i
      BY <3>0
    <3>4. \A r \in 1 .. L : Append(first_ticks, i)[r] = first_ticks[r]
      BY <3>0
    <3>5. first_ticks' = Append(first_ticks, i)
      BY <2>2
    <3> HIDE DEF L
    <3>6. first_ticks' \in Seq(Nat) /\ first_ticks' # <<>> /\ Len(first_ticks') = L + 1
      BY <3>1, <3>2, <3>5
    <3>7. first_ticks'[L + 1] = i /\ \A r \in 1 .. L : first_ticks'[r] = first_ticks[r]
      BY Zenon, <3>3, <3>4, <3>5
    <3> QED
      BY <3>6, <3>7
  <2>4. /\ inter_indices' \in Seq(Nat) /\ Len(inter_indices') = L + 1
        /\ inter_indices'[L + 1] = k + 1 /\ \A r \in 1 .. L : inter_indices'[r] = inter_indices[r]
    <3>0. Len(inter_indices) = L
      BY <1>1
    <3>1. /\ Append(inter_indices, k + 1) \in Seq(Nat)
          /\ Len(Append(inter_indices, k + 1)) = L + 1 /\ Append(inter_indices, k + 1)[L + 1] = k + 1
          /\ \A r \in 1 .. L : Append(inter_indices, k + 1)[r] = inter_indices[r]
      BY <2>1, <3>0, NatsAppended
    <3>2. inter_indices' = Append(inter_indices, k + 1)
      BY <2>2
    <3>3. inter_indices' \in Seq(Nat) /\ Len(inter_indices') = L + 1
      BY <3>1, <3>2
    <3>4. inter_indices'[L + 1] = k + 1 /\ \A r \in 1 .. L : inter_indices'[r] = inter_indices[r]
      BY Zenon, <3>1, <3>2
    <3> QED
      BY <3>3, <3>4
  <2> QED
    BY <2>3, <2>4
<1>6. first_ticks'[1] = 0
  BY <1>1, <1>4, <1>5
<1>7. \A a, b \in 1 .. L + 1 :
        a < b => first_ticks'[a] < first_ticks'[b] /\ inter_indices'[a] < inter_indices'[b]
  <2>1. SUFFICES ASSUME NEW a \in 1 .. L + 1, NEW b \in 1 .. L + 1, a < b
                 PROVE first_ticks'[a] < first_ticks'[b] /\ inter_indices'[a] < inter_indices'[b]
    OBVIOUS
  <2>2. a \in 1 .. L
    BY <1>4, <2>1
  <2>3. CASE b = L + 1
    <3>1. inter_indices[a] < k + 1
      BY <1>a, <1>3, <2>2
    <3> QED
      BY <1>3, <1>5, <2>2, <2>3, <3>1
  <2>4. CASE b \in 1 .. L
    BY <1>1, <1>5, <2>1, <2>2, <2>4
  <2> QED
    BY <1>4, <2>3, <2>4
<1>8. ASSUME NEW r \in 1 .. L + 1, NEW t \in TickIds, first_ticks'[r] <= t, t < Len(ticks),
             r < L + 1 => t < first_ticks'[r + 1]
      PROVE  InPart(t, inter_indices'[r])
  <2>1. t \in Nat
    BY DEF TickIds
  <2>2. CASE r = L + 1
    BY <1>a, <1>5, <1>8, <2>1, <2>2
  <2>3. CASE r \in 1 .. L
    <3>1. ASSUME r < L PROVE t < first_ticks[r + 1]
      <4>1. r + 1 \in 1 .. L /\ r < L + 1
        BY <1>4, <2>3, <3>1
      <4>2. first_ticks'[r + 1] = first_ticks[r + 1]
        BY <1>5, <4>1
      <4> QED
        BY <1>8, <4>1, <4>2
    <3> QED
      BY <1>a, <1>2, <1>5, <1>8, <2>3, <3>1
  <2> QED
    BY <1>4, <2>2, <2>3
<1>9. RunsCover(first_ticks, inter_indices, Len(ticks))'
  BY <1>b, <1>5, <1>6, <1>7, <1>8 DEF RunsCover
<1> QED
  BY <1>a, <1>b, <1>5, <1>6, <1>9 DEF RunsFound

\* The knot of a tick, with its distances to the ends of its interval.
LEMMA KnotFact ==
  ASSUME SearchArgsOK, NEW t \in TickIds, NEW n, InPart(t, n)
  PROVE  /\ n \in Nat /\ n + 1 \in 1 .. Len(inter) /\ n + 2 \in 1 .. Len(inter)
         /\ Tick(t) \in Nat /\ inter[n + 1] \in Nat /\ inter[n + 2] \in Nat
         /\ inter[n + 1] <= Tick(t) /\ Tick(t) <= inter[n + 2]
         /\ Abs(Tick(t) - inter[n + 1]) = Tick(t) - inter[n + 1]
         /\ Abs(Tick(t) - inter[n + 2]) = inter[n + 2] - Tick(t)
         /\ eq /\ n % 2 = 1 =>
              Knot(t) = IF Tick(t) - inter[n + 1] <= inter[n + 2] - Tick(t) THEN n ELSE n + 1
         /\ ~ (eq /\ n % 2 = 1) =>
              Knot(t) = IF Tick(t) - inter[n + 1] <= max_distance THEN n
                        ELSE IF inter[n + 2] - Tick(t) <= max_distance THEN n + 1 ELSE -1
<1>1. n \in Nat /\ n + 1 \in 1 .. Len(inter) /\ n + 2 \in 1 .. Len(inter)
  <2>1. n \in 0 .. Len(inter) - 2 /\ Len(inter) \in Nat /\ Len(inter) >= 2
    BY DEF InPart, Parts, SearchArgsOK
  <2> QED
    BY <2>1
<1>2. Tick(t) \in Nat /\ inter[n + 1] \in Nat /\ inter[n + 2] \in Nat
  <2>1. inter \in [1 .. Len(inter) -> Nat] /\ ticks \in [1 .. Len(ticks) -> Nat] /\ Len(ticks) \in Nat
    BY DEF SearchArgsOK
  <2>2. t + 1 \in 1 .. Len(ticks)
    BY <2>1 DEF TickIds
  <2> QED
    BY <1>1, <2>1, <2>2 DEF Tick
<1>3. inter[n + 1] <= Tick(t) /\ Tick(t) <= inter[n + 2] /\ PartAt(t) = n
  BY DEF InPart
<1>4. /\ Abs(Tick(t) - inter[n + 1]) = Tick(t) - inter[n + 1]
      /\ Abs(Tick(t) - inter[n + 2]) = inter[n + 2] - Tick(t)
  BY <1>2, <1>3 DEF Abs
<1>5. Knot(t) = NearKnot(Tick(t), inter, n, max_distance, eq)
  BY <1>3 DEF Knot
<1>6. ASSUME eq /\ n % 2 = 1
      PROVE  Knot(t) = IF Tick(t) - inter[n + 1] <= inter[n + 2] - Tick(t) THEN n ELSE n + 1
  BY <1>4, <1>5, <1>6 DEF NearKnot
<1>7. ASSUME ~ (eq /\ n % 2 = 1)
      PROVE  Knot(t) = IF Tick(t) - inter[n + 1] <= max_distance THEN n
                       ELSE IF inter[n + 2] - Tick(t) <= max_distance THEN n + 1 ELSE -1
  BY <1>4, <1>5, <1>7 DEF NearKnot
<1> QED
  BY <1>1, <1>2, <1>3, <1>4, <1>6, <1>7

\* No tick between two far ones is near an end.
LEMMA FarTogether ==
  ASSUME SearchArgsOK, NEW s \in TickIds, NEW t \in TickIds, NEW u \in TickIds, s <= t, t <= u,
         NEW n, InPart(s, n), InPart(t, n), InPart(u, n), Knot(s) = -1, Knot(u) = -1
  PROVE  Knot(t) = -1
<1> DEFINE inf == inter[n + 1]
           sup == inter[n + 2]
<1>1. /\ n \in Nat /\ inf \in Nat /\ sup \in Nat /\ max_distance \in Nat
      /\ Tick(s) \in Nat /\ Tick(t) \in Nat /\ Tick(u) \in Nat
  BY KnotFact DEF SearchArgsOK
<1>2. Tick(s) <= Tick(t) /\ Tick(t) <= Tick(u)
  BY DEF SearchArgsOK
<1>3. ~ (eq /\ n % 2 = 1)
  <2>1. SUFFICES ASSUME eq /\ n % 2 = 1 PROVE FALSE
    OBVIOUS
  <2>2. Knot(s) = IF Tick(s) - inf <= sup - Tick(s) THEN n ELSE n + 1
    BY <2>1, KnotFact
  <2> HIDE DEF inf, sup
  <2>3. Knot(s) \in {n, n + 1}
    BY <2>2
  <2> QED
    BY <1>1, <2>3
<1>4. /\ Knot(s) = IF Tick(s) - inf <= max_distance THEN n
                   ELSE IF sup - Tick(s) <= max_distance THEN n + 1 ELSE -1
      /\ Knot(t) = IF Tick(t) - inf <= max_distance THEN n
                   ELSE IF sup - Tick(t) <= max_distance THEN n + 1 ELSE -1
      /\ Knot(u) = IF Tick(u) - inf <= max_distance THEN n
                   ELSE IF sup - Tick(u) <= max_distance THEN n + 1 ELSE -1
  BY <1>3, KnotFact
<1> HIDE DEF inf, sup
<1>5. ~ Tick(s) - inf <= max_distance /\ ~ sup - Tick(u) <= max_distance
  BY <1>1, <1>4
<1>6. ~ Tick(t) - inf <= max_distance /\ ~ sup - Tick(t) <= max_distance
  BY <1>1, <1>2, <1>5
<1> QED
  BY <1>4, <1>6

\* The knots are in the order of the ticks.
LEMMA KnotsInOrder ==
  ASSUME SearchArgsOK, NEW s \in TickIds, NEW t \in TickIds, s <= t,
         NEW m, NEW n, InPart(s, m), InPart(t, n), m <= n, Knot(s) # -1, Knot(t) # -1
  PROVE  inter[Knot(s) + 1] <= inter[Knot(t) + 1]
<1> DEFINE M == Len(inter)
<1>1. /\ m \in Nat /\ n \in Nat /\ M \in Nat /\ m + 2 \in 1 .. M /\ n + 2 \in 1 .. M
      /\ \A a, b \in 1 .. M : a <= b => inter[a] <= inter[b]
  BY KnotFact DEF SearchArgsOK
<1>2. Knot(s) \in {m, m + 1}
  BY KnotFact
<1>3. Knot(t) \in {n, n + 1}
  BY KnotFact
<1>4. CASE m < n \/ Knot(s) <= Knot(t)
  <2>1. Knot(s) <= Knot(t) /\ Knot(s) + 1 \in 1 .. M /\ Knot(t) + 1 \in 1 .. M
    BY <1>1, <1>2, <1>3, <1>4
  <2>2. Knot(s) + 1 <= Knot(t) + 1
    BY <1>1, <1>2, <1>3, <2>1
  <2> QED
    BY <1>1, <2>1, <2>2
<1>5. CASE m = n /\ ~ Knot(s) <= Knot(t)
  <2>1. Knot(s) = n + 1 /\ Knot(t) = n
    BY <1>1, <1>2, <1>3, <1>5
  <2> DEFINE inf == inter[n + 1]
             sup == inter[n + 2]
  <2>2. /\ inf \in Nat /\ sup \in Nat /\ max_distance \in Nat
        /\ Tick(s) \in Nat /\ Tick(t) \in Nat /\ Tick(s) <= Tick(t)
    BY KnotFact DEF SearchArgsOK
  <2>3. CASE eq /\ n % 2 = 1
    <3>1. /\ Knot(s) = IF Tick(s) - inf <= sup - Tick(s) THEN n ELSE n + 1
          /\ Knot(t) = IF Tick(t) - inf <= sup - Tick(t) THEN n ELSE n + 1
      BY <1>5, <2>3, KnotFact
    <3> HIDE DEF inf, sup
    <3> QED
      BY <1>1, <2>1, <2>2, <3>1
  <2>4. CASE ~ (eq /\ n % 2 = 1)
    <3>1. /\ Knot(s) = IF Tick(s) - inf <= max_distance THEN n
                       ELSE IF sup - Tick(s) <= max_distance THEN n + 1 ELSE -1
          /\ Knot(t) = IF Tick(t) - inf <= max_distance THEN n
                       ELSE IF sup - Tick(t) <= max_distance THEN n + 1 ELSE -1
      BY <1>5, <2>4, KnotFact
    <3> HIDE DEF inf, sup
    <3> QED
      BY <1>1, <2>1, <2>2, <3>1
  <2> QED
    BY <2>3, <2>4
<1> QED
  BY <1>1, <1>4, <1>5

NRun == Len(first_ticks) - 1
\* The far ticks of run r, up to end, are the number ones from first on.
FarFrom(r, end, first, number) ==
  /\ number > 0 => first_ticks[r] <= first /\ first + number <= end
  /\ \A t \in TickIds :
       first_ticks[r] <= t /\ t < end => (Knot(t) = -1 <=> first <= t /\ t < first + number)
NearInv ==
  /\ near \in Seq(Nat \X Int)
  /\ \A m \in 1 .. Len(near) :
       /\ near[m][1] \in TickIds /\ near[m][1] < j
       /\ near[m][2] = Knot(near[m][1]) /\ near[m][2] # -1
  /\ \A m, n \in 1 .. Len(near) : m < n => near[m][1] < near[n][1]
  /\ \A t \in TickIds : t < j /\ Knot(t) # -1 => \E m \in 1 .. Len(near) : near[m][1] = t
FarInv ==
  /\ far \in Seq(Nat \X Nat \X Nat)
  /\ \A f \in 1 .. Len(far) : far[f][2] > 0
                           /\ \E r \in 1 .. run - 1 :
                                /\ far[f][3] = inter_indices[r]
                                /\ FarFrom(r, first_ticks[r + 1], far[f][1], far[f][2])
  /\ \A r \in 1 .. run - 1, t \in TickIds :
       first_ticks[r] <= t /\ t < first_ticks[r + 1] /\ Knot(t) = -1
         => \E f \in 1 .. Len(far) : far[f][3] = inter_indices[r]
SecondPassInv ==
  /\ RunsFound
  /\ run \in 1 .. NRun + 1
  /\ j \in 0 .. Len(ticks) /\ first_ticks[run] <= j
  /\ run <= NRun => j <= first_ticks[run + 1]
  /\ n_far_tick \in Nat /\ far_first_tick \in Int
  /\ n_far_tick > 0 => far_first_tick \in Nat
  /\ FarFrom(run, j, far_first_tick, n_far_tick)
  /\ NearInv
  /\ FarInv
SearchInv ==
  /\ SearchArgsOK
  /\ InFirstPass => FirstPassInv /\ far = <<>> /\ near = <<>> /\ n_far_tick = 0 /\ far_first_tick = -1
  /\ ~InFirstPass => SecondPassInv

\* What the runs are, without their number.
LEMMA RunsFact ==
  ASSUME SearchArgsOK, RunsFound
  PROVE  /\ NRun \in Nat /\ Len(first_ticks) = NRun + 1 /\ Len(inter_indices) = NRun + 1
         /\ Len(ticks) \in Nat
         /\ first_ticks \in Seq(Nat) /\ inter_indices \in Seq(Nat)
         /\ \A r \in 1 .. NRun + 1 : first_ticks[r] \in 0 .. Len(ticks) /\ inter_indices[r] \in Nat
         /\ first_ticks[1] = 0 /\ first_ticks[NRun + 1] = Len(ticks)
         /\ \A a, b \in 1 .. NRun + 1 :
              a < b => first_ticks[a] < first_ticks[b] /\ inter_indices[a] < inter_indices[b]
         /\ \A r \in 1 .. NRun, t \in TickIds :
              first_ticks[r] <= t /\ t < first_ticks[r + 1] => InPart(t, inter_indices[r])
<1> DEFINE L == Len(first_ticks)
<1>1. /\ first_ticks \in Seq(Nat) /\ inter_indices \in Seq(Nat) /\ Len(inter_indices) = L
      /\ first_ticks[1] = 0 /\ L \in Nat /\ L > 0 /\ first_ticks[L] = Len(ticks)
      /\ \A a, b \in 1 .. L :
           a < b => first_ticks[a] < first_ticks[b] /\ inter_indices[a] < inter_indices[b]
  BY DEF RunsFound, RunsCover
<1>2. NRun \in Nat /\ L = NRun + 1 /\ Len(ticks) \in Nat
  BY <1>1 DEF NRun, SearchArgsOK
<1>3. ASSUME NEW r \in 1 .. NRun + 1
      PROVE  first_ticks[r] \in 0 .. Len(ticks) /\ inter_indices[r] \in Nat
  <2>1. first_ticks[r] \in Nat /\ inter_indices[r] \in Nat
    BY <1>1, <1>2
  <2>2. r = L \/ first_ticks[r] < first_ticks[L]
    <3>1. L \in 1 .. L /\ r \in 1 .. L
      BY <1>1, <1>2
    <3> QED
      BY <1>1, <3>1
  <2> QED
    BY <1>1, <1>2, <2>1, <2>2
<1>4. ASSUME NEW r \in 1 .. NRun, NEW t \in TickIds, first_ticks[r] <= t, t < first_ticks[r + 1]
      PROVE  InPart(t, inter_indices[r])
  <2>1. r \in 1 .. L /\ t < Len(ticks)
    BY <1>2 DEF TickIds
  <2> QED
    BY <1>4, <2>1 DEF RunsFound, RunsCover
<1> QED
  BY <1>1, <1>2, <1>3, <1>4

\* The tick the second pass is at.
LEMMA RunTick ==
  ASSUME SearchArgsOK, SecondPassInv, InRun
  PROVE  /\ run \in 1 .. NRun /\ j \in TickIds /\ j \in Nat /\ j + 1 <= first_ticks[run + 1]
         /\ j + 1 \in 0 .. Len(ticks) /\ first_ticks[run] <= j
         /\ InPart(j, inter_indices[run])
<1>1. run \in 1 .. NRun /\ j < first_ticks[run + 1]
  BY DEF InRun, NRun
<1>2. /\ NRun \in Nat /\ first_ticks[run + 1] \in 0 .. Len(ticks) /\ Len(ticks) \in Nat
      /\ \A r \in 1 .. NRun, t \in TickIds :
           first_ticks[r] <= t /\ t < first_ticks[r + 1] => InPart(t, inter_indices[r])
  <2>1. RunsFound
    BY DEF SecondPassInv
  <2>2. /\ NRun \in Nat /\ Len(ticks) \in Nat
        /\ \A r \in 1 .. NRun + 1 : first_ticks[r] \in 0 .. Len(ticks)
        /\ \A r \in 1 .. NRun, t \in TickIds :
             first_ticks[r] <= t /\ t < first_ticks[r + 1] => InPart(t, inter_indices[r])
    BY <2>1, RunsFact
  <2>3. run + 1 \in 1 .. NRun + 1
    BY <1>1, <2>2
  <2> QED
    BY <2>2, <2>3
<1>3. j \in Nat /\ first_ticks[run] <= j
  BY DEF SecondPassInv
<1>4. j \in TickIds /\ j + 1 <= first_ticks[run + 1] /\ j + 1 \in 0 .. Len(ticks)
  BY <1>1, <1>2, <1>3 DEF TickIds
<1> QED
  BY <1>1, <1>2, <1>3, <1>4

\* What the second pass leaves as it is.
LEMMA SecondPassKeeps ==
  ASSUME UNCHANGED <<searchArgs, firstPass>>
  PROVE  /\ SearchArgsOK' <=> SearchArgsOK
         /\ RunsFound' <=> RunsFound
         /\ TickIds' = TickIds /\ NRun' = NRun
         /\ UNCHANGED <<first_ticks, inter_indices, ticks>>
         /\ \A t : Knot(t)' = Knot(t)
         /\ \A r, end, first, number : FarFrom(r, end, first, number)' <=> FarFrom(r, end, first, number)
<1>1. UNCHANGED <<ticks, inter, max_distance, eq, first_ticks, inter_indices>>
  BY DEF searchArgs, firstPass
<1>2. TickIds' = TickIds /\ NRun' = NRun /\ \A t : Knot(t)' = Knot(t)
  BY <1>1 DEF TickIds, NRun, Knot, PartAt, Tick
<1>3. SearchArgsOK' <=> SearchArgsOK
  BY <1>1, <1>2 DEF SearchArgsOK, Tick
<1>4. RunsFound' <=> RunsFound
  BY <1>1, <1>2 DEF RunsFound, RunsCover, InPart, Parts, PartAt, Tick
<1> QED
  BY <1>1, <1>2, <1>3, <1>4 DEF FarFrom

LEMMA NearStep ==
  ASSUME SearchArgsOK, SecondPassInv, InRun, NEW q, RegisterNear(q), q = Knot(j), q # -1, q \in Int
  PROVE  SecondPassInv'
<1>1. /\ run \in 1 .. NRun /\ j \in TickIds /\ j \in Nat /\ j + 1 <= first_ticks[run + 1]
      /\ j + 1 \in 0 .. Len(ticks) /\ first_ticks[run] <= j
  BY RunTick
<1>2. /\ near' = Append(near, <<j, q>>) /\ j' = j + 1
      /\ UNCHANGED <<searchArgs, firstPass, run, far_first_tick, n_far_tick, far>>
  BY DEF RegisterNear
<1>3. /\ TickIds' = TickIds /\ NRun' = NRun /\ UNCHANGED <<first_ticks, inter_indices, ticks>>
      /\ \A t : Knot(t)' = Knot(t)
      /\ RunsFound'
      /\ \A r, end, first, number : FarFrom(r, end, first, number)' <=> FarFrom(r, end, first, number)
  BY <1>2, SecondPassKeeps DEF SecondPassInv
<1>4. FarInv'
  BY <1>2, <1>3 DEF SecondPassInv, FarInv
<1>t. \A t \in TickIds : t \in Nat
  BY DEF TickIds
<1>r. RunsFound
  BY DEF SecondPassInv
<1>f. first_ticks[run] \in Nat /\ first_ticks[run + 1] \in Nat
  <2>1. NRun \in Nat /\ \A r \in 1 .. NRun + 1 : first_ticks[r] \in 0 .. Len(ticks)
    BY <1>r, RunsFact
  <2>2. run \in 1 .. NRun + 1 /\ run + 1 \in 1 .. NRun + 1
    BY <1>1, <2>1
  <2> QED
    BY <2>1, <2>2
<1>5. NearInv'
  <2>0. PICK N \in Nat : N = Len(near)
    BY DEF SecondPassInv, NearInv
  <2>1. /\ near \in Seq(Nat \X Int)
        /\ \A m, n \in 1 .. N : m < n => near[m][1] < near[n][1]
        /\ \A t \in TickIds : t < j /\ Knot(t) # -1 => \E m \in 1 .. N : near[m][1] = t
    BY <2>0 DEF SecondPassInv, NearInv
  <2>a. \A m \in 1 .. N : /\ near[m][1] \in TickIds /\ near[m][1] < j
                          /\ near[m][2] = Knot(near[m][1]) /\ near[m][2] # -1
    BY <2>0 DEF SecondPassInv, NearInv
  <2>2. /\ near' \in Seq(Nat \X Int) /\ Len(near') = N + 1 /\ near'[N + 1] = <<j, q>>
        /\ \A m \in 1 .. N : near'[m] = near[m]
    BY <1>1, <1>2, <2>0, <2>1
  <2>b. near'[N + 1][1] = j /\ near'[N + 1][2] = q
    BY <2>2
  <2>3. ASSUME NEW m \in 1 .. N + 1
        PROVE  /\ near'[m][1] \in TickIds /\ near'[m][1] < j + 1
               /\ near'[m][2] = Knot(near'[m][1]) /\ near'[m][2] # -1
    <3>1. CASE m = N + 1
      BY <1>1, <2>b, <3>1
    <3>2. CASE m \in 1 .. N
      <4>1. near'[m] = near[m]
        BY <2>2, <3>2
      <4>2. near[m][1] \in TickIds /\ near[m][1] < j
        BY <2>a, <3>2
      <4>3. \A t \in TickIds : t < j => t < j + 1
        BY <1>1, <1>t
      <4> QED
        BY <2>a, <3>2, <4>1, <4>2, <4>3
    <3> QED
      BY <3>1, <3>2
  <2>4. ASSUME NEW m \in 1 .. N + 1, NEW n \in 1 .. N + 1, m < n PROVE near'[m][1] < near'[n][1]
    <3>1. m \in 1 .. N
      BY <2>4
    <3>2. CASE n = N + 1
      <4>1. near[m][1] < j /\ near'[m] = near[m]
        BY <2>a, <2>2, <3>1
      <4> QED
        BY <2>b, <3>2, <4>1
    <3>3. CASE n \in 1 .. N
      <4>1. near'[m] = near[m] /\ near'[n] = near[n] /\ near[m][1] < near[n][1]
        BY <2>1, <2>2, <2>4, <3>1, <3>3
      <4> QED
        BY <4>1
    <3> QED
      BY <3>2, <3>3
  <2>5. ASSUME NEW t \in TickIds, t < j + 1, Knot(t) # -1 PROVE \E m \in 1 .. N + 1 : near'[m][1] = t
    <3>1. CASE t = j
      BY <2>b, <3>1
    <3>2. CASE t # j
      <4>1. t < j
        BY <1>1, <1>t, <2>5, <3>2
      <4>2. PICK m \in 1 .. N : near[m][1] = t
        BY <2>1, <2>5, <4>1
      <4>3. m \in 1 .. N + 1
        BY <4>2
      <4>4. near'[m] = near[m]
        BY <2>2, <4>2
      <4> QED
        BY <4>2, <4>3, <4>4
    <3> QED
      BY <3>1, <3>2
  <2>6. UNCHANGED <<ticks, inter, max_distance, eq>>
    BY <1>2 DEF searchArgs
  <2> QED
    <3>2. \A m \in 1 .. Len(near') :
            /\ near'[m][1] \in TickIds' /\ near'[m][1] < j'
            /\ near'[m][2] = Knot(near[m][1])' /\ near'[m][2] # -1
      BY <1>2, <1>3, <2>2, <2>3, <2>6 DEF Knot, PartAt, Tick
    <3>3. \A m, n \in 1 .. Len(near') : m < n => near'[m][1] < near'[n][1]
      BY <2>2, <2>4
    <3>4. \A t \in TickIds' : t < j' /\ Knot(t)' # -1 => \E m \in 1 .. Len(near') : near'[m][1] = t
      BY <1>2, <1>3, <2>2, <2>5
    <3> QED
      BY <2>2, <3>2, <3>3, <3>4 DEF NearInv
<1>6. FarFrom(run, j + 1, far_first_tick, n_far_tick)
  <2>1. /\ FarFrom(run, j, far_first_tick, n_far_tick) /\ n_far_tick \in Nat /\ far_first_tick \in Int
        /\ n_far_tick > 0 => far_first_tick \in Nat
    BY DEF SecondPassInv
  <2>2. n_far_tick > 0 => first_ticks[run] <= far_first_tick /\ far_first_tick + n_far_tick <= j + 1
    BY <1>1, <2>1 DEF FarFrom
  <2>3. ASSUME NEW t \in TickIds, first_ticks[run] <= t, t < j + 1
        PROVE  Knot(t) = -1 <=> far_first_tick <= t /\ t < far_first_tick + n_far_tick
    <3>1. CASE t = j
      <4>1. ~ (far_first_tick <= t /\ t < far_first_tick + n_far_tick)
        BY <1>1, <2>1, <3>1 DEF FarFrom
      <4> QED
        BY <3>1, <4>1
    <3>2. CASE t # j
      <4>1. t < j
        BY <1>1, <1>t, <2>3, <3>2
      <4> QED
        BY <2>1, <2>3, <4>1 DEF FarFrom
    <3> QED
      BY <3>1, <3>2
  <2> QED
    BY <2>2, <2>3 DEF FarFrom
<1> QED
  <2>1. FarFrom(run, j, far_first_tick, n_far_tick)'
    BY <1>2, <1>3, <1>6 DEF FarFrom
  <2>2. j' \in 0 .. Len(ticks)' /\ first_ticks'[run'] <= j' /\ (run' <= NRun' => j' <= first_ticks'[run' + 1])
    BY <1>1, <1>2, <1>3, <1>f
  <2>3. /\ run' \in 1 .. NRun' + 1 /\ n_far_tick' \in Nat /\ far_first_tick' \in Int
        /\ n_far_tick' > 0 => far_first_tick' \in Nat
    BY <1>2, <1>3 DEF SecondPassInv
  <2> QED
    BY <1>3, <1>4, <1>5, <2>1, <2>2, <2>3 DEF SecondPassInv

LEMMA FarStep ==
  ASSUME SearchArgsOK, SecondPassInv, Far
  PROVE  SecondPassInv'
<1> DEFINE n == inter_indices[run]
<1>0. InRun
  BY DEF Far
<1>1. /\ run \in 1 .. NRun /\ j \in TickIds /\ j \in Nat /\ j + 1 <= first_ticks[run + 1]
      /\ j + 1 \in 0 .. Len(ticks) /\ first_ticks[run] <= j
      /\ InPart(j, n)
  BY <1>0, RunTick
<1>2. /\ far_first_tick' = IF n_far_tick = 0 THEN j ELSE far_first_tick
      /\ n_far_tick' = n_far_tick + 1 /\ j' = j + 1
      /\ UNCHANGED <<searchArgs, firstPass, run, far, near>>
  BY DEF Far
<1>3. /\ TickIds' = TickIds /\ NRun' = NRun /\ UNCHANGED <<first_ticks, inter_indices, ticks>>
      /\ \A t : Knot(t)' = Knot(t)
      /\ RunsFound'
      /\ \A r, end, first, number : FarFrom(r, end, first, number)' <=> FarFrom(r, end, first, number)
  BY <1>2, SecondPassKeeps DEF SecondPassInv
<1>4. FarInv'
  BY <1>2, <1>3 DEF SecondPassInv, FarInv
<1>t. \A t \in TickIds : t \in Nat
  BY DEF TickIds
<1>r. RunsFound
  BY DEF SecondPassInv
<1>f. first_ticks[run] \in Nat /\ first_ticks[run + 1] \in Nat
  <2>1. NRun \in Nat /\ \A r \in 1 .. NRun + 1 : first_ticks[r] \in 0 .. Len(ticks)
    BY <1>r, RunsFact
  <2>2. run \in 1 .. NRun + 1 /\ run + 1 \in 1 .. NRun + 1
    BY <1>1, <2>1
  <2> QED
    BY <2>1, <2>2
<1>5. Knot(j) = -1
  <2>1. /\ ~ (eq /\ n % 2 = 1)
        /\ Abs(Tick(j) - inter[n + 1]) > max_distance /\ Abs(Tick(j) - inter[n + 2]) > max_distance
    BY DEF Far, IsEqualRange, Inf, Sup
  <2>2. /\ Abs(Tick(j) - inter[n + 1]) = Tick(j) - inter[n + 1]
        /\ Abs(Tick(j) - inter[n + 2]) = inter[n + 2] - Tick(j)
        /\ Tick(j) \in Nat /\ inter[n + 1] \in Nat /\ inter[n + 2] \in Nat
    BY <1>1, KnotFact
  <2>3. Knot(j) = IF Tick(j) - inter[n + 1] <= max_distance THEN n
                  ELSE IF inter[n + 2] - Tick(j) <= max_distance THEN n + 1 ELSE -1
    BY <1>1, <2>1, KnotFact
  <2>4. max_distance \in Nat
    BY DEF SearchArgsOK
  <2>5. ~ Tick(j) - inter[n + 1] <= max_distance /\ ~ inter[n + 2] - Tick(j) <= max_distance
    <3> HIDE DEF n
    <3> QED
      BY <2>1, <2>2, <2>4
  <2> QED
    BY <2>3, <2>5
<1>6. NearInv'
  <2>1. \A t \in TickIds : t < j + 1 /\ Knot(t) # -1 => t < j
    BY <1>1, <1>t, <1>5
  <2>2. \A t \in TickIds : t < j => t < j + 1
    BY <1>1, <1>t
  <2>4. /\ near \in Seq(Nat \X Int)
        /\ \A m \in 1 .. Len(near) :
             /\ near[m][1] \in TickIds /\ near[m][1] < j + 1
             /\ near[m][2] = Knot(near[m][1]) /\ near[m][2] # -1
        /\ \A m, u \in 1 .. Len(near) : m < u => near[m][1] < near[u][1]
        /\ \A t \in TickIds : t < j + 1 /\ Knot(t) # -1 => \E m \in 1 .. Len(near) : near[m][1] = t
    BY <2>1, <2>2 DEF SecondPassInv, NearInv
  <2> QED
    BY <1>2, <1>3, <2>4 DEF NearInv, Knot, PartAt, Tick, searchArgs
<1>7. FarFrom(run, j + 1, far_first_tick', n_far_tick + 1)
  <2>1. /\ FarFrom(run, j, far_first_tick, n_far_tick) /\ n_far_tick \in Nat /\ far_first_tick \in Int
        /\ n_far_tick > 0 => far_first_tick \in Nat
    BY DEF SecondPassInv
  <2>2. first_ticks[run] \in Nat
    BY <1>f
  <2>3. CASE n_far_tick = 0
    <3>1. far_first_tick' = j
      BY <1>2, <2>3
    <3>2. ASSUME NEW t \in TickIds, first_ticks[run] <= t, t < j + 1
          PROVE  Knot(t) = -1 <=> j <= t /\ t < j + 1
      <4>1. CASE t = j
        BY <1>1, <1>5, <4>1
      <4>2. CASE t # j
        <5>1. t < j /\ t \in Nat
          BY <1>1, <1>t, <3>2, <4>2
        <5>2. Knot(t) = -1 <=> far_first_tick <= t /\ t < far_first_tick + n_far_tick
          BY <2>1, <3>2, <5>1 DEF FarFrom
        <5> QED
          BY <1>1, <2>1, <2>3, <5>1, <5>2
      <4> QED
        BY <4>1, <4>2
    <3> QED
      BY <1>1, <2>3, <3>1, <3>2 DEF FarFrom
  <2>4. CASE n_far_tick > 0
    <3>1. far_first_tick' = far_first_tick /\ far_first_tick \in Nat
      BY <1>2, <2>1, <2>4
    <3>2. first_ticks[run] <= far_first_tick /\ far_first_tick + n_far_tick <= j
      BY <2>1, <2>4 DEF FarFrom
    <3>3. far_first_tick + n_far_tick = j
      <4>1. SUFFICES ASSUME far_first_tick + n_far_tick < j PROVE FALSE
        BY <1>1, <2>1, <3>1, <3>2
      <4> DEFINE u == far_first_tick + n_far_tick
      <4>2. /\ u \in TickIds /\ far_first_tick \in TickIds /\ far_first_tick <= u /\ u <= j
            /\ first_ticks[run] <= u /\ first_ticks[run] <= far_first_tick
            /\ u < first_ticks[run + 1] /\ far_first_tick < first_ticks[run + 1]
            /\ far_first_tick < j
        <5>1. first_ticks[run + 1] \in Nat
          BY <1>f
        <5>2. Len(ticks) \in Nat /\ j <= Len(ticks) - 1
          BY <1>1 DEF TickIds, SearchArgsOK
        <5> QED
          BY <1>1, <2>1, <2>2, <2>4, <3>1, <3>2, <4>1, <5>1, <5>2 DEF TickIds
      <4>3. InPart(u, n) /\ InPart(far_first_tick, n)
        BY <1>1, <1>r, <4>2, RunsFact
      <4>4. Knot(far_first_tick) = -1
        BY <2>1, <2>4, <3>1, <4>2 DEF FarFrom
      <4>5. Knot(u) # -1
        <5>1. ~ (u < far_first_tick + n_far_tick)
          BY <2>1, <3>1
        <5> HIDE DEF u
        <5> QED
          BY <2>1, <4>1, <4>2, <5>1 DEF FarFrom, u
      <4>6. Knot(u) = -1
        <5> HIDE DEF u, n
        <5> QED
          BY <1>1, <1>5, <4>2, <4>3, <4>4, FarTogether
      <4> QED
        BY <4>5, <4>6
    <3>4. ASSUME NEW t \in TickIds, first_ticks[run] <= t, t < j + 1
          PROVE  Knot(t) = -1 <=> far_first_tick <= t /\ t < far_first_tick + (n_far_tick + 1)
      <4>1. CASE t = j
        BY <1>1, <1>5, <2>1, <3>1, <3>3, <4>1
      <4>2. CASE t # j
        <5>1. t < j /\ t \in Nat
          BY <1>1, <1>t, <3>4, <4>2
        <5>2. Knot(t) = -1 <=> far_first_tick <= t /\ t < far_first_tick + n_far_tick
          BY <2>1, <3>4, <5>1 DEF FarFrom
        <5> QED
          BY <1>1, <2>1, <3>1, <3>3, <5>1, <5>2
      <4> QED
        BY <4>1, <4>2
    <3>5. first_ticks[run] <= far_first_tick /\ far_first_tick + (n_far_tick + 1) <= j + 1
      BY <1>1, <2>1, <3>1, <3>2, <3>3
    <3> QED
      BY <3>1, <3>4, <3>5 DEF FarFrom
  <2> QED
    BY <2>1, <2>3, <2>4
<1> QED
  <2>1. FarFrom(run, j, far_first_tick, n_far_tick)'
    BY <1>2, <1>3, <1>7 DEF FarFrom
  <2>2. n_far_tick' \in Nat /\ far_first_tick' \in Int /\ far_first_tick' \in Nat
    BY <1>1, <1>2 DEF SecondPassInv
  <2>3. j' \in 0 .. Len(ticks)' /\ first_ticks'[run'] <= j' /\ (run' <= NRun' => j' <= first_ticks'[run' + 1])
    BY <1>1, <1>2, <1>3, <1>f
  <2>4. run' \in 1 .. NRun' + 1
    BY <1>2, <1>3 DEF SecondPassInv
  <2> QED
    BY <1>3, <1>4, <1>6, <2>1, <2>2, <2>3, <2>4 DEF SecondPassInv

LEMMA RunEndStep ==
  ASSUME SearchArgsOK, SecondPassInv, RunEnd
  PROVE  SecondPassInv'
<1>1. /\ run \in 1 .. NRun /\ j = first_ticks[run + 1] /\ run' = run + 1
      /\ far' = IF n_far_tick > 0
                  THEN Append(far, <<far_first_tick, n_far_tick, inter_indices[run]>>) ELSE far
      /\ n_far_tick' = 0 /\ far_first_tick' = -1
      /\ UNCHANGED <<searchArgs, firstPass, j, near>>
  BY DEF RunEnd, NRun
<1>2. /\ NRun \in Nat /\ NRun' = NRun /\ TickIds' = TickIds
      /\ UNCHANGED <<first_ticks, inter_indices, ticks, inter, max_distance, eq>>
      /\ \A t : Knot(t)' = Knot(t)
      /\ RunsFound'
      /\ \A r, end, first, number : FarFrom(r, end, first, number)' <=> FarFrom(r, end, first, number)
  <2>1. RunsFound
    BY DEF SecondPassInv
  <2>2. NRun \in Nat
    BY <2>1, RunsFact
  <2>3. UNCHANGED <<ticks, inter, max_distance, eq>>
    BY <1>1 DEF searchArgs
  <2> QED
    BY <1>1, <2>1, <2>2, <2>3, SecondPassKeeps
<1>3. /\ \A r \in 1 .. NRun + 1 : first_ticks[r] \in Nat /\ inter_indices[r] \in Nat
      /\ \A a, b \in 1 .. NRun + 1 : a < b => first_ticks[a] < first_ticks[b]
  <2>1. RunsFound
    BY DEF SecondPassInv
  <2> QED
    BY <2>1, RunsFact
<1>4. /\ j \in 0 .. Len(ticks) /\ run \in Nat /\ run + 1 \in 1 .. NRun + 1 /\ run' - 1 = run
      /\ n_far_tick \in Nat /\ far_first_tick \in Int
      /\ n_far_tick > 0 => far_first_tick \in Nat
      /\ FarFrom(run, first_ticks[run + 1], far_first_tick, n_far_tick)
  BY <1>1, <1>2 DEF SecondPassInv
<1>t. \A t \in TickIds : t \in Nat
  BY DEF TickIds
<1>5. NearInv'
  BY <1>1, <1>2 DEF SecondPassInv, NearInv, Knot, PartAt, Tick
<1>6. FarFrom(run + 1, j, -1, 0)
  BY <1>1, <1>3, <1>4, <1>t DEF FarFrom
<1>7. /\ j' \in 0 .. Len(ticks)' /\ first_ticks'[run'] <= j'
      /\ (run' <= NRun' => j' <= first_ticks'[run' + 1])
  <2>1. ASSUME run + 1 <= NRun PROVE j <= first_ticks[run + 1 + 1]
    <3>1. run + 1 + 1 \in 1 .. NRun + 1 /\ run + 1 < run + 1 + 1
      BY <1>2, <1>4, <2>1
    <3> QED
      BY <1>1, <1>3, <1>4, <3>1
  <2>2. first_ticks[run + 1] <= j
    BY <1>1, <1>3, <1>4
  <2> QED
    BY <1>1, <1>2, <1>4, <2>1, <2>2
<1>8. FarInv'
  <2>0. /\ far \in Seq(Nat \X Nat \X Nat)
        /\ \A f \in 1 .. Len(far) : /\ far[f][2] > 0
                                  /\ \E r \in 1 .. run - 1 :
                                       /\ far[f][3] = inter_indices[r]
                                       /\ FarFrom(r, first_ticks[r + 1], far[f][1], far[f][2])
    BY DEF SecondPassInv, FarInv
  <2>1. \A r \in 1 .. run - 1, t \in TickIds :
          first_ticks[r] <= t /\ t < first_ticks[r + 1] /\ Knot(t) = -1
            => \E f \in 1 .. Len(far) : far[f][3] = inter_indices[r]
    BY DEF SecondPassInv, FarInv
  <2>2. PICK N \in Nat : N = Len(far)
    BY <2>0
  <2>3. CASE n_far_tick > 0
    <3>1. /\ far' \in Seq(Nat \X Nat \X Nat) /\ Len(far') = N + 1
          /\ far'[N + 1] = <<far_first_tick, n_far_tick, inter_indices[run]>>
          /\ \A f \in 1 .. N : far'[f] = far[f]
      <4>1. far' = Append(far, <<far_first_tick, n_far_tick, inter_indices[run]>>)
        BY <1>1, <2>3
      <4>2. <<far_first_tick, n_far_tick, inter_indices[run]>> \in Nat \X Nat \X Nat
        <5>1. run \in 1 .. NRun + 1
          BY <1>1, <1>2
        <5>2. inter_indices[run] \in Nat /\ far_first_tick \in Nat /\ n_far_tick \in Nat
          BY <1>3, <1>4, <2>3, <5>1
        <5> QED
          BY <5>2
      <4> QED
        BY <2>0, <2>2, <4>1, <4>2
    <3>2. /\ far'[N + 1][1] = far_first_tick /\ far'[N + 1][2] = n_far_tick
          /\ far'[N + 1][3] = inter_indices[run]
      BY <3>1
    <3>3. ASSUME NEW f \in 1 .. N + 1
          PROVE  /\ far'[f][2] > 0
                 /\ \E r \in 1 .. run : /\ far'[f][3] = inter_indices[r]
                                     /\ FarFrom(r, first_ticks[r + 1], far'[f][1], far'[f][2])
      <4>1. CASE f = N + 1
        <5>1. far'[f][1] = far_first_tick /\ far'[f][2] = n_far_tick /\ far'[f][3] = inter_indices[run]
          BY <3>2, <4>1
        <5>2. FarFrom(run, first_ticks[run + 1], far'[f][1], far'[f][2])
          BY <1>4, <5>1
        <5>3. run \in 1 .. run
          BY <1>1, <1>4
        <5> QED
          BY <2>3, <5>1, <5>2, <5>3
      <4>2. CASE f \in 1 .. N
        <5>1. far'[f] = far[f]
          BY <3>1, <4>2
        <5>2. PICK r \in 1 .. run - 1 :
                /\ far[f][3] = inter_indices[r]
                /\ FarFrom(r, first_ticks[r + 1], far[f][1], far[f][2])
          BY <2>0, <2>2, <4>2
        <5>3. r \in 1 .. run /\ far[f][2] > 0
          BY <1>4, <2>0, <2>2, <4>2
        <5> QED
          BY <5>1, <5>2, <5>3
      <4> QED
        BY <4>1, <4>2
    <3>4. ASSUME NEW r \in 1 .. run, NEW t \in TickIds, first_ticks[r] <= t, t < first_ticks[r + 1],
                 Knot(t) = -1
          PROVE  \E f \in 1 .. N + 1 : far'[f][3] = inter_indices[r]
      <4>1. CASE r = run
        <5>1. N + 1 \in 1 .. N + 1
          OBVIOUS
        <5> QED
          BY <3>2, <4>1, <5>1
      <4>2. CASE r \in 1 .. run - 1
        <5>1. PICK f \in 1 .. N : far[f][3] = inter_indices[r]
          BY <2>1, <2>2, <3>4, <4>2
        <5>2. f \in 1 .. N + 1 /\ far'[f] = far[f]
          <6>1. far'[f] = far[f]
            BY <3>1, <5>1
          <6> QED
            BY <6>1
        <5> QED
          BY <5>1, <5>2
      <4> QED
        BY <1>4, <4>1, <4>2
    <3> QED
      BY <1>1, <1>2, <1>4, <3>1, <3>3, <3>4 DEF FarInv
  <2>4. CASE n_far_tick = 0
    <3>1. far' = far
      BY <1>1, <2>4
    <3>2. ASSUME NEW t \in TickIds, first_ticks[run] <= t, t < first_ticks[run + 1] PROVE Knot(t) # -1
      <4>1. Knot(t) = -1 <=> far_first_tick <= t /\ t < far_first_tick + n_far_tick
        BY <1>4, <3>2 DEF FarFrom
      <4> QED
        BY <1>4, <1>t, <2>4, <4>1
    <3>3. ASSUME NEW r \in 1 .. run, NEW t \in TickIds, first_ticks[r] <= t, t < first_ticks[r + 1],
                 Knot(t) = -1
          PROVE  \E f \in 1 .. Len(far) : far[f][3] = inter_indices[r]
      <4>1. r # run
        BY <3>2, <3>3
      <4>2. r \in 1 .. run - 1
        BY <1>4, <4>1
      <4> QED
        BY <2>1, <3>3, <4>2
    <3>4. ASSUME NEW f \in 1 .. Len(far)
          PROVE  /\ far[f][2] > 0
                 /\ \E r \in 1 .. run : /\ far[f][3] = inter_indices[r]
                                     /\ FarFrom(r, first_ticks[r + 1], far[f][1], far[f][2])
      <4>1. \A r \in 1 .. run - 1 : r \in 1 .. run
        BY <1>4
      <4> QED
        BY <2>0, <4>1
    <3> QED
      BY <1>1, <1>2, <1>4, <2>0, <3>1, <3>3, <3>4 DEF FarInv
  <2> QED
    BY <1>4, <2>3, <2>4
<1> QED
  <2>1. FarFrom(run, j, far_first_tick, n_far_tick)'
    BY <1>1, <1>2, <1>6 DEF FarFrom
  <2> QED
    BY <1>1, <1>2, <1>4, <1>5, <1>7, <1>8, <2>1 DEF SecondPassInv

LEMMA SearchStepInv == ASSUME SearchInv, [SearchNext]_searchVars PROVE SearchInv'
<1>a. SearchArgsOK
  BY DEF SearchInv
<1>1. ASSUME RecordEnd \/ NextInterval \/ RecordTick PROVE SearchInv'
  <2>1. InFirstPass /\ UNCHANGED <<searchArgs, secondPass>>
    BY <1>1 DEF RecordEnd, NextInterval, RecordTick
  <2>2. FirstPassInv'
    BY <1>1, <1>a, <2>1, FirstPassStep DEF SearchInv
  <2>3. SearchArgsOK' /\ InFirstPass'
    BY <1>a, <2>1 DEF SearchArgsOK, TickIds, Tick, InFirstPass, searchArgs, secondPass
  <2> QED
    BY <2>1, <2>2, <2>3 DEF SearchInv, secondPass
<1>2. ASSUME CloseSearch PROVE SearchInv'
  <2>1. /\ InFirstPass /\ UNCHANGED <<searchArgs, far_first_tick, n_far_tick, far, near>>
        /\ far = <<>> /\ near = <<>> /\ n_far_tick = 0 /\ far_first_tick = -1 /\ FirstPassInv
    BY <1>2 DEF CloseSearch, SearchInv
  <2>2. RunsFound' /\ run' = 1 /\ j' = 0 /\ first_ticks'[1] = 0
    BY <1>2, <1>a, <2>1, CloseSearchFact
  <2>3. SearchArgsOK'
    BY <1>a, <2>1 DEF SearchArgsOK, TickIds, Tick, searchArgs
  <2>4. /\ NRun' \in Nat /\ Len(first_ticks') = NRun' + 1 /\ first_ticks' \in Seq(Nat)
        /\ Len(ticks)' \in Nat
    <3>1. first_ticks' \in Seq(Nat) /\ first_ticks' # <<>>
      BY <2>2 DEF RunsFound, RunsCover
    <3>2. Len(first_ticks') \in Nat /\ Len(first_ticks') > 0
      BY <3>1
    <3> QED
      BY <2>3, <3>1, <3>2 DEF NRun, SearchArgsOK
  <2>5. NearInv'
    BY <2>1, <2>2 DEF NearInv, TickIds
  <2>6. FarInv'
    BY <2>1, <2>2 DEF FarInv
  <2>7. FarFrom(run, j, far_first_tick, n_far_tick)'
    BY <2>1, <2>2 DEF FarFrom, TickIds
  <2>8. ASSUME run' <= NRun' PROVE j' <= first_ticks'[run' + 1]
    <3>0. PICK N \in Nat : N = NRun'
      BY <2>4
    <3>1. 1 <= N /\ run' + 1 = 2
      BY <2>2, <2>8, <3>0
    <3>2. first_ticks'[2] \in Nat
      <4>1. 2 \in 1 .. N + 1
        BY <3>1
      <4>2. Len(first_ticks') = N + 1
        BY <2>4, <3>0
      <4>3. first_ticks' \in Seq(Nat)
        BY <2>4
      <4> QED
        BY <4>1, <4>2, <4>3
    <3> QED
      BY <2>2, <3>1, <3>2
  <2>9. SecondPassInv'
    <3>1. run' \in 1 .. NRun' + 1 /\ j' \in 0 .. Len(ticks)' /\ first_ticks'[run'] <= j'
      <4>1. PICK N \in Nat : N = NRun'
        BY <2>4
      <4>2. PICK W \in Nat : W = Len(ticks)'
        BY <2>4
      <4>3. 1 \in 1 .. N + 1 /\ 0 \in 0 .. W
        OBVIOUS
      <4>4. run' \in 1 .. NRun' + 1
        BY <2>2, <4>1, <4>3
      <4>5. j' \in 0 .. Len(ticks)'
        BY <2>2, <4>2, <4>3
      <4> QED
        BY <2>2, <4>4, <4>5
    <3>2. n_far_tick' = 0 /\ far_first_tick' = -1
      BY <2>1
    <3>3. n_far_tick' \in Nat /\ far_first_tick' \in Int /\ ~ n_far_tick' > 0
      BY <3>2
    <3> QED
      BY <2>2, <2>5, <2>6, <2>7, <2>8, <3>1, <3>3 DEF SecondPassInv
  <2> QED
    BY <2>2, <2>3, <2>9 DEF SearchInv, InFirstPass
<1>3. ASSUME NearInEqualRange \/ NearInf \/ NearSup \/ Far \/ RunEnd PROVE SearchInv'
  <2>1. run # 0 /\ SecondPassInv /\ UNCHANGED <<searchArgs, firstPass>>
    <3>1. run # 0
      BY <1>3 DEF NearInEqualRange, NearInf, NearSup, Far, RunEnd, InRun
    <3> QED
      BY <1>3, <3>1 DEF NearInEqualRange, NearInf, NearSup, Far, RunEnd, RegisterNear, SearchInv, InFirstPass
  <2>2. SearchArgsOK' /\ run' # 0
    <3>1. run \in Nat
      <4>1. RunsFound /\ run \in 1 .. NRun + 1
        BY <2>1 DEF SecondPassInv
      <4>2. NRun \in Nat
        BY <1>a, <4>1, RunsFact
      <4> QED
        BY <4>1, <4>2
    <3>2. run' # 0
      BY <1>3, <2>1, <3>1 DEF NearInEqualRange, NearInf, NearSup, Far, RunEnd, RegisterNear
    <3> QED
      BY <1>a, <2>1, <3>2, SecondPassKeeps
  <2> DEFINE n == inter_indices[run]
  <2>3. ASSUME NearInEqualRange \/ NearInf \/ NearSup PROVE SecondPassInv'
    <3>1. InRun
      BY <2>3 DEF NearInEqualRange, NearInf, NearSup
    <3>2. /\ j \in TickIds /\ InPart(j, n)
      BY <1>a, <2>1, <3>1, RunTick
    <3>3. /\ n \in Nat /\ Tick(j) \in Nat /\ inter[n + 1] \in Nat /\ inter[n + 2] \in Nat
          /\ Abs(Tick(j) - inter[n + 1]) = Tick(j) - inter[n + 1]
          /\ Abs(Tick(j) - inter[n + 2]) = inter[n + 2] - Tick(j)
      BY <1>a, <3>2, KnotFact
    <3>4. /\ eq /\ n % 2 = 1 =>
               Knot(j) = IF Tick(j) - inter[n + 1] <= inter[n + 2] - Tick(j) THEN n ELSE n + 1
          /\ ~ (eq /\ n % 2 = 1) =>
               Knot(j) = IF Tick(j) - inter[n + 1] <= max_distance THEN n
                         ELSE IF inter[n + 2] - Tick(j) <= max_distance THEN n + 1 ELSE -1
      BY <1>a, <3>2, KnotFact
    <3>5. max_distance \in Nat
      BY <1>a DEF SearchArgsOK
    <3>6. Inf = inter[n + 1] /\ Sup = inter[n + 2] /\ (IsEqualRange <=> eq /\ n % 2 = 1)
      BY DEF Inf, Sup, IsEqualRange
    <3> HIDE DEF n
    <3>7. CASE NearInEqualRange
      <4>1. RegisterNear(n + IF Tick(j) - Inf <= Sup - Tick(j) THEN 0 ELSE 1) /\ IsEqualRange
        BY <3>7 DEF NearInEqualRange, n
      <4>2. n + (IF Tick(j) - Inf <= Sup - Tick(j) THEN 0 ELSE 1) = Knot(j) /\ Knot(j) \in {n, n + 1}
        BY <3>3, <3>4, <3>6, <4>1
      <4>3. Knot(j) # -1 /\ Knot(j) \in Int
        BY <3>3, <4>2
      <4> QED
        BY <1>a, <2>1, <3>1, <4>1, <4>2, <4>3, NearStep
    <3>8. CASE NearInf
      <4>1. RegisterNear(n) /\ ~IsEqualRange /\ Abs(Tick(j) - Inf) <= max_distance
        BY <3>8 DEF NearInf, n
      <4>2. n = Knot(j)
        BY <3>3, <3>4, <3>6, <4>1
      <4>3. n # -1 /\ n \in Int
        BY <3>3
      <4> QED
        BY <1>a, <2>1, <3>1, <4>1, <4>2, <4>3, NearStep
    <3>9. CASE NearSup
      <4>1. /\ RegisterNear(n + 1) /\ ~IsEqualRange /\ Abs(Tick(j) - Inf) > max_distance
            /\ Abs(Tick(j) - Sup) <= max_distance
        BY <3>9 DEF NearSup, n
      <4>2. n + 1 = Knot(j)
        BY <3>3, <3>4, <3>5, <3>6, <4>1
      <4>3. n + 1 # -1 /\ n + 1 \in Int
        BY <3>3
      <4> QED
        BY <1>a, <2>1, <3>1, <4>1, <4>2, <4>3, NearStep
    <3> QED
      BY <2>3, <3>7, <3>8, <3>9
  <2>4. SecondPassInv'
    BY <1>3, <1>a, <2>1, <2>3, FarStep, RunEndStep
  <2> QED
    BY <2>2, <2>4 DEF SearchInv, InFirstPass
<1>4. ASSUME UNCHANGED searchVars PROVE SearchInv'
  <2>1. UNCHANGED <<searchArgs, firstPass>> /\ UNCHANGED secondPass
    BY <1>4 DEF searchVars
  <2>2. UNCHANGED <<ticks, inter, max_distance, eq, k, i, first_ticks, inter_indices,
                    run, j, far_first_tick, n_far_tick, far, near>>
    BY <2>1 DEF searchArgs, firstPass, secondPass
  <2>3. SearchArgsOK' /\ (InFirstPass' <=> InFirstPass) /\ (RunsFound' <=> RunsFound) /\ NRun' = NRun
    BY <1>a, <2>1, <2>2, SecondPassKeeps DEF InFirstPass
  <2>4. FirstPassInv' <=> FirstPassInv
    BY <2>2 DEF FirstPassInv, RunsCover, InPart, Parts, PartAt, Tick, TickIds
  <2>5. SecondPassInv' <=> SecondPassInv
    BY <2>2, <2>3 DEF SecondPassInv, NearInv, FarInv, FarFrom, Knot, PartAt, Tick, TickIds
  <2> QED
    BY <2>2, <2>3, <2>4, <2>5 DEF SearchInv
<1> QED
  BY <1>1, <1>2, <1>3, <1>4 DEF SearchNext
LEMMA SearchInitInv == ASSUME SearchInit PROVE SearchInv
<1>1. SearchArgsOK /\ InFirstPass /\ FirstPassInv
  BY SearchInitArgs
<1>2. far = <<>> /\ near = <<>> /\ n_far_tick = 0 /\ far_first_tick = -1
  BY DEF SearchInit
<1> QED
  BY <1>1, <1>2 DEF SearchInv

\* Every tick is in a run, and in one only.
LEMMA RunOfTick ==
  ASSUME SearchArgsOK, RunsFound, NEW t \in TickIds
  PROVE  \E r \in 1 .. NRun :
           /\ first_ticks[r] <= t /\ t < first_ticks[r + 1] /\ InPart(t, inter_indices[r])
           /\ \A u \in 1 .. NRun : PartAt(t) = inter_indices[u] => u = r
<1>0. PICK N \in Nat : N = NRun
  BY RunsFact
<1>1. /\ \A r \in 1 .. N + 1 : first_ticks[r] \in 0 .. Len(ticks) /\ inter_indices[r] \in Nat
      /\ first_ticks[1] = 0 /\ first_ticks[N + 1] = Len(ticks)
      /\ \A a, b \in 1 .. N + 1 : a < b => inter_indices[a] < inter_indices[b]
      /\ t \in Nat /\ t < Len(ticks)
  <2>1. /\ \A r \in 1 .. N + 1 : first_ticks[r] \in 0 .. Len(ticks) /\ inter_indices[r] \in Nat
        /\ first_ticks[1] = 0 /\ first_ticks[N + 1] = Len(ticks)
        /\ \A a, b \in 1 .. N + 1 : a < b => inter_indices[a] < inter_indices[b]
    BY <1>0, RunsFact
  <2>2. t \in Nat /\ t < Len(ticks)
    BY DEF TickIds, SearchArgsOK
  <2> QED
    BY <2>1, <2>2
<1> DEFINE S == {q \in 1 .. N + 1 : t < first_ticks[q]}
<1>2. S \in SUBSET Nat /\ N + 1 \in S
  BY <1>1
<1>3. PICK q \in S : \A m \in S : q <= m
  BY <1>2, LeastNatural
<1>4. q \in 2 .. N + 1 /\ t < first_ticks[q]
  BY <1>1, <1>3
<1>5. PICK r \in 1 .. N : r + 1 = q
  <2>1. q - 1 \in 1 .. N /\ (q - 1) + 1 = q
    BY <1>4
  <2> QED
    BY <2>1
<1>6. first_ticks[r] <= t
  <2>1. r \in 1 .. N + 1 /\ ~ (q <= r)
    BY <1>4, <1>5
  <2>2. ~ (t < first_ticks[r])
    BY <1>3, <2>1
  <2> QED
    BY <1>1, <2>1, <2>2
<1>7. t < first_ticks[r + 1]
  BY <1>4, <1>5
<1>8. InPart(t, inter_indices[r])
  BY <1>0, <1>6, <1>7, RunsFact
<1>9. ASSUME NEW u \in 1 .. N, PartAt(t) = inter_indices[u] PROVE u = r
  <2>1. inter_indices[u] = inter_indices[r]
    BY <1>8, <1>9 DEF InPart
  <2>2. u \in 1 .. N + 1 /\ r \in 1 .. N + 1
    OBVIOUS
  <2>3. ~ (u < r) /\ ~ (r < u)
    BY <1>1, <2>1, <2>2
  <2> QED
    BY <2>2, <2>3
<1> QED
  BY <1>0, <1>6, <1>7, <1>8, <1>9

\* A tick is in the part of the ticks before it, or in a later one.
LEMMA PartsInOrder ==
  ASSUME SearchArgsOK, RunsFound, NEW s \in TickIds, NEW t \in TickIds, s <= t
  PROVE  \E m, n \in Nat : InPart(s, m) /\ InPart(t, n) /\ m <= n
<1>0. PICK N \in Nat : N = NRun
  BY RunsFact
<1>1. /\ \A r \in 1 .. N + 1 : first_ticks[r] \in Nat /\ inter_indices[r] \in Nat
      /\ \A a, b \in 1 .. N + 1 :
           a < b => first_ticks[a] < first_ticks[b] /\ inter_indices[a] < inter_indices[b]
  BY <1>0, RunsFact
<1>2. PICK u \in 1 .. N : first_ticks[u] <= s /\ InPart(s, inter_indices[u])
  BY <1>0, RunOfTick
<1>3. PICK q \in 1 .. N : t < first_ticks[q + 1] /\ InPart(t, inter_indices[q])
  BY <1>0, RunOfTick
<1>4. u <= q
  <2>1. SUFFICES ASSUME q < u PROVE FALSE
    OBVIOUS
  <2>2. q + 1 \in 1 .. N + 1 /\ u \in 1 .. N + 1 /\ (q + 1 = u \/ q + 1 < u)
    BY <2>1
  <2>3. first_ticks[q + 1] <= first_ticks[u] /\ first_ticks[u] \in Nat /\ first_ticks[q + 1] \in Nat
    BY <1>1, <2>2
  <2>4. s \in Nat /\ t \in Nat
    BY DEF TickIds
  <2> QED
    BY <1>2, <1>3, <2>3, <2>4
<1>5. u \in 1 .. N + 1 /\ q \in 1 .. N + 1 /\ (u = q \/ u < q)
  BY <1>4
<1>6. inter_indices[u] \in Nat /\ inter_indices[q] \in Nat /\ inter_indices[u] <= inter_indices[q]
  BY <1>1, <1>5
<1> QED
  BY <1>2, <1>3, <1>6

LEMMA RunsFoundAreIntervals == ASSUME SearchArgsOK, RunsFound PROVE RunsAreIntervals
<1>0. PICK N \in Nat : N = NRun
  BY RunsFact
<1>1. /\ \A r \in 1 .. N + 1 : first_ticks[r] \in 0 .. Len(ticks)
      /\ \A a, b \in 1 .. N + 1 :
           a < b => first_ticks[a] < first_ticks[b] /\ inter_indices[a] < inter_indices[b]
      /\ \A r \in 1 .. N, t \in TickIds :
           first_ticks[r] <= t /\ t < first_ticks[r + 1] => InPart(t, inter_indices[r])
      /\ Len(ticks) \in Nat
  BY <1>0, RunsFact
<1>2. SUFFICES ASSUME NEW r \in 1 .. N
               PROVE  /\ first_ticks[r] < first_ticks[r + 1] /\ inter_indices[r] < inter_indices[r + 1]
                      /\ \A t \in first_ticks[r] .. first_ticks[r + 1] - 1 :
                           inter_indices[r] = ContainingInterval(Tick(t), inter)
  BY <1>0 DEF RunsAreIntervals, NRun
<1>3. r \in 1 .. N + 1 /\ r + 1 \in 1 .. N + 1 /\ r < r + 1
  OBVIOUS
<1>4. ASSUME NEW t \in first_ticks[r] .. first_ticks[r + 1] - 1
      PROVE  inter_indices[r] = ContainingInterval(Tick(t), inter)
  <2>1. first_ticks[r] \in 0 .. Len(ticks) /\ first_ticks[r + 1] \in 0 .. Len(ticks)
    BY <1>1, <1>3
  <2>2. t \in TickIds /\ first_ticks[r] <= t /\ t < first_ticks[r + 1]
    BY <1>1, <2>1 DEF TickIds
  <2>3. InPart(t, inter_indices[r])
    BY <1>1, <2>2
  <2> QED
    BY <2>3 DEF InPart, PartAt
<1> QED
  BY <1>1, <1>3, <1>4

LEMMA FarTicksFact ==
  ASSUME NEW n
  PROVE  FarTicks(ticks, inter, max_distance, eq, n) = {t \in TickIds : PartAt(t) = n /\ Knot(t) = -1}
BY DEF FarTicks, TickIds, PartAt, Knot, Tick

LEMMA NearTicksFact ==
  NearTicks(ticks, inter, max_distance, eq) = {t \in TickIds : Knot(t) # -1}
BY DEF NearTicks, TickIds, PartAt, Knot, Tick

\* When all the runs are sorted, the groups of far ticks are those of the runs.
LEMMA FoundFarTicks == ASSUME SearchArgsOK, SecondPassInv, Found PROVE FarTicksAreGroups
<1> DEFINE FarOf(n) == FarTicks(ticks, inter, max_distance, eq, n)
<1>r. RunsFound
  BY DEF SecondPassInv
<1>0. PICK N \in Nat : N = NRun
  BY <1>r, RunsFact
<1>1. RunsFound /\ run - 1 = N
  BY <1>0 DEF SecondPassInv, Found, NRun
<1>2. \A f \in 1 .. Len(far) : /\ far[f][2] > 0
                              /\ \E r \in 1 .. N :
                                   /\ far[f][3] = inter_indices[r]
                                   /\ FarFrom(r, first_ticks[r + 1], far[f][1], far[f][2])
  BY <1>1 DEF SecondPassInv, FarInv
<1>3. \A r \in 1 .. N, t \in TickIds :
        first_ticks[r] <= t /\ t < first_ticks[r + 1] /\ Knot(t) = -1
          => \E f \in 1 .. Len(far) : far[f][3] = inter_indices[r]
  BY <1>1 DEF SecondPassInv, FarInv
<1>4. /\ \A r \in 1 .. N + 1 : first_ticks[r] \in 0 .. Len(ticks)
      /\ \A r \in 1 .. N, t \in TickIds :
           first_ticks[r] <= t /\ t < first_ticks[r + 1] => InPart(t, inter_indices[r])
      /\ Len(ticks) \in Nat
  BY <1>0, <1>1, RunsFact
<1>5. ASSUME NEW f \in 1 .. Len(far)
      PROVE  FarOf(far[f][3]) = far[f][1] .. far[f][1] + far[f][2] - 1
             /\ far[f][3] \in Parts /\ FarOf(far[f][3]) # {}
  <2>1. PICK r \in 1 .. N : /\ far[f][3] = inter_indices[r]
                            /\ FarFrom(r, first_ticks[r + 1], far[f][1], far[f][2])
    BY <1>2
  <2>2. PICK a \in Nat, b \in Nat : a = far[f][1] /\ b = far[f][2]
    <3>1. far \in Seq(Nat \X Nat \X Nat)
      BY DEF SecondPassInv, FarInv
    <3>2. far[f] \in Nat \X Nat \X Nat
      BY <3>1
    <3> QED
      BY <3>2
  <2>3. PICK c \in 0 .. Len(ticks), d \in 0 .. Len(ticks) : c = first_ticks[r] /\ d = first_ticks[r + 1]
    <3>1. r \in 1 .. N + 1 /\ r + 1 \in 1 .. N + 1
      OBVIOUS
    <3> QED
      BY <1>4, <3>1
  <2>4. /\ b > 0 /\ c <= a /\ a + b <= d
        /\ \A t \in TickIds : c <= t /\ t < d => (Knot(t) = -1 <=> a <= t /\ t < a + b)
    BY <1>2, <2>1, <2>2, <2>3 DEF FarFrom
  <2>5. ASSUME NEW t \in FarOf(inter_indices[r]) PROVE t \in a .. a + b - 1
    <3>1. t \in TickIds /\ PartAt(t) = inter_indices[r] /\ Knot(t) = -1
      BY FarTicksFact
    <3>2. c <= t /\ t < d
      <4>1. PICK u \in 1 .. N : /\ first_ticks[u] <= t /\ t < first_ticks[u + 1]
                                /\ \A v \in 1 .. N : PartAt(t) = inter_indices[v] => v = u
        BY <1>0, <1>1, <3>1, RunOfTick
      <4>2. r = u
        BY <3>1, <4>1
      <4> QED
        BY <2>3, <4>1, <4>2
    <3>3. a <= t /\ t < a + b
      BY <2>4, <3>1, <3>2
    <3>4. t \in Nat
      BY <3>1 DEF TickIds
    <3> QED
      BY <3>3, <3>4
  <2>6. ASSUME NEW t \in a .. a + b - 1 PROVE t \in FarOf(inter_indices[r]) /\ inter_indices[r] \in Parts
    <3>1. t \in Nat /\ c <= t /\ t < d /\ a <= t /\ t < a + b
      BY <2>4
    <3>2. t \in TickIds
      BY <1>4, <3>1 DEF TickIds
    <3>3. Knot(t) = -1
      BY <2>4, <3>1, <3>2
    <3>4. InPart(t, inter_indices[r])
      BY <1>4, <2>3, <3>1, <3>2
    <3> QED
      BY <3>2, <3>3, <3>4, FarTicksFact DEF InPart
  <2>7. a \in a .. a + b - 1
    BY <2>4
  <2> HIDE DEF FarOf
  <2>8. FarOf(inter_indices[r]) = a .. a + b - 1
    BY <2>5, <2>6
  <2> QED
    BY <2>1, <2>2, <2>6, <2>7, <2>8
<1>6. ASSUME NEW n \in Parts, FarOf(n) # {} PROVE \E f \in 1 .. Len(far) : far[f][3] = n
  <2>1. PICK t \in TickIds : PartAt(t) = n /\ Knot(t) = -1
    BY <1>6, FarTicksFact
  <2>2. PICK r \in 1 .. N : /\ first_ticks[r] <= t /\ t < first_ticks[r + 1]
                            /\ InPart(t, inter_indices[r])
    BY <1>0, <1>1, RunOfTick
  <2>3. inter_indices[r] = n
    BY <2>1, <2>2 DEF InPart
  <2> QED
    BY <1>3, <2>1, <2>2, <2>3
<1>7. {far[f][3] : f \in 1 .. Len(far)} = {n \in Parts : FarOf(n) # {}}
  <2> HIDE DEF FarOf
  <2> QED
    BY <1>5, <1>6
<1> QED
  BY <1>5, <1>7 DEF FarTicksAreGroups, Parts

LEMMA FoundNearTicks == ASSUME SearchArgsOK, SecondPassInv, Found PROVE NearTicksAreRegistered
<1>1. RunsFound /\ j = Len(ticks) /\ j \in Nat
  <2>1. /\ RunsFound /\ run = NRun + 1 /\ j \in 0 .. Len(ticks) /\ first_ticks[run] <= j
        /\ Len(ticks) \in Nat
    <3>1. RunsFound /\ j \in 0 .. Len(ticks) /\ first_ticks[run] <= j /\ run = Len(first_ticks)
      BY DEF SecondPassInv, Found
    <3> QED
      BY <3>1, RunsFact
  <2>2. first_ticks[run] = Len(ticks)
    BY <2>1, RunsFact
  <2> QED
    BY <2>1, <2>2
<1>2. \A m \in 1 .. Len(near) : /\ near[m][1] \in TickIds /\ near[m][2] = Knot(near[m][1])
                               /\ near[m][2] # -1
  BY DEF SecondPassInv, NearInv
<1>3. \A m, n \in 1 .. Len(near) : m < n => near[m][1] < near[n][1]
  BY DEF SecondPassInv, NearInv
<1>4. \A t \in TickIds : Knot(t) # -1 => \E m \in 1 .. Len(near) : near[m][1] = t
  <2>1. \A t \in TickIds : t < j
    BY <1>1 DEF TickIds
  <2> QED
    BY <2>1 DEF SecondPassInv, NearInv
<1>5. {near[m][1] : m \in 1 .. Len(near)} = NearTicks(ticks, inter, max_distance, eq)
  <2>1. {near[m][1] : m \in 1 .. Len(near)} = {t \in TickIds : Knot(t) # -1}
    BY <1>2, <1>4
  <2> QED
    BY <2>1, NearTicksFact
<1>6. ASSUME NEW m \in 1 .. Len(near), NEW n \in 1 .. Len(near), m < n
      PROVE  inter[near[m][2] + 1] <= inter[near[n][2] + 1]
  <2> DEFINE s == near[m][1]
             t == near[n][1]
  <2>1. s \in TickIds /\ t \in TickIds /\ s < t /\ Knot(s) # -1 /\ Knot(t) # -1
    BY <1>2, <1>3, <1>6
  <2>2. near[m][2] = Knot(s) /\ near[n][2] = Knot(t)
    BY <1>2
  <2> HIDE DEF s, t
  <2>3. s <= t
    BY <2>1 DEF TickIds
  <2>4. PICK u \in Nat, v \in Nat : InPart(s, u) /\ InPart(t, v) /\ u <= v
    BY <1>1, <2>1, <2>3, PartsInOrder
  <2>5. inter[Knot(s) + 1] <= inter[Knot(t) + 1]
    BY <2>1, <2>3, <2>4, KnotsInOrder
  <2> QED
    BY <2>2, <2>5
<1>7. \A m \in 1 .. Len(near) :
        near[m][2] = NearKnot(Tick(near[m][1]), inter,
                              ContainingInterval(Tick(near[m][1]), inter), max_distance, eq)
  BY <1>2 DEF Knot, PartAt
<1> QED
  BY <1>3, <1>5, <1>6, <1>7 DEF NearTicksAreRegistered

LEMMA SearchInvFinds == ASSUME SearchInv PROVE SearchInvariant /\ TicksAreFound
<1>1. CASE InFirstPass
  <2>1. /\ k \in Parts /\ i < Len(ticks) => inter[k + 1] <= Tick(i)
        /\ Len(inter) \in Nat
    BY <1>1 DEF SearchInv, FirstPassInv, SearchArgsOK
  <2>2. k + 1 < Len(inter)
    BY <1>1 DEF SearchInv, FirstPassInv, SearchArgsOK, Parts
  <2>3. ~ Found
    BY <1>1 DEF Found, InFirstPass
  <2>4. i < Len(ticks) => inter[k + 1] <= Tick(i)
    BY <1>1 DEF SearchInv, FirstPassInv
  <2> QED
    BY <1>1, <2>2, <2>3, <2>4 DEF SearchInvariant, TicksAreFound
<1>2. CASE ~InFirstPass
  <2>1. SearchArgsOK /\ SecondPassInv /\ RunsFound
    BY <1>2 DEF SearchInv, SecondPassInv
  <2> QED
    BY <1>2, <2>1, RunsFoundAreIntervals, FoundFarTicks, FoundNearTicks DEF SearchInvariant, TicksAreFound
<1> QED
  BY <1>1, <1>2

(* The search stays inside the intervals, and at its end every tick is near or  *)
(* far, once, at the knot or in the interval that sort_by_rank expects: for any *)
(* number of ticks and intervals (search_near_or_containing_interval).          *)
THEOREM SearchCorrect == SearchSpec => [](SearchInvariant /\ TicksAreFound)
<1>1. SearchInit => SearchInv
  BY SearchInitInv
<1>2. SearchInv /\ [SearchNext]_searchVars => SearchInv'
  BY SearchStepInv
<1>3. SearchInv => SearchInvariant /\ TicksAreFound
  BY SearchInvFinds
<1> QED
  BY <1>1, <1>2, <1>3, PTL DEF SearchSpec

-----------------------------------------------------------------------------
(* quicksort. Key(s, pos) is what the element at a position is compared by.     *)
NKey == Len(keys)
Key(s, pos) == keys[s[pos + 1]]
Calls == [first : Nat, last : Nat, k : Nat]
\* The elements before position e are not more than the others.
Divided(s, e) == \A a \in 0 .. e - 1, b \in e .. NKey - 1 : Key(s, a) <= Key(s, b)
IsArrangement(s) ==
  /\ s \in [1 .. NKey -> 1 .. NKey]
  /\ \A v \in 1 .. NKey : \E pos \in 1 .. NKey : s[pos] = v

SortTypeOK ==
  /\ NKey \in Nat /\ NKey <= MaxSorted
  /\ keys \in [1 .. NKey -> Int]
  /\ IsArrangement(sorted)
  /\ frames \in Seq(Calls)
  /\ inserted \in 0 .. NKey
  /\ NKey > 0 => inserted > 0
  /\ frames # <<>> => inserted = 1
\* Each turn of the loop leaves a smaller part.
CallsInv ==
  \A f \in 1 .. Len(frames) :
    /\ frames[f].first <= frames[f].last /\ frames[f].last <= NKey
    /\ frames[f].k + (frames[f].last - frames[f].first) <= NKey
\* One of the elements before e is the least; there are few, or one call has them.
LeastInv ==
  NKey > 0 =>
    \E e \in 1 .. NKey :
      /\ Divided(sorted, e)
      /\ e <= Threshold \/ \E f \in 1 .. Len(frames) : frames[f].first = 0 /\ frames[f].last = e
      /\ \A f \in 1 .. Len(frames) : frames[f].first >= e \/ (frames[f].first = 0 /\ frames[f].last <= e)
      /\ \A f, g \in 1 .. Len(frames) : frames[f].first < e /\ frames[g].first < e => f = g
\* What the scans have passed, and where they have stopped.
Scans(s, c, first, last) ==
  /\ c.pivot \in 1 .. NKey
  /\ c.up \in first .. last - 1 /\ c.down \in first .. last - 1
  /\ \A pos \in first .. c.up - 1 : Key(s, pos) <= keys[c.pivot]
  /\ \A pos \in c.down + 1 .. last - 1 : keys[c.pivot] <= Key(s, pos)
  /\ keys[c.pivot] <= Key(s, c.up) /\ Key(s, c.down) <= keys[c.pivot]
ScanInv ==
  crossing # <<>> =>
    /\ frames # <<>> /\ Innermost.last - Innermost.first > Threshold
    /\ DOMAIN crossing = {1}
    /\ Scans(sorted, crossing[1], Innermost.first, Innermost.last)
PrefixInv == \A a, b \in 0 .. inserted - 1 : a < b => Key(sorted, a) <= Key(sorted, b)
QuickSortInv == SortTypeOK /\ CallsInv /\ LeastInv /\ ScanInv /\ PrefixInv

\* The loop has a turn left for each part that is still large.
TurnsLeft == frames # <<>> /\ Innermost.last - Innermost.first > Threshold => Innermost.k < MaxLoop

LEMMA LeastOf ==
  ASSUME NEW S, NEW m \in Int, \A n \in S : n \in Int /\ m <= n, S # {}
  PROVE  Min(S) \in S /\ \A n \in S : Min(S) <= n
<1> DEFINE T == {n - m : n \in S}
<1>1. T \in SUBSET Nat /\ T # {}
  OBVIOUS
<1>2. PICK u \in T : \A v \in T : u <= v
  BY <1>1, LeastNatural
<1>3. PICK a \in S : u = a - m
  BY <1>2
<1>4. ASSUME NEW n \in S PROVE a <= n
  <2>1. u <= n - m
    BY <1>2
  <2> QED
    BY <1>3, <2>1
<1> QED
  BY <1>3, <1>4 DEF Min

LEMMA GreatestOf ==
  ASSUME NEW S, NEW m \in Int, \A n \in S : n \in Int /\ n <= m, S # {}
  PROVE  Max(S) \in S /\ \A n \in S : n <= Max(S)
<1> DEFINE T == {m - n : n \in S}
<1>1. T \in SUBSET Nat /\ T # {}
  OBVIOUS
<1>2. PICK u \in T : \A v \in T : u <= v
  BY <1>1, LeastNatural
<1>3. PICK a \in S : u = m - a
  BY <1>2
<1>4. ASSUME NEW n \in S PROVE n <= a
  <2>1. u <= m - n
    BY <1>2
  <2> QED
    BY <1>3, <2>1
<1>5. \A n \in S : a >= n
  BY <1>3, <1>4
<1>6. /\ Max(S) \in S /\ \A n \in S : Max(S) >= n
  BY <1>5 DEF Max
<1> QED
  BY <1>6

\* A scan up stops at an element that is not less than the pivot, if it meets one.
LEMMA AscendFact ==
  ASSUME NEW n \in Nat, NEW s \in [1 .. n -> 1 .. n], Len(s) = n, keys \in [1 .. n -> Int],
         NEW pivot \in 1 .. n, NEW from \in Nat, NEW u \in from .. n - 1,
         keys[pivot] <= Key(s, u)
  PROVE  /\ Ascend(s, from, pivot) \in from .. u
         /\ keys[pivot] <= Key(s, Ascend(s, from, pivot))
         /\ \A pos \in from .. Ascend(s, from, pivot) - 1 : Key(s, pos) <= keys[pivot]
<1> DEFINE S == {pos \in from .. n - 1 : ~Less(ElementAt(s, pos), pivot)} \cup {n}
           m == Ascend(s, from, pivot)
<1>1. m = Min(S)
  BY DEF Ascend
<1>2. ASSUME NEW pos \in 0 .. n - 1 PROVE Key(s, pos) \in Int
  <2>1. pos + 1 \in 1 .. n
    OBVIOUS
  <2>2. s[pos + 1] \in 1 .. n
    BY <2>1
  <2> QED
    BY <2>2 DEF Key
<1>3. keys[pivot] \in Int
  OBVIOUS
<1>4. ASSUME NEW pos \in 0 .. n - 1
      PROVE  ~Less(ElementAt(s, pos), pivot) <=> keys[pivot] <= Key(s, pos)
  <2>1. Less(ElementAt(s, pos), pivot) <=> Key(s, pos) < keys[pivot]
    BY DEF Less, ElementAt, Key
  <2> QED
    BY <1>2, <1>3, <2>1
<1>5. u \in S
  BY <1>4
<1>6. \A v \in S : v \in Int /\ from <= v
  OBVIOUS
<1>7. m \in S /\ \A v \in S : m <= v
  <2> HIDE DEF S, m
  <2>1. from \in Int /\ S # {}
    BY <1>5
  <2> QED
    BY <1>1, <1>6, <2>1, LeastOf
<1>8. m <= u /\ m \in from .. n - 1
  <2>1. m <= u
    BY <1>5, <1>7
  <2> HIDE DEF m
  <2> QED
    BY <1>7, <2>1
<1>9. keys[pivot] <= Key(s, m)
  <2> HIDE DEF m
  <2> QED
    BY <1>4, <1>7, <1>8
<1>10. ASSUME NEW pos \in from .. m - 1 PROVE Key(s, pos) <= keys[pivot]
  <2> HIDE DEF m
  <2>1. pos \in 0 .. n - 1 /\ pos \in from .. n - 1 /\ ~ (m <= pos)
    BY <1>8
  <2>2. pos \notin S
    BY <1>7, <2>1
  <2>3. ~ (keys[pivot] <= Key(s, pos))
    BY <1>4, <2>1, <2>2
  <2> QED
    BY <1>2, <1>3, <2>1, <2>3
<1> QED
  <2> HIDE DEF m
  <2>1. m \in from .. u
    BY <1>8
  <2> QED
    BY <1>9, <1>10, <2>1 DEF m

LEMMA DescendFact ==
  ASSUME NEW n \in Nat, NEW s \in [1 .. n -> 1 .. n], keys \in [1 .. n -> Int],
         NEW pivot \in 1 .. n, NEW from \in 0 .. n - 1, NEW u \in 0 .. from,
         Key(s, u) <= keys[pivot]
  PROVE  /\ Descend(s, from, pivot) \in u .. from
         /\ Key(s, Descend(s, from, pivot)) <= keys[pivot]
         /\ \A pos \in Descend(s, from, pivot) + 1 .. from : keys[pivot] <= Key(s, pos)
<1> DEFINE S == {pos \in 0 .. from : ~Less(pivot, ElementAt(s, pos))} \cup {-1}
           m == Descend(s, from, pivot)
<1>1. m = Max(S)
  BY DEF Descend
<1>2. ASSUME NEW pos \in 0 .. n - 1 PROVE Key(s, pos) \in Int
  <2>1. pos + 1 \in 1 .. n
    OBVIOUS
  <2>2. s[pos + 1] \in 1 .. n
    BY <2>1
  <2> QED
    BY <2>2 DEF Key
<1>3. keys[pivot] \in Int
  OBVIOUS
<1>4. ASSUME NEW pos \in 0 .. n - 1
      PROVE  ~Less(pivot, ElementAt(s, pos)) <=> Key(s, pos) <= keys[pivot]
  <2>1. Less(pivot, ElementAt(s, pos)) <=> keys[pivot] < Key(s, pos)
    BY DEF Less, ElementAt, Key
  <2> QED
    BY <1>2, <1>3, <2>1
<1>5. u \in S
  BY <1>4
<1>6. \A v \in S : v \in Int /\ v <= from
  OBVIOUS
<1>7. m \in S /\ \A v \in S : v <= m
  <2> HIDE DEF S, m
  <2>1. from \in Int /\ S # {}
    BY <1>5
  <2> QED
    BY <1>1, <1>6, <2>1, GreatestOf
<1>8. u <= m /\ m \in 0 .. from
  <2>1. u <= m
    BY <1>5, <1>7
  <2> HIDE DEF m
  <2> QED
    BY <1>7, <2>1
<1>9. Key(s, m) <= keys[pivot]
  <2> HIDE DEF m
  <2>1. m \in 0 .. n - 1 /\ m # -1
    BY <1>8
  <2> QED
    BY <1>4, <1>7, <2>1
<1>10. ASSUME NEW pos \in m + 1 .. from PROVE keys[pivot] <= Key(s, pos)
  <2> HIDE DEF m
  <2>1. pos \in 0 .. n - 1 /\ pos \in 0 .. from /\ ~ (pos <= m)
    BY <1>8
  <2>2. pos \notin S
    BY <1>7, <2>1
  <2>3. ~ (Key(s, pos) <= keys[pivot])
    BY <1>4, <2>1, <2>2
  <2> QED
    BY <1>2, <1>3, <2>1, <2>3
<1> QED
  <2> HIDE DEF m
  <2>1. m \in u .. from
    BY <1>8
  <2> QED
    BY <1>9, <1>10, <2>1 DEF m

\* Two elements are swapped.
LEMMA SwapFact ==
  ASSUME NEW s, IsArrangement(s), NKey \in Nat, NEW a \in 0 .. NKey - 1, NEW b \in 0 .. NKey - 1
  PROVE  /\ IsArrangement(IterSwap(s, a, b))
         /\ Key(IterSwap(s, a, b), a) = Key(s, b) /\ Key(IterSwap(s, a, b), b) = Key(s, a)
         /\ ElementAt(IterSwap(s, a, b), a) = ElementAt(s, b)
         /\ \A pos \in 0 .. NKey - 1 : pos # a /\ pos # b => Key(IterSwap(s, a, b), pos) = Key(s, pos)
<1> DEFINE w == IterSwap(s, a, b)
<1>1. s \in [1 .. NKey -> 1 .. NKey] /\ a + 1 \in 1 .. NKey /\ b + 1 \in 1 .. NKey
  BY DEF IsArrangement
<1>2. /\ w \in [1 .. NKey -> 1 .. NKey]
      /\ w[a + 1] = s[b + 1] /\ w[b + 1] = s[a + 1]
      /\ \A q \in 1 .. NKey : q # a + 1 /\ q # b + 1 => w[q] = s[q]
  BY <1>1 DEF IterSwap
<1> HIDE DEF w
<1>3. ASSUME NEW v \in 1 .. NKey PROVE \E q \in 1 .. NKey : w[q] = v
  <2>1. PICK q \in 1 .. NKey : s[q] = v
    BY DEF IsArrangement
  <2> QED
    BY <1>1, <1>2, <2>1
<1>4. ASSUME NEW pos \in 0 .. NKey - 1, pos # a, pos # b PROVE w[pos + 1] = s[pos + 1]
  <2>1. pos + 1 \in 1 .. NKey /\ pos + 1 # a + 1 /\ pos + 1 # b + 1
    BY <1>4
  <2> QED
    BY <1>2, <2>1
<1> QED
  BY <1>2, <1>3, <1>4 DEF IsArrangement, Key, ElementAt, w

\* The elements change places on each side of e only.
LEMMA DividedMoves ==
  ASSUME NKey \in Nat, NEW e \in 0 .. NKey, NEW s, NEW w, Divided(s, e),
         \A pos \in 0 .. NKey - 1 : \E q \in 0 .. NKey - 1 : Key(w, pos) = Key(s, q) /\ (pos < e <=> q < e)
  PROVE  Divided(w, e)
<1>1. SUFFICES ASSUME NEW a \in 0 .. e - 1, NEW b \in e .. NKey - 1 PROVE Key(w, a) <= Key(w, b)
  BY DEF Divided
<1>2. a \in 0 .. NKey - 1 /\ b \in 0 .. NKey - 1 /\ a < e /\ ~ (b < e)
  OBVIOUS
<1>3. PICK u \in 0 .. NKey - 1 : Key(w, a) = Key(s, u) /\ (a < e <=> u < e)
  BY <1>2
<1>4. PICK v \in 0 .. NKey - 1 : Key(w, b) = Key(s, v) /\ (b < e <=> v < e)
  BY <1>2
<1>5. u \in 0 .. e - 1 /\ v \in e .. NKey - 1
  BY <1>2, <1>3, <1>4
<1>6. Key(s, u) <= Key(s, v)
  BY <1>5 DEF Divided
<1> QED
  BY <1>3, <1>4, <1>6

LEMMA InnermostFact ==
  ASSUME SortTypeOK, CallsInv, frames # <<>>
  PROVE  /\ Len(frames) \in Nat \ {0} /\ Innermost = frames[Len(frames)] /\ Innermost \in Calls
         /\ Innermost.first \in Nat /\ Innermost.last \in Nat /\ Innermost.k \in Nat
         /\ Innermost.first <= Innermost.last /\ Innermost.last <= NKey
         /\ Innermost.k + (Innermost.last - Innermost.first) <= NKey
         /\ NKey \in Nat /\ Threshold \in Nat \ {0} /\ inserted = 1
<1>1. frames \in Seq(Calls)
  BY DEF SortTypeOK
<1>2. Len(frames) \in Nat \ {0} /\ Innermost = frames[Len(frames)] /\ Innermost \in Calls
  BY <1>1 DEF Innermost, Last
<1>3. Innermost.first \in Nat /\ Innermost.last \in Nat /\ Innermost.k \in Nat
  BY <1>2 DEF Calls
<1>4. Len(frames) \in 1 .. Len(frames)
  BY <1>2
<1> QED
  BY <1>2, <1>3, <1>4, QuickSortAssumption DEF CallsInv, SortTypeOK

\* A swap inside of the current part.
LEMMA SwapKeeps ==
  ASSUME SortTypeOK, CallsInv, LeastInv, frames # <<>>,
         NEW a \in Innermost.first .. Innermost.last - 1, NEW b \in Innermost.first .. Innermost.last - 1,
         sorted' = IterSwap(sorted, a, b), UNCHANGED <<keys, frames, inserted>>
  PROVE  SortTypeOK' /\ CallsInv' /\ LeastInv' /\ PrefixInv'
<1>0. /\ NKey \in Nat /\ inserted = 1 /\ Len(frames) \in Nat \ {0} /\ Innermost = frames[Len(frames)]
      /\ Innermost.first \in Nat /\ Innermost.last \in Nat /\ Innermost.last <= NKey
  BY InnermostFact
<1>1. a \in 0 .. NKey - 1 /\ b \in 0 .. NKey - 1
  BY <1>0
<1>2. IsArrangement(sorted)
  BY DEF SortTypeOK
<1>3. /\ IsArrangement(sorted')
      /\ Key(sorted', a) = Key(sorted, b) /\ Key(sorted', b) = Key(sorted, a)
      /\ \A pos \in 0 .. NKey - 1 : pos # a /\ pos # b => Key(sorted', pos) = Key(sorted, pos)
  BY <1>0, <1>1, <1>2, SwapFact
<1>4. NKey' = NKey
  BY DEF NKey
<1>5. IsArrangement(sorted)'
  BY <1>3, <1>4 DEF IsArrangement
<1>6. SortTypeOK'
  BY <1>4, <1>5 DEF SortTypeOK
<1>7. CallsInv'
  BY <1>4 DEF CallsInv
<1>8. PrefixInv'
  BY <1>0 DEF PrefixInv
<1>9. ASSUME NKey > 0
      PROVE  \E e \in 1 .. NKey :
               /\ Divided(sorted', e)
               /\ e <= Threshold \/ \E f \in 1 .. Len(frames) : frames[f].first = 0 /\ frames[f].last = e
               /\ \A f \in 1 .. Len(frames) : frames[f].first >= e \/ (frames[f].first = 0 /\ frames[f].last <= e)
               /\ \A f, g \in 1 .. Len(frames) : frames[f].first < e /\ frames[g].first < e => f = g
  <2>1. PICK e \in 1 .. NKey :
               /\ Divided(sorted, e)
               /\ e <= Threshold \/ \E f \in 1 .. Len(frames) : frames[f].first = 0 /\ frames[f].last = e
               /\ \A f \in 1 .. Len(frames) : frames[f].first >= e \/ (frames[f].first = 0 /\ frames[f].last <= e)
               /\ \A f, g \in 1 .. Len(frames) : frames[f].first < e /\ frames[g].first < e => f = g
    BY <1>9 DEF LeastInv
  <2>2. Len(frames) \in 1 .. Len(frames)
    BY <1>0
  <2>3. Innermost.first >= e \/ Innermost.last <= e
    BY <1>0, <2>1, <2>2
  <2>4. a < e <=> b < e
    BY <1>0, <2>3
  <2>5. ASSUME NEW pos \in 0 .. NKey - 1
        PROVE  \E q \in 0 .. NKey - 1 : Key(sorted', pos) = Key(sorted, q) /\ (pos < e <=> q < e)
    <3>1. CASE pos = a
      BY <1>1, <1>3, <2>4, <3>1
    <3>2. CASE pos = b
      BY <1>1, <1>3, <2>4, <3>2
    <3>3. CASE pos # a /\ pos # b
      BY <1>3, <3>3
    <3> QED
      BY <3>1, <3>2, <3>3
  <2>6. e \in 0 .. NKey
    BY <1>0
  <2>7. Divided(sorted', e)
    BY <1>0, <2>1, <2>5, <2>6, DividedMoves
  <2> QED
    BY <2>1, <2>7
<1>10. LeastInv'
  <2>1. ASSUME NEW e \in 1 .. NKey, Divided(sorted', e) PROVE Divided(sorted, e)'
    BY <1>4, <2>1 DEF Divided, Key
  <2> QED
    BY <1>4, <1>9, <2>1 DEF LeastInv
<1> QED
  BY <1>6, <1>7, <1>8, <1>10

LEMMA MedianFact ==
  ASSUME NEW s, NEW a, NEW b, NEW c
  PROVE  MedianOf3(s, a, b, c) \in {a, b, c}
BY DEF MedianOf3

LEMMA ArrangementFact ==
  ASSUME NEW s, IsArrangement(s), NKey \in Nat
  PROVE  s \in [1 .. NKey -> 1 .. NKey] /\ Len(s) = NKey /\ DOMAIN s = 1 .. NKey /\ s \in Seq(1 .. NKey)
<1>1. s \in [1 .. NKey -> 1 .. NKey]
  BY DEF IsArrangement
<1>2. PICK n \in Nat : n = NKey
  OBVIOUS
<1>3. s \in [1 .. n -> 1 .. n]
  BY <1>1, <1>2
<1>4. Len(s) = n /\ DOMAIN s = 1 .. n /\ s \in Seq(1 .. n)
  BY <1>3
<1> QED
  BY <1>1, <1>2, <1>4

LEMMA Partition3Step ==
  ASSUME QuickSortInv, Partition3
  PROVE  QuickSortInv'
<1> DEFINE first == Innermost.first
           last == Innermost.last
           m == MedianOf3(sorted, first, first + (last - first) \div 2, last - 1)
           w == IterSwap(sorted, first, m)
           pivot == ElementAt(w, first)
<1>a. SortTypeOK /\ CallsInv /\ LeastInv
  BY DEF QuickSortInv
<1>1. /\ frames # <<>> /\ last - first > Threshold
      /\ sorted' = w /\ crossing' = <<Scanned(w, first, last - 1, pivot)>>
      /\ UNCHANGED <<keys, frames, inserted>>
  BY DEF Partition3, InLoop
<1>2. /\ NKey \in Nat /\ first \in Nat /\ last \in Nat /\ last <= NKey /\ Threshold \in Nat \ {0}
  BY <1>a, <1>1, InnermostFact
<1>3. first \in first .. last - 1 /\ m \in first .. last - 1
  <2>1. m \in {first, first + (last - first) \div 2, last - 1}
    BY MedianFact
  <2> HIDE DEF first, last, m
  <2>2. last - first \in Nat /\ last - first > 1
    BY <1>1, <1>2
  <2>3. (last - first) \div 2 \in 0 .. last - first - 1
    BY <2>2
  <2> QED
    BY <1>2, <2>1, <2>2, <2>3
<1>4. SortTypeOK' /\ CallsInv' /\ LeastInv' /\ PrefixInv'
  BY <1>a, <1>1, <1>3, SwapKeeps
<1>5. IsArrangement(w) /\ keys \in [1 .. NKey -> Int] /\ first \in 0 .. NKey - 1 /\ last - 1 \in 0 .. NKey - 1
  <2>1. first \in 0 .. NKey - 1 /\ m \in 0 .. NKey - 1 /\ last - 1 \in 0 .. NKey - 1
    BY <1>1, <1>2, <1>3
  <2>2. IsArrangement(sorted) /\ keys \in [1 .. NKey -> Int]
    BY <1>a DEF SortTypeOK
  <2> QED
    BY <1>2, <2>1, <2>2, SwapFact
<1>6. w \in [1 .. NKey -> 1 .. NKey] /\ Len(w) = NKey /\ pivot \in 1 .. NKey /\ Key(w, first) = keys[pivot]
  <2> HIDE DEF w, first
  <2>1. first + 1 \in 1 .. NKey
    BY <1>2, <1>5
  <2>2. w \in [1 .. NKey -> 1 .. NKey] /\ Len(w) = NKey
    BY <1>2, <1>5, ArrangementFact
  <2> QED
    BY <2>1, <2>2 DEF ElementAt, Key
<1>7. keys[pivot] \in Int
  BY <1>5, <1>6
<1> DEFINE up == Ascend(w, first, pivot)
           down == Descend(w, last - 1, pivot)
<1>8. /\ up \in first .. first /\ keys[pivot] <= Key(w, up)
      /\ \A pos \in first .. up - 1 : Key(w, pos) <= keys[pivot]
  <2>1. first \in first .. NKey - 1 /\ keys[pivot] <= Key(w, first)
    BY <1>5, <1>6, <1>7
  <2> HIDE DEF w, first, pivot
  <2> QED
    BY <1>2, <1>5, <1>6, <2>1, AscendFact
<1>9. /\ down \in first .. last - 1 /\ Key(w, down) <= keys[pivot]
      /\ \A pos \in down + 1 .. last - 1 : keys[pivot] <= Key(w, pos)
  <2>1. first \in 0 .. last - 1 /\ Key(w, first) <= keys[pivot]
    <3> HIDE DEF w, first, last, pivot
    <3>1. last - first > Threshold
      BY <1>1
    <3>2. first \in 0 .. last - 1
      BY <1>2, <3>1
    <3>3. Key(w, first) <= keys[pivot]
      BY <1>6, <1>7
    <3> QED
      BY <3>2, <3>3
  <2> HIDE DEF w, first, last, pivot
  <2> QED
    BY <1>2, <1>5, <1>6, <2>1, DescendFact
<1>10. Scans(w, Scanned(w, first, last - 1, pivot), first, last)
  <2>1. /\ Scanned(w, first, last - 1, pivot).up = up /\ Scanned(w, first, last - 1, pivot).down = down
        /\ Scanned(w, first, last - 1, pivot).pivot = pivot
    BY DEF Scanned
  <2>2. up \in first .. last - 1
    BY <1>3, <1>8
  <2> HIDE DEF w, first, last, pivot, up, down
  <2> QED
    BY <1>6, <1>8, <1>9, <2>1, <2>2 DEF Scans
<1>11. ScanInv'
  <2>1. DOMAIN crossing' = {1} /\ crossing'[1] = Scanned(w, first, last - 1, pivot)
    BY <1>1
  <2>2. Innermost' = Innermost
    BY <1>1 DEF Innermost
  <2>3. Scans(sorted', crossing'[1], first, last)
    BY <1>1, <1>10, <2>1
  <2>4. Scans(sorted, crossing[1], Innermost.first, Innermost.last)'
    <3> HIDE DEF w, pivot
    <3> QED
      BY <1>1, <2>2, <2>3 DEF Scans, Key, NKey
  <2> QED
    BY <1>1, <2>1, <2>2, <2>4 DEF ScanInv
<1> QED
  BY <1>4, <1>11 DEF QuickSortInv
LEMMA CrossStep ==
  ASSUME QuickSortInv, Cross
  PROVE  QuickSortInv'
<1> DEFINE first == Innermost.first
           last == Innermost.last
           c == crossing[1]
           w == IterSwap(sorted, c.up, c.down)
           pivot == c.pivot
<1>a. SortTypeOK /\ CallsInv /\ LeastInv /\ ScanInv
  BY DEF QuickSortInv
<1>1. /\ crossing # <<>> /\ c.up < c.down
      /\ sorted' = w /\ crossing' = <<Scanned(w, c.up + 1, c.down - 1, pivot)>>
      /\ UNCHANGED <<keys, frames, inserted>>
  BY DEF Cross, Idle
<1>2. frames # <<>> /\ last - first > Threshold /\ Scans(sorted, c, first, last)
  BY <1>a, <1>1 DEF ScanInv
<1>3. /\ NKey \in Nat /\ first \in Nat /\ last \in Nat /\ last <= NKey
  BY <1>a, <1>2, InnermostFact
<1>4. /\ pivot \in 1 .. NKey /\ c.up \in first .. last - 1 /\ c.down \in first .. last - 1
      /\ \A pos \in first .. c.up - 1 : Key(sorted, pos) <= keys[pivot]
      /\ \A pos \in c.down + 1 .. last - 1 : keys[pivot] <= Key(sorted, pos)
      /\ keys[pivot] <= Key(sorted, c.up) /\ Key(sorted, c.down) <= keys[pivot]
  BY <1>2 DEF Scans
<1>5. SortTypeOK' /\ CallsInv' /\ LeastInv' /\ PrefixInv'
  BY <1>a, <1>1, <1>2, <1>4, SwapKeeps
<1>6. c.up \in 0 .. NKey - 1 /\ c.down \in 0 .. NKey - 1
  BY <1>3, <1>4
<1>7. IsArrangement(sorted) /\ keys \in [1 .. NKey -> Int]
  BY <1>a DEF SortTypeOK
<1>8. /\ IsArrangement(w)
      /\ Key(w, c.up) = Key(sorted, c.down) /\ Key(w, c.down) = Key(sorted, c.up)
      /\ \A pos \in 0 .. NKey - 1 : pos # c.up /\ pos # c.down => Key(w, pos) = Key(sorted, pos)
  BY <1>3, <1>6, <1>7, SwapFact
<1>9. w \in [1 .. NKey -> 1 .. NKey] /\ Len(w) = NKey
  BY <1>3, <1>8, ArrangementFact
<1> DEFINE up == Ascend(w, c.up + 1, pivot)
           down == Descend(w, c.down - 1, pivot)
<1>10. /\ up \in c.up + 1 .. c.down /\ keys[pivot] <= Key(w, up)
       /\ \A pos \in c.up + 1 .. up - 1 : Key(w, pos) <= keys[pivot]
  <2>1. c.up + 1 \in Nat /\ c.down \in c.up + 1 .. NKey - 1 /\ keys[pivot] <= Key(w, c.down)
    BY <1>1, <1>4, <1>6, <1>8
  <2> HIDE DEF w, c, pivot
  <2> QED
    BY <1>3, <1>4, <1>7, <1>9, <2>1, AscendFact
<1>11. /\ down \in c.up .. c.down - 1 /\ Key(w, down) <= keys[pivot]
       /\ \A pos \in down + 1 .. c.down - 1 : keys[pivot] <= Key(w, pos)
  <2> HIDE DEF w, c, pivot
  <2>1. c.down - 1 \in 0 .. NKey - 1 /\ c.up \in 0 .. c.down - 1 /\ Key(w, c.up) <= keys[pivot]
    <3>1. c.down - 1 \in 0 .. NKey - 1 /\ c.up \in 0 .. c.down - 1
      BY <1>1, <1>3, <1>6
    <3>2. Key(w, c.up) <= keys[pivot]
      BY <1>4, <1>8
    <3> QED
      BY <3>1, <3>2
  <2> QED
    BY <1>3, <1>4, <1>7, <1>9, <2>1, DescendFact
<1>12. ASSUME NEW pos \in first .. up - 1 PROVE Key(w, pos) <= keys[pivot]
  <2> HIDE DEF w, c, pivot, first, last, up
  <2>1. CASE pos < c.up
    <3>1. pos \in 0 .. NKey - 1 /\ pos # c.up /\ pos # c.down /\ pos \in first .. c.up - 1
      BY <1>1, <1>3, <1>4, <1>6, <2>1
    <3> QED
      BY <1>4, <1>8, <3>1
  <2>2. CASE pos = c.up
    BY <1>4, <1>8, <2>2
  <2>3. CASE pos > c.up
    <3>1. pos \in c.up + 1 .. up - 1
      BY <1>6, <1>10, <2>3
    <3> QED
      BY <1>10, <3>1
  <2> QED
    BY <1>3, <1>6, <2>1, <2>2, <2>3
<1>13. ASSUME NEW pos \in down + 1 .. last - 1 PROVE keys[pivot] <= Key(w, pos)
  <2> HIDE DEF w, c, pivot, first, last, down
  <2>0. pos \in Int
    BY <1>11
  <2>1. CASE pos > c.down
    <3>1. pos \in 0 .. NKey - 1 /\ pos # c.up /\ pos # c.down /\ pos \in c.down + 1 .. last - 1
      BY <1>1, <1>3, <1>4, <1>6, <2>1
    <3> QED
      BY <1>4, <1>8, <3>1
  <2>2. CASE pos = c.down
    BY <1>4, <1>8, <2>2
  <2>3. CASE pos < c.down
    <3>1. pos \in down + 1 .. c.down - 1
      BY <1>6, <1>11, <2>3
    <3> QED
      BY <1>11, <3>1
  <2> QED
    BY <1>6, <2>0, <2>1, <2>2, <2>3
<1> DEFINE d == Scanned(w, c.up + 1, c.down - 1, pivot)
<1>14. Scans(w, d, first, last)
  <2>1. d.up = up /\ d.down = down /\ d.pivot = pivot
    BY DEF Scanned
  <2>2. up \in first .. last - 1 /\ down \in first .. last - 1
    <3> HIDE DEF w, c, pivot, first, last, up, down
    <3> QED
      BY <1>3, <1>4, <1>10, <1>11
  <2>3. Scans(w, d, first, last)
    <3> HIDE DEF w, c, pivot, first, last, up, down, d
    <3> QED
      BY <1>4, <1>10, <1>11, <1>12, <1>13, <2>1, <2>2 DEF Scans
  <2> QED
    BY <2>3
<1>15. ScanInv'
  <2>1. DOMAIN crossing' = {1} /\ crossing'[1] = d
    BY <1>1
  <2>2. Innermost' = Innermost
    BY <1>1 DEF Innermost
  <2>3. Scans(sorted', crossing'[1], first, last)
    <3> HIDE DEF w, c, pivot, first, last, up, down, d
    <3>1. sorted' = w
      BY Zenon, <1>1
    <3> QED
      BY <1>14, <2>1, <3>1
  <2>4. Scans(sorted, crossing[1], Innermost.first, Innermost.last)'
    <3>1. Innermost'.first = first /\ Innermost'.last = last
      BY <2>2
    <3>2. keys' = keys
      BY <1>1
    <3> HIDE DEF w, c, pivot, first, last, up, down, d
    <3> QED
      BY <2>3, <3>1, <3>2 DEF Scans, Key, NKey
  <2> QED
    BY <1>1, <1>2, <2>1, <2>2, <2>4 DEF ScanInv
<1> QED
  BY <1>5, <1>15 DEF QuickSortInv
LEMMA FrontFact ==
  ASSUME NEW F \in Seq(Calls), F # <<>>
  PROVE  /\ Front(F) \in Seq(Calls) /\ Len(F) \in Nat \ {0} /\ Len(Front(F)) = Len(F) - 1
         /\ \A f \in 1 .. Len(F) - 1 : Front(F)[f] = F[f]
<1>1. Len(F) \in Nat \ {0}
  OBVIOUS
<1>2. PICK n \in Nat \ {0} : n = Len(F)
  BY <1>1
<1> DEFINE W == Front(F)
<1>3. W = SubSeq(F, 1, n - 1)
  BY <1>2 DEF Front
<1> HIDE DEF W
<1>4. F \in Seq(Calls) /\ n - 1 \in Nat /\ n - 1 <= Len(F)
  BY <1>2
<1>5. W \in Seq(Calls) /\ Len(W) = n - 1 /\ \A f \in 1 .. n - 1 : W[f] = F[f]
  BY <1>2, <1>3, <1>4
<1> QED
  BY <1>1, <1>2, <1>5 DEF W

\* The innermost call makes way for two.
LEMMA SplitFact ==
  ASSUME NEW F \in Seq(Calls), F # <<>>, NEW A \in Calls, NEW B \in Calls
  PROVE  /\ Front(F) \o <<A, B>> \in Seq(Calls)
         /\ Len(Front(F) \o <<A, B>>) = Len(F) + 1
         /\ \A f \in 1 .. Len(F) - 1 : (Front(F) \o <<A, B>>)[f] = F[f]
         /\ (Front(F) \o <<A, B>>)[Len(F)] = A /\ (Front(F) \o <<A, B>>)[Len(F) + 1] = B
<1>1. PICK n \in Nat \ {0} : n = Len(F)
  BY FrontFact
<1> DEFINE W == Front(F)
           V == <<A, B>>
<1>3. W \in Seq(Calls) /\ Len(W) = n - 1 /\ \A f \in 1 .. n - 1 : W[f] = F[f]
  BY <1>1, FrontFact
<1>4. V \in Seq(Calls) /\ Len(V) = 2 /\ V[1] = A /\ V[2] = B
  OBVIOUS
<1> HIDE DEF W, V
<1>5. PICK m \in Nat : m = n - 1
  OBVIOUS
<1>6. /\ W \in Seq(Calls) /\ V \in Seq(Calls) /\ Len(W) = m /\ Len(V) = 2
      /\ \A f \in 1 .. m : W[f] = F[f]
  BY <1>3, <1>4, <1>5
<1>10. Len(W \o V) = m + 2 /\ \A q \in 1 .. m + 2 : (W \o V)[q] = IF q <= m THEN W[q] ELSE V[q - m]
  <2>1. /\ Len(W \o V) = Len(W) + Len(V)
        /\ \A q \in 1 .. Len(W) + Len(V) : (W \o V)[q] = IF q <= Len(W) THEN W[q] ELSE V[q - Len(W)]
    BY <1>6, ConcatProperties
  <2> QED
    BY <1>6, <2>1
<1>11. W \o V \in Seq(Calls)
  BY <1>6, ConcatProperties
<1>7. ASSUME NEW f \in 1 .. m PROVE (W \o V)[f] = F[f]
  BY <1>6, <1>10
<1>8. (W \o V)[m + 1] = A /\ (W \o V)[m + 2] = B
  <2>1. m + 1 \in 1 .. m + 2 /\ m + 2 \in 1 .. m + 2 /\ (m + 1) - m = 1 /\ (m + 2) - m = 2
    OBVIOUS
  <2>2. (W \o V)[m + 1] = V[1] /\ (W \o V)[m + 2] = V[2]
    BY <1>10, <2>1
  <2> QED
    BY <1>4, <2>2
<1>9. m + 1 = n /\ m + 2 = n + 1
  BY <1>5
<1> QED
  BY <1>1, <1>3, <1>5, <1>7, <1>8, <1>9, <1>10, <1>11 DEF W, V

\* What LeastInv says of one e and some calls.
LeastBefore(s, F, e) ==
  /\ Divided(s, e)
  /\ e <= Threshold \/ \E f \in 1 .. Len(F) : F[f].first = 0 /\ F[f].last = e
  /\ \A f \in 1 .. Len(F) : F[f].first >= e \/ (F[f].first = 0 /\ F[f].last <= e)
  /\ \A f, g \in 1 .. Len(F) : F[f].first < e /\ F[g].first < e => f = g

LEMMA LeastNext ==
  ASSUME UNCHANGED <<keys, sorted>>, NKey > 0 => \E e \in 1 .. NKey : LeastBefore(sorted, frames', e)
  PROVE  LeastInv'
<1>1. NKey' = NKey
  BY DEF NKey
<1>2. ASSUME NEW e, Divided(sorted, e) PROVE Divided(sorted, e)'
  BY <1>1, <1>2 DEF Divided, Key
<1>3. ASSUME NKey > 0
      PROVE  \E e \in 1 .. NKey :
               /\ Divided(sorted, e)'
               /\ e <= Threshold \/ \E f \in 1 .. Len(frames') : frames'[f].first = 0 /\ frames'[f].last = e
               /\ \A f \in 1 .. Len(frames') : frames'[f].first >= e \/ (frames'[f].first = 0 /\ frames'[f].last <= e)
               /\ \A f, g \in 1 .. Len(frames') : frames'[f].first < e /\ frames'[g].first < e => f = g
  <2>1. PICK e \in 1 .. NKey : LeastBefore(sorted, frames', e)
    BY <1>3
  <2>2. Divided(sorted, e)'
    BY <1>2, <2>1 DEF LeastBefore
  <2> QED
    BY <2>1, <2>2 DEF LeastBefore
<1> QED
  BY <1>1, <1>3 DEF LeastInv

\* The first part is divided at the cut.
LEMMA CutDivides ==
  ASSUME SortTypeOK, NEW e \in 1 .. NKey, Divided(sorted, e), NEW c, Scans(sorted, c, 0, e), c.up >= c.down
  PROVE  /\ c.up \in 0 .. e - 1
         /\ Divided(sorted, c.up)
         /\ c.up = 0 => Divided(sorted, 1)
<1>1. /\ c.pivot \in 1 .. NKey /\ c.up \in 0 .. e - 1 /\ c.down \in 0 .. e - 1
      /\ \A pos \in 0 .. c.up - 1 : Key(sorted, pos) <= keys[c.pivot]
      /\ \A pos \in c.down + 1 .. e - 1 : keys[c.pivot] <= Key(sorted, pos)
      /\ keys[c.pivot] <= Key(sorted, c.up) /\ Key(sorted, c.down) <= keys[c.pivot]
  BY DEF Scans
<1>2. NKey \in Nat /\ keys \in [1 .. NKey -> Int] /\ sorted \in [1 .. NKey -> 1 .. NKey]
  BY DEF SortTypeOK, IsArrangement
<1>3. ASSUME NEW a \in 0 .. NKey - 1 PROVE Key(sorted, a) \in Int
  <2>1. a + 1 \in 1 .. NKey
    BY <1>2
  <2>2. sorted[a + 1] \in 1 .. NKey
    BY <1>2, <2>1
  <2> QED
    BY <1>2, <2>2 DEF Key
<1>4. keys[c.pivot] \in Int
  BY <1>1, <1>2
<1>5. ASSUME NEW b \in c.up .. e - 1 PROVE keys[c.pivot] <= Key(sorted, b)
  <2>1. CASE b = c.up
    BY <1>1, <2>1
  <2>2. CASE b # c.up
    <3>1. b \in c.down + 1 .. e - 1
      BY <1>1, <2>2
    <3> QED
      BY <1>1, <3>1
  <2> QED
    BY <2>1, <2>2
<1>6. ASSUME NEW a \in 0 .. e - 1, NEW b \in c.up .. NKey - 1, b # a, Key(sorted, a) <= keys[c.pivot]
      PROVE  Key(sorted, a) <= Key(sorted, b)
  <2>1. a \in 0 .. NKey - 1 /\ b \in 0 .. NKey - 1
    <3>1. NKey \in Nat /\ e \in Int /\ e <= NKey /\ c.up \in Int /\ 0 <= c.up
      BY <1>1, <1>2
    <3>2. a \in 0 .. e - 1 /\ b \in c.up .. NKey - 1
      OBVIOUS
    <3> QED
      BY <3>1, <3>2
  <2>2. CASE b < e
    <3>1. b \in c.up .. e - 1
      BY <1>1, <2>2
    <3>2. keys[c.pivot] <= Key(sorted, b)
      BY <1>5, <3>1
    <3> QED
      BY <1>3, <1>4, <1>6, <2>1, <3>2
  <2>3. CASE b >= e
    <3>1. b \in e .. NKey - 1
      BY <2>1, <2>3
    <3> QED
      BY <3>1 DEF Divided
  <2> QED
    BY <2>1, <2>2, <2>3
<1>7. Divided(sorted, c.up)
  <2>1. SUFFICES ASSUME NEW a \in 0 .. c.up - 1, NEW b \in c.up .. NKey - 1
                 PROVE  Key(sorted, a) <= Key(sorted, b)
    BY DEF Divided
  <2>2. a \in 0 .. e - 1 /\ b # a
    BY <1>1
  <2> QED
    BY <1>1, <1>6, <2>2
<1>8. ASSUME c.up = 0 PROVE Divided(sorted, 1)
  <2>1. SUFFICES ASSUME NEW a \in 0 .. 1 - 1, NEW b \in 1 .. NKey - 1
                 PROVE  Key(sorted, a) <= Key(sorted, b)
    BY DEF Divided
  <2>2. a \in 0 .. e - 1 /\ b # a /\ b \in c.up .. NKey - 1 /\ a = c.down
    BY <1>1, <1>8
  <2>3. Key(sorted, a) <= keys[c.pivot]
    BY <1>1, <2>2
  <2> QED
    BY <1>6, <2>2, <2>3
<1> QED
  BY <1>1, <1>7, <1>8

\* A split leaves the calls before n, and the two parts of the last: l and r.
IsSplit(n, l, r) ==
  /\ Len(frames) = n /\ Innermost = frames[n]
  /\ Innermost.first \in Nat /\ Innermost.last \in Nat
  /\ Innermost.last - Innermost.first > Threshold
  /\ Scans(sorted, crossing[1], Innermost.first, Innermost.last)
  /\ crossing[1].up >= crossing[1].down
  /\ Len(frames') = n + 1
  /\ \A f \in 1 .. n - 1 : frames'[f] = frames[f] /\ frames[f].first \in Nat
  /\ l \in {n, n + 1} /\ r \in {n, n + 1} /\ l # r
  /\ frames'[l].first = Innermost.first /\ frames'[l].last = crossing[1].up
  /\ frames'[r].first = crossing[1].up + 1 /\ frames'[r].last = Innermost.last

LEMMA SplitLeast ==
  ASSUME SortTypeOK, NEW e \in 1 .. NKey, LeastBefore(sorted, frames, e),
         NEW n \in Nat \ {0}, NEW l, NEW r, IsSplit(n, l, r)
  PROVE  \E d \in 1 .. NKey : LeastBefore(sorted, frames', d)
<1>s. /\ Len(frames) = n /\ Innermost = frames[n]
      /\ Innermost.first \in Nat /\ Innermost.last \in Nat
      /\ Innermost.last - Innermost.first > Threshold
      /\ Scans(sorted, crossing[1], Innermost.first, Innermost.last)
      /\ crossing[1].up >= crossing[1].down
  BY DEF IsSplit
<1>g. /\ Len(frames') = n + 1
      /\ \A f \in 1 .. n - 1 : frames'[f] = frames[f] /\ frames[f].first \in Nat
      /\ l \in {n, n + 1} /\ r \in {n, n + 1} /\ l # r
      /\ frames'[l].first = Innermost.first /\ frames'[l].last = crossing[1].up
      /\ frames'[r].first = crossing[1].up + 1 /\ frames'[r].last = Innermost.last
  BY DEF IsSplit
<1> USE <1>s, <1>g
<1> DEFINE first == Innermost.first
           last == Innermost.last
<1>0. NKey \in Nat /\ Threshold \in Nat \ {0}
  BY QuickSortAssumption DEF SortTypeOK
<1>1. crossing[1].up \in first .. last - 1
  BY DEF Scans
<1>2. /\ Divided(sorted, e)
      /\ e <= Threshold \/ \E f \in 1 .. n : frames[f].first = 0 /\ frames[f].last = e
      /\ \A f \in 1 .. n : frames[f].first >= e \/ (frames[f].first = 0 /\ frames[f].last <= e)
      /\ \A f, g \in 1 .. n : frames[f].first < e /\ frames[g].first < e => f = g
  BY DEF LeastBefore
<1>3. n \in 1 .. n
  OBVIOUS
<1>4. ASSUME NEW f \in 1 .. n + 1 PROVE f \in 1 .. n - 1 \/ f = l \/ f = r
  OBVIOUS
<1>5. l \in 1 .. n + 1 /\ r \in 1 .. n + 1 /\ ~ (l \in 1 .. n - 1) /\ ~ (r \in 1 .. n - 1)
  OBVIOUS
<1>6. CASE first >= e
  <2>1. ASSUME ~ (e <= Threshold) PROVE \E f \in 1 .. n + 1 : frames'[f].first = 0 /\ frames'[f].last = e
    <3>1. PICK f \in 1 .. n : frames[f].first = 0 /\ frames[f].last = e
      BY <1>2, <2>1
    <3>2. f # n
      BY <1>6, <3>1
    <3>3. f \in 1 .. n - 1 /\ f \in 1 .. n + 1
      BY <3>2
    <3> QED
      BY <3>1, <3>3
  <2>2. frames'[l].first >= e /\ frames'[r].first >= e /\ ~ (frames'[l].first < e) /\ ~ (frames'[r].first < e)
    BY <1>1, <1>6
  <2>3. ASSUME NEW f \in 1 .. n + 1 PROVE frames'[f].first >= e \/ (frames'[f].first = 0 /\ frames'[f].last <= e)
    <3>1. CASE f \in 1 .. n - 1
      <4>1. f \in 1 .. n /\ frames'[f] = frames[f]
        BY <3>1
      <4> QED
        BY <1>2, <4>1
    <3> QED
      BY <1>4, <2>2, <3>1
  <2>4. ASSUME NEW f \in 1 .. n + 1, NEW g \in 1 .. n + 1, frames'[f].first < e, frames'[g].first < e PROVE f = g
    <3>1. f \in 1 .. n - 1 /\ g \in 1 .. n - 1
      BY <1>4, <2>2, <2>4
    <3>2. f \in 1 .. n /\ g \in 1 .. n /\ frames'[f] = frames[f] /\ frames'[g] = frames[g]
      BY <3>1
    <3> QED
      BY <1>2, <2>4, <3>2
  <2> QED
    BY <1>2, <2>1, <2>3, <2>4 DEF LeastBefore
<1>7. CASE first < e
  <2>1. first = 0 /\ last <= e
    BY <1>2, <1>3, <1>7
  <2>2. last = e
    <3>1. ~ (e <= Threshold)
      BY <1>0, <2>1
    <3>2. PICK f \in 1 .. n : frames[f].first = 0 /\ frames[f].last = e
      BY <1>2, <3>1
    <3>3. frames[f].first < e /\ frames[n].first < e
      BY <1>7, <3>2
    <3>4. f = n
      BY <1>2, <1>3, <3>3
    <3> QED
      BY <3>2, <3>4
  <2>3. ASSUME NEW f \in 1 .. n - 1 PROVE frames'[f].first \in Nat /\ frames'[f].first >= e
    <3>1. f \in 1 .. n /\ f # n /\ frames'[f] = frames[f] /\ frames[f].first \in Nat
      OBVIOUS
    <3>2. ~ (frames[f].first < e)
      BY <1>2, <1>3, <1>7, <3>1
    <3> QED
      BY <3>1, <3>2
  <2>4. /\ crossing[1].up \in 0 .. e - 1 /\ Divided(sorted, crossing[1].up)
        /\ crossing[1].up = 0 => Divided(sorted, 1)
    BY <1>2, <2>1, <2>2, CutDivides
  <2> DEFINE d == IF crossing[1].up = 0 THEN 1 ELSE crossing[1].up
  <2>5. /\ d \in 1 .. e /\ d \in 1 .. NKey /\ Divided(sorted, d)
        /\ frames'[r].first >= d /\ frames'[l].first = 0 /\ frames'[l].last <= d
        /\ d <= Threshold \/ frames'[l].last = d
    BY <1>0, <2>1, <2>4
  <2> HIDE DEF d
  <2>6. ASSUME NEW f \in 1 .. n + 1 PROVE f = l \/ (frames'[f].first >= d /\ ~ (frames'[f].first < d))
    <3>1. CASE f \in 1 .. n - 1
      BY <2>3, <2>5, <3>1
    <3>2. CASE f = r
      BY <2>4, <2>5, <3>2
    <3> QED
      BY <1>4, <3>1, <3>2
  <2>7. d <= Threshold \/ \E f \in 1 .. n + 1 : frames'[f].first = 0 /\ frames'[f].last = d
    BY <1>5, <2>5
  <2>8. ASSUME NEW f \in 1 .. n + 1 PROVE frames'[f].first >= d \/ (frames'[f].first = 0 /\ frames'[f].last <= d)
    BY <2>5, <2>6
  <2>9. ASSUME NEW f \in 1 .. n + 1, NEW g \in 1 .. n + 1, frames'[f].first < d, frames'[g].first < d PROVE f = g
    BY <2>6, <2>9
  <2> QED
    BY <2>5, <2>7, <2>8, <2>9 DEF LeastBefore
<1> QED
  <2>1. first \in Nat /\ e \in Int
    OBVIOUS
  <2> QED
    BY <1>6, <1>7, <2>1
LEMMA FrameFact ==
  ASSUME NEW a, NEW b, NEW n
  PROVE  Frame(a, b, n).first = a /\ Frame(a, b, n).last = b /\ Frame(a, b, n).k = n
BY DEF Frame

LEMMA SplitKeeps ==
  ASSUME QuickSortInv, crossing # <<>>, crossing[1].up >= crossing[1].down, crossing' = <<>>,
         NEW m \in {0, Innermost.k + 1}, NEW n \in {0, Innermost.k + 1}, NEW A, NEW B,
         \/ /\ A = Frame(Innermost.first, crossing[1].up, m)
            /\ B = Frame(crossing[1].up + 1, Innermost.last, n)
         \/ /\ B = Frame(Innermost.first, crossing[1].up, m)
            /\ A = Frame(crossing[1].up + 1, Innermost.last, n),
         frames' = Front(frames) \o <<A, B>>, UNCHANGED <<keys, sorted, inserted>>
  PROVE  QuickSortInv'
<1> DEFINE first == Innermost.first
           last == Innermost.last
           cut == crossing[1].up
<1>a. SortTypeOK /\ CallsInv /\ LeastInv /\ ScanInv /\ PrefixInv
  BY DEF QuickSortInv
<1>1. frames # <<>> /\ last - first > Threshold /\ Scans(sorted, crossing[1], first, last)
  BY <1>a DEF ScanInv
<1>2. /\ Len(frames) \in Nat \ {0} /\ Innermost = frames[Len(frames)]
      /\ first \in Nat /\ last \in Nat /\ Innermost.k \in Nat /\ first <= last /\ last <= NKey
      /\ Innermost.k + (last - first) <= NKey /\ NKey \in Nat /\ inserted = 1
  BY <1>a, <1>1, InnermostFact
<1>3. PICK z \in Nat \ {0} : z = Len(frames)
  BY <1>2
<1>4. cut \in first .. last - 1
  BY <1>1 DEF Scans
<1>5. Frame(first, cut, m) \in Calls /\ Frame(cut + 1, last, n) \in Calls
  <2> HIDE DEF first, last, cut
  <2>0. first \in Nat /\ last \in Nat
    BY <1>2
  <2>1. cut \in Nat /\ cut + 1 \in Nat
    BY <1>4, <2>0
  <2>2. Innermost.k + 1 \in Nat
    BY <1>2
  <2>3. m \in Nat /\ n \in Nat
    BY <2>2
  <2> QED
    BY <1>2, <2>1, <2>3 DEF Frame, Calls
<1>6. A \in Calls /\ B \in Calls /\ frames \in Seq(Calls)
  BY <1>a, <1>5 DEF SortTypeOK
<1>7. /\ frames' \in Seq(Calls) /\ Len(frames') = z + 1
      /\ \A f \in 1 .. z - 1 : frames'[f] = frames[f]
      /\ frames'[z] = A /\ frames'[z + 1] = B
  BY <1>1, <1>3, <1>6, SplitFact
<1>8. PICK l \in {z, z + 1}, r \in {z, z + 1} :
        l # r /\ frames'[l] = Frame(first, cut, m) /\ frames'[r] = Frame(cut + 1, last, n)
  <2>1. z \in {z, z + 1} /\ z + 1 \in {z, z + 1} /\ z # z + 1
    OBVIOUS
  <2> HIDE DEF first, last, cut
  <2>2. CASE A = Frame(first, cut, m) /\ B = Frame(cut + 1, last, n)
    BY <1>7, <2>1, <2>2
  <2>3. CASE B = Frame(first, cut, m) /\ A = Frame(cut + 1, last, n)
    BY <1>7, <2>1, <2>3
  <2> QED
    BY <2>2, <2>3 DEF first, last, cut
<1>9. /\ frames'[l].first = first /\ frames'[l].last = cut /\ frames'[l].k = m
      /\ frames'[r].first = cut + 1 /\ frames'[r].last = last /\ frames'[r].k = n
  <2> HIDE DEF first, last, cut
  <2>1. /\ Frame(first, cut, m).first = first /\ Frame(first, cut, m).last = cut
        /\ Frame(first, cut, m).k = m
    BY FrameFact
  <2>2. /\ Frame(cut + 1, last, n).first = cut + 1 /\ Frame(cut + 1, last, n).last = last
        /\ Frame(cut + 1, last, n).k = n
    BY FrameFact
  <2> QED
    BY <1>8, <2>1, <2>2
<1>10. NKey' = NKey /\ IsArrangement(sorted)'
  BY <1>a DEF NKey, SortTypeOK, IsArrangement
<1>11. SortTypeOK'
  BY <1>a, <1>2, <1>7, <1>10 DEF SortTypeOK
<1>12. CallsInv'
  <2>1. ASSUME NEW f \in 1 .. z + 1
        PROVE  /\ frames'[f].first <= frames'[f].last /\ frames'[f].last <= NKey
               /\ frames'[f].k + (frames'[f].last - frames'[f].first) <= NKey
    <3>1. CASE f \in 1 .. z - 1
      <4>1. f \in 1 .. Len(frames) /\ frames'[f] = frames[f]
        BY <1>3, <1>7, <3>1
      <4> QED
        BY <1>a, <4>1 DEF CallsInv
    <3>2. CASE f = l
      <4> HIDE DEF first, last, cut
      <4>1. first <= cut /\ cut <= NKey /\ m + (cut - first) <= NKey
        <5>1. cut - first <= NKey /\ (Innermost.k + 1) + (cut - first) <= NKey
          BY <1>2, <1>4
        <5> QED
          BY <1>2, <1>4, <5>1
      <4>2. frames'[f].first = first /\ frames'[f].last = cut /\ frames'[f].k = m
        BY <1>9, <3>2
      <4> QED
        BY <4>1, <4>2
    <3>3. CASE f = r
      <4> HIDE DEF first, last, cut
      <4>1. cut + 1 <= last /\ last <= NKey /\ n + (last - (cut + 1)) <= NKey
        <5>1. cut \in Nat /\ cut + 1 <= last /\ first <= cut
          BY <1>2, <1>4
        <5>2. last - (cut + 1) <= NKey
          BY <1>2, <5>1
        <5>3. (Innermost.k + 1) + (last - (cut + 1)) <= NKey
          BY <1>2, <5>1
        <5>4. n + (last - (cut + 1)) <= NKey
          BY <1>2, <5>1, <5>2, <5>3
        <5> QED
          BY <1>2, <5>1, <5>4
      <4>2. frames'[f].first = cut + 1 /\ frames'[f].last = last /\ frames'[f].k = n
        BY <1>9, <3>3
      <4> QED
        BY <4>1, <4>2
    <3>4. f \in 1 .. z - 1 \/ f = l \/ f = r
      <4>1. l \in {z, z + 1} /\ r \in {z, z + 1} /\ l # r
        BY <1>8
      <4> QED
        BY <4>1
    <3> QED
      BY <3>1, <3>2, <3>3, <3>4
  <2> QED
    BY <1>7, <1>10, <2>1 DEF CallsInv
<1>13. LeastInv'
  <2>1. ASSUME NKey > 0 PROVE \E e \in 1 .. NKey : LeastBefore(sorted, frames', e)
    <3>1. PICK e \in 1 .. NKey : LeastBefore(sorted, frames, e)
      BY <1>a, <2>1 DEF LeastInv, LeastBefore
    <3>2. ASSUME NEW f \in 1 .. z - 1 PROVE frames[f].first \in Nat
      <4>1. f \in 1 .. Len(frames)
        BY <1>3
      <4>2. frames[f] \in Calls
        BY <1>6, <4>1
      <4> QED
        BY <4>2 DEF Calls
    <3>3. Innermost = frames[z] /\ Len(frames) = z
      BY <1>2, <1>3
    <3>4. /\ frames'[l].first = Innermost.first /\ frames'[l].last = crossing[1].up
          /\ frames'[r].first = crossing[1].up + 1 /\ frames'[r].last = Innermost.last
      BY <1>9
    <3> HIDE DEF first, last, cut
    <3>5. /\ Scans(sorted, crossing[1], Innermost.first, Innermost.last)
          /\ Innermost.last - Innermost.first > Threshold
          /\ Innermost.first \in Nat /\ Innermost.last \in Nat
      BY <1>1, <1>2 DEF first, last
    <3>6. Len(frames') = z + 1 /\ (\A f \in 1 .. z - 1 : frames'[f] = frames[f]) /\ l # r
      BY <1>7, <1>8
    <3>7. l \in {z, z + 1} /\ r \in {z, z + 1}
      BY <1>8
    <3>8. IsSplit(z, l, r)
      BY <3>2, <3>3, <3>4, <3>5, <3>6, <3>7 DEF IsSplit
    <3> QED
      BY <1>a, <3>1, <3>8, SplitLeast
  <2> QED
    BY <2>1, LeastNext
<1>14. ScanInv'
  BY DEF ScanInv
<1>15. PrefixInv'
  BY <1>a DEF PrefixInv, Key
<1> QED
  BY <1>11, <1>12, <1>13, <1>14, <1>15 DEF QuickSortInv

LEMMA SplitStep ==
  ASSUME QuickSortInv, SplitAtCut
  PROVE  QuickSortInv'
<1> DEFINE first == Innermost.first
           last == Innermost.last
           cut == crossing[1].up
           n == Innermost.k + 1
<1>1. /\ crossing # <<>> /\ crossing[1].up >= crossing[1].down /\ crossing' = <<>>
      /\ UNCHANGED <<keys, sorted, inserted>>
      /\ frames' = Front(frames) \o
          IF last - cut < cut - first THEN <<Frame(first, cut, n), Frame(cut + 1, last, 0)>>
          ELSE <<Frame(cut + 1, last, n), Frame(first, cut, 0)>>
  BY DEF SplitAtCut, Idle
<1>2. n \in {0, Innermost.k + 1} /\ 0 \in {0, Innermost.k + 1}
  OBVIOUS
<1>3. CASE last - cut < cut - first
  <2>1. frames' = Front(frames) \o <<Frame(first, cut, n), Frame(cut + 1, last, 0)>>
    BY <1>1, <1>3
  <2> QED
    BY <1>1, <1>2, <2>1, SplitKeeps
<1>4. CASE ~ (last - cut < cut - first)
  <2>1. frames' = Front(frames) \o <<Frame(cut + 1, last, n), Frame(first, cut, 0)>>
    BY <1>1, <1>4
  <2> QED
    BY <1>1, <1>2, <2>1, SplitKeeps
<1> QED
  BY <1>3, <1>4

LEMMA LoopReturnsStep ==
  ASSUME QuickSortInv, LoopReturns, TurnsLeft
  PROVE  QuickSortInv'
<1>a. SortTypeOK /\ CallsInv /\ LeastInv /\ ScanInv /\ PrefixInv
  BY DEF QuickSortInv
<1>1. /\ crossing = <<>> /\ frames # <<>> /\ ~InLoop /\ frames' = Front(frames)
      /\ UNCHANGED <<keys, sorted, crossing, inserted>>
  BY DEF LoopReturns, Idle
<1>2. /\ Len(frames) \in Nat \ {0} /\ Innermost = frames[Len(frames)] /\ Innermost \in Calls
      /\ Innermost.first \in Nat /\ Innermost.last \in Nat /\ Innermost.k \in Nat
      /\ Innermost.first <= Innermost.last /\ Innermost.last <= NKey
      /\ Innermost.k + (Innermost.last - Innermost.first) <= NKey
      /\ NKey \in Nat /\ Threshold \in Nat \ {0} /\ inserted = 1
  BY <1>a, <1>1, InnermostFact
<1>3. PICK z \in Nat \ {0} : z = Len(frames)
  BY <1>2
<1>4. Innermost.last - Innermost.first <= Threshold
  <2>1. ~ (Innermost.last - Innermost.first > Threshold)
    BY <1>1 DEF InLoop, TurnsLeft
  <2> QED
    BY <1>2, <2>1
<1>5. frames \in Seq(Calls)
  BY <1>a DEF SortTypeOK
<1>6. frames' \in Seq(Calls) /\ Len(frames') = z - 1 /\ \A f \in 1 .. z - 1 : frames'[f] = frames[f]
  BY <1>1, <1>3, <1>5, FrontFact
<1>7. \A f \in 1 .. z - 1 : f \in 1 .. Len(frames) /\ f # z
  BY <1>3
<1>8. NKey' = NKey /\ IsArrangement(sorted)'
  BY <1>a, <1>1 DEF NKey, SortTypeOK, IsArrangement
<1>9. SortTypeOK'
  BY <1>a, <1>1, <1>2, <1>6, <1>8 DEF SortTypeOK
<1>10. CallsInv'
  BY <1>a, <1>6, <1>7, <1>8 DEF CallsInv
<1>11. LeastInv'
  <2>1. ASSUME NKey > 0 PROVE \E e \in 1 .. NKey : LeastBefore(sorted, frames', e)
    <3>1. PICK e \in 1 .. NKey : LeastBefore(sorted, frames, e)
      BY <1>a, <2>1 DEF LeastInv, LeastBefore
    <3>2. ASSUME ~ (e <= Threshold)
          PROVE  \E f \in 1 .. Len(frames') : frames'[f].first = 0 /\ frames'[f].last = e
      <4>1. PICK f \in 1 .. Len(frames) : frames[f].first = 0 /\ frames[f].last = e
        BY <3>1, <3>2 DEF LeastBefore
      <4>2. f # z
        <5>1. ASSUME f = z PROVE FALSE
          <6>1. Innermost.first = 0 /\ Innermost.last = e
            BY <1>2, <1>3, <4>1, <5>1
          <6> QED
            BY <1>2, <1>4, <3>2, <6>1
        <5> QED
          BY <5>1
      <4>3. f \in 1 .. z - 1
        BY <1>3, <4>2
      <4> QED
        BY <1>6, <4>1, <4>3
    <3>3. ASSUME NEW f \in 1 .. Len(frames')
          PROVE  frames'[f].first >= e \/ (frames'[f].first = 0 /\ frames'[f].last <= e)
      <4>1. f \in 1 .. Len(frames) /\ frames'[f] = frames[f]
        BY <1>6, <1>7
      <4> QED
        BY <3>1, <4>1 DEF LeastBefore
    <3>4. ASSUME NEW f \in 1 .. Len(frames'), NEW g \in 1 .. Len(frames'),
                 frames'[f].first < e, frames'[g].first < e
          PROVE  f = g
      <4>1. f \in 1 .. Len(frames) /\ frames'[f] = frames[f] /\ g \in 1 .. Len(frames) /\ frames'[g] = frames[g]
        BY <1>6, <1>7
      <4> QED
        BY <3>1, <3>4, <4>1 DEF LeastBefore
    <3>5. LeastBefore(sorted, frames', e)
      BY <3>1, <3>2, <3>3, <3>4 DEF LeastBefore
    <3> QED
      BY <3>5
  <2> QED
    BY <1>1, <2>1, LeastNext
<1>12. ScanInv'
  BY <1>1 DEF ScanInv
<1>13. PrefixInv'
  BY <1>a, <1>1 DEF PrefixInv, Key
<1> QED
  BY <1>9, <1>10, <1>11, <1>12, <1>13 DEF QuickSortInv
LEMMA InsertAtFact ==
  ASSUME NEW s \in Seq(Nat), NEW q \in 1 .. Len(s) + 1, NEW v \in Nat
  PROVE  /\ InsertAt(s, q, v) \in Seq(Nat) /\ Len(InsertAt(s, q, v)) = Len(s) + 1
         /\ \A r \in 1 .. Len(s) + 1 :
              InsertAt(s, q, v)[r] = IF r < q THEN s[r] ELSE IF r = q THEN v ELSE s[r - 1]
<1>1. PICK n \in Nat : n = Len(s)
  OBVIOUS
<1>2. q \in 1 .. n + 1
  BY <1>1
<1> DEFINE a == SubSeq(s, 1, q - 1)
           b == SubSeq(s, q, Len(s))
           c == <<v>>
<1>3. a \in Seq(Nat) /\ Len(a) = q - 1 /\ \A r \in 1 .. q - 1 : a[r] = s[r]
  BY <1>1, <1>2
<1>4. b \in Seq(Nat) /\ Len(b) = n - q + 1 /\ \A r \in 1 .. n - q + 1 : b[r] = s[r + q - 1]
  <2>1. b = SubSeq(s, q, n)
    BY <1>1
  <2> HIDE DEF b
  <2>2. b \in Seq(Nat) /\ Len(b) = n - q + 1
    BY <1>1, <1>2, <2>1
  <2>3. \A r \in 1 .. n - q + 1 : b[r] = s[r + q - 1]
    <3>1. SUFFICES ASSUME NEW r \in 1 .. n - q + 1 PROVE SubSeq(s, q, n)[r] = s[r + q - 1]
      BY <2>1
    <3>2. n - q + 1 \in Nat /\ q \in Nat /\ n \in Nat
      BY <1>2
    <3> QED
      BY <1>1, <1>2, <3>1, <3>2
  <2> QED
    BY <2>2, <2>3
<1>5. c \in Seq(Nat) /\ Len(c) = 1 /\ c[1] = v
  OBVIOUS
<1>6. InsertAt(s, q, v) = (a \o c) \o b
  BY DEF InsertAt
<1> HIDE DEF a, b, c
<1> DEFINE u == a \o c
<1>7. /\ u \in Seq(Nat) /\ Len(u) = q
      /\ \A r \in 1 .. q : u[r] = IF r < q THEN s[r] ELSE v
  <2>1. /\ u \in Seq(Nat) /\ Len(u) = Len(a) + Len(c)
        /\ \A r \in 1 .. Len(a) + Len(c) : u[r] = IF r <= Len(a) THEN a[r] ELSE c[r - Len(a)]
    BY <1>3, <1>5, ConcatProperties
  <2> HIDE DEF u
  <2>2. Len(u) = q /\ \A r \in 1 .. q : u[r] = IF r <= q - 1 THEN a[r] ELSE c[r - (q - 1)]
    BY <1>2, <1>3, <1>5, <2>1
  <2>3. ASSUME NEW r \in 1 .. q PROVE u[r] = IF r < q THEN s[r] ELSE v
    <3>1. CASE r < q
      <4>1. r \in 1 .. q - 1 /\ r <= q - 1
        BY <1>2, <3>1
      <4>2. u[r] = a[r]
        BY <2>2, <4>1
      <4>3. a[r] = s[r]
        BY <1>3, <4>1
      <4> QED
        BY <3>1, <4>2, <4>3
    <3>2. CASE r = q
      <4>1. r - (q - 1) = 1 /\ ~ (r <= q - 1)
        BY <1>2, <3>2
      <4> QED
        BY <1>5, <2>2, <3>2, <4>1
    <3> QED
      BY <1>2, <3>1, <3>2
  <2> QED
    BY <2>1, <2>2, <2>3
<1> HIDE DEF u
<1>8. /\ u \o b \in Seq(Nat) /\ Len(u \o b) = n + 1
      /\ \A r \in 1 .. n + 1 : (u \o b)[r] = IF r <= q THEN u[r] ELSE b[r - q]
  <2>1. /\ u \o b \in Seq(Nat) /\ Len(u \o b) = Len(u) + Len(b)
        /\ \A r \in 1 .. Len(u) + Len(b) : (u \o b)[r] = IF r <= Len(u) THEN u[r] ELSE b[r - Len(u)]
    BY <1>4, <1>7, ConcatProperties
  <2>2. Len(u) = q /\ Len(u) + Len(b) = n + 1
    BY <1>2, <1>4, <1>7
  <2> QED
    BY <2>1, <2>2
<1>9. ASSUME NEW r \in 1 .. n + 1
      PROVE  (u \o b)[r] = IF r < q THEN s[r] ELSE IF r = q THEN v ELSE s[r - 1]
  <2>1. CASE r <= q
    BY <1>2, <1>7, <1>8, <2>1
  <2>2. CASE ~ (r <= q)
    <3>1. r - q \in 1 .. n - q + 1 /\ (r - q) + q - 1 = r - 1
      BY <1>2, <2>2
    <3>2. b[r - q] = s[r - 1]
      BY <1>4, <3>1
    <3>3. (u \o b)[r] = b[r - q]
      BY <1>8, <2>2
    <3>4. ~ (r < q) /\ r # q
      BY <1>2, <2>2
    <3> QED
      BY <3>2, <3>3, <3>4
  <2> QED
    BY <2>1, <2>2
<1> QED
  BY <1>1, <1>6, <1>8, <1>9 DEF u

\* The element at place m + 1 goes to the place q + 1.
LEMMA MoveFact ==
  ASSUME NEW s \in Seq(Nat), NEW m \in 0 .. Len(s) - 1, NEW q \in 0 .. m
  PROVE  LET w == InsertAt(RemoveAt(s, m + 1), q + 1, s[m + 1])
         IN /\ w \in Seq(Nat) /\ Len(w) = Len(s)
            /\ \A r \in 1 .. Len(s) :
                 w[r] = IF r = q + 1 THEN s[m + 1]
                        ELSE IF q + 1 < r /\ r <= m + 1 THEN s[r - 1] ELSE s[r]
<1>1. PICK n \in Nat : n = Len(s)
  OBVIOUS
<1>2. m \in 0 .. n - 1 /\ m + 1 \in 1 .. n /\ q + 1 \in 1 .. (n - 1) + 1 /\ s[m + 1] \in Nat /\ (n - 1) + 1 = n
  BY <1>1
<1> DEFINE u == RemoveAt(s, m + 1)
           w == InsertAt(u, q + 1, s[m + 1])
<1>3. /\ u \in Seq(Nat) /\ Len(u) = n - 1
      /\ \A r \in 1 .. n - 1 : u[r] = IF r < m + 1 THEN s[r] ELSE s[r + 1]
  BY <1>1, <1>2, RemoveAtFact
<1> HIDE DEF u
<1>4. /\ w \in Seq(Nat) /\ Len(w) = n
      /\ \A r \in 1 .. n : w[r] = IF r < q + 1 THEN u[r] ELSE IF r = q + 1 THEN s[m + 1] ELSE u[r - 1]
  <2>1. q + 1 \in 1 .. Len(u) + 1 /\ Len(u) + 1 = n /\ u \in Seq(Nat) /\ s[m + 1] \in Nat
    BY <1>2, <1>3
  <2>2. /\ w \in Seq(Nat) /\ Len(w) = Len(u) + 1
        /\ \A r \in 1 .. Len(u) + 1 : w[r] = IF r < q + 1 THEN u[r] ELSE IF r = q + 1 THEN s[m + 1] ELSE u[r - 1]
    <3>1. PICK g \in 1 .. Len(u) + 1 : g = q + 1
      BY <2>1
    <3>2. PICK h \in Nat : h = s[m + 1]
      BY <2>1
    <3>0. u \in Seq(Nat)
      BY <2>1
    <3>3. InsertAt(u, g, h) \in Seq(Nat) /\ Len(InsertAt(u, g, h)) = Len(u) + 1
      BY <3>0, InsertAtFact
    <3>5. ASSUME NEW r \in 1 .. Len(u) + 1
          PROVE  InsertAt(u, g, h)[r] = IF r < g THEN u[r] ELSE IF r = g THEN h ELSE u[r - 1]
      BY <3>0, InsertAtFact
    <3>4. w = InsertAt(u, g, h)
      BY <3>1, <3>2
    <3> HIDE DEF w
    <3> QED
      BY <3>1, <3>2, <3>3, <3>4, <3>5
  <2> QED
    BY <2>1, <2>2
<1> HIDE DEF w
<1>5. ASSUME NEW r \in 1 .. n
      PROVE  w[r] = IF r = q + 1 THEN s[m + 1] ELSE IF q + 1 < r /\ r <= m + 1 THEN s[r - 1] ELSE s[r]
  <2>1. CASE r < q + 1
    <3>1. r \in 1 .. n - 1 /\ r < m + 1 /\ ~ (r = q + 1) /\ ~ (q + 1 < r)
      BY <1>2, <2>1
    <3>2. w[r] = u[r]
      BY <1>4, <2>1
    <3>3. u[r] = s[r]
      BY <1>3, <3>1
    <3> QED
      BY <3>1, <3>2, <3>3
  <2>2. CASE r = q + 1
    BY <1>4, <2>2
  <2>3. CASE q + 1 < r
    <3>1. r - 1 \in 1 .. n - 1 /\ (r - 1) + 1 = r /\ (r - 1 < m + 1 <=> r <= m + 1)
      BY <1>2, <2>3
    <3>2. w[r] = u[r - 1]
      BY <1>4, <2>3
    <3>3. u[r - 1] = IF r <= m + 1 THEN s[r - 1] ELSE s[r]
      BY <1>3, <3>1
    <3> QED
      BY <2>3, <3>2, <3>3
  <2> QED
    BY <2>1, <2>2, <2>3
<1> QED
  BY <1>1, <1>4, <1>5 DEF u, w
\* Where the next element goes: after the last of those that stop it.
LEMMA StopsFact ==
  ASSUME SortTypeOK, inserted < NKey
  PROVE  LET q == Max(Stops \cup {-1}) + 1
         IN /\ q \in 0 .. inserted
            /\ q > 0 => Key(sorted, q - 1) <= Key(sorted, inserted)
            /\ \A pos \in q .. inserted - 1 : Key(sorted, inserted) < Key(sorted, pos)
            /\ \A pos \in 0 .. inserted - 1 :
                 Key(sorted, pos) <= Key(sorted, inserted) => pos \in Stops /\ pos < q
<1> DEFINE S == Stops \cup {-1}
           top == Max(S)
<1>1. NKey \in Nat /\ inserted \in 0 .. NKey - 1
  BY DEF SortTypeOK
<1>2. ASSUME NEW pos \in 0 .. NKey - 1 PROVE Key(sorted, pos) \in Int
  <2>1. pos + 1 \in 1 .. NKey
    BY <1>1
  <2>2. sorted[pos + 1] \in 1 .. NKey /\ keys \in [1 .. NKey -> Int]
    BY <2>1 DEF SortTypeOK, IsArrangement
  <2> QED
    BY <2>2 DEF Key
<1>3. ASSUME NEW pos \in 0 .. inserted - 1
      PROVE  pos \in Stops <=> Key(sorted, pos) <= Key(sorted, inserted)
  <2>1. pos \in 0 .. NKey - 1
    BY <1>1
  <2>2. Key(sorted, pos) \in Int /\ Key(sorted, inserted) \in Int
    BY <1>1, <1>2, <2>1
  <2>3. pos \in Stops <=> ~ (Key(sorted, inserted) < Key(sorted, pos))
    BY DEF Stops, Less, ElementAt, Key
  <2> QED
    BY <2>2, <2>3
<1>4. ASSUME NEW v \in S PROVE v \in Int /\ v <= inserted - 1 /\ (v = -1 \/ (v \in Stops /\ v \in 0 .. inserted - 1))
  BY <1>1 DEF Stops
<1>5. top \in S /\ \A v \in S : v <= top
  <2>1. inserted - 1 \in Int /\ S # {}
    BY <1>1
  <2> HIDE DEF S
  <2> QED
    BY <1>4, <2>1, GreatestOf
<1>6. -1 \in S
  OBVIOUS
<1>7. \A pos \in Stops : pos \in S
  OBVIOUS
<1> HIDE DEF S, top
<1>8. top \in -1 .. inserted - 1 /\ top + 1 \in 0 .. inserted /\ (top + 1) - 1 = top
  BY <1>1, <1>4, <1>5, <1>6
<1>9. ASSUME top + 1 > 0 PROVE Key(sorted, top) <= Key(sorted, inserted)
  <2>1. top # -1
    BY <1>8, <1>9
  <2> QED
    BY <1>3, <1>4, <1>5, <2>1
<1>10. ASSUME NEW pos \in 0 .. inserted - 1, Key(sorted, pos) <= Key(sorted, inserted)
       PROVE  pos \in Stops /\ pos < top + 1
  <2>1. pos \in Stops
    BY <1>3, <1>10
  <2>2. pos <= top
    BY <1>5, <1>7, <2>1
  <2> QED
    BY <1>8, <2>1, <2>2
<1>11. ASSUME NEW pos \in top + 1 .. inserted - 1 PROVE Key(sorted, inserted) < Key(sorted, pos)
  <2>1. pos \in 0 .. inserted - 1 /\ ~ (pos < top + 1)
    BY <1>8
  <2>2. ~ (Key(sorted, pos) <= Key(sorted, inserted))
    BY <1>10, <2>1
  <2>3. Key(sorted, pos) \in Int /\ Key(sorted, inserted) \in Int
    <3>1. pos \in 0 .. NKey - 1
      BY <1>1, <2>1
    <3> QED
      BY <1>1, <1>2, <3>1
  <2> QED
    BY <2>2, <2>3
<1> QED
  BY <1>8, <1>9, <1>10, <1>11 DEF top, S

LEMMA InsertStep ==
  ASSUME QuickSortInv, InsertNext
  PROVE  QuickSortInv'
<1> DEFINE q == Max(Stops \cup {-1}) + 1
           w == InsertAt(RemoveAt(sorted, inserted + 1), q + 1, sorted[inserted + 1])
<1>a. SortTypeOK /\ CallsInv /\ LeastInv /\ ScanInv /\ PrefixInv
  BY DEF QuickSortInv
<1>1. NKey \in Nat /\ IsArrangement(sorted) /\ keys \in [1 .. NKey -> Int]
  BY <1>a DEF SortTypeOK
<1>2. /\ sorted \in [1 .. NKey -> 1 .. NKey] /\ Len(sorted) = NKey
      /\ sorted \in Seq(1 .. NKey)
  BY <1>1, ArrangementFact
<1>3. /\ frames = <<>> /\ inserted < NKey /\ inserted' = inserted + 1
      /\ UNCHANGED <<keys, frames, crossing>>
  BY <1>2 DEF InsertNext
<1>4. NKey \in Nat /\ inserted \in 0 .. NKey - 1 /\ inserted > 0
  BY <1>1, <1>3, <1>a DEF SortTypeOK
<1>5. /\ q \in 0 .. inserted
      /\ q > 0 => Key(sorted, q - 1) <= Key(sorted, inserted)
      /\ \A pos \in q .. inserted - 1 : Key(sorted, inserted) < Key(sorted, pos)
      /\ \A pos \in 0 .. inserted - 1 :
           Key(sorted, pos) <= Key(sorted, inserted) => pos \in Stops /\ pos < q
  BY <1>3, <1>a, StopsFact
<1>6. sorted' = w
  <2>1. Max(Stops \cup {-1}) \in Int => Max(Stops \cup {-1}) + 2 = q + 1
    OBVIOUS
  <2>2. sorted' = InsertAt(RemoveAt(sorted, inserted + 1), Max(Stops \cup {-1}) + 2, sorted[inserted + 1])
    BY DEF InsertNext, ElementAt
  <2>3. Max(Stops \cup {-1}) \in Int
    <3>1. \A v \in Stops \cup {-1} : v \in Int /\ v <= inserted
      BY <1>4 DEF Stops
    <3>2. inserted \in Int /\ Stops \cup {-1} # {}
      BY <1>4
    <3>3. Max(Stops \cup {-1}) \in Stops \cup {-1}
      BY <3>1, <3>2, GreatestOf
    <3> QED
      BY <3>1, <3>3
  <2>4. Max(Stops \cup {-1}) + 2 = q + 1
    BY <2>1, <2>3
  <2> QED
    BY <2>2, <2>4
<1> HIDE DEF q
<1>7. /\ w \in Seq(Nat) /\ Len(w) = NKey
      /\ \A r \in 1 .. NKey :
           w[r] = IF r = q + 1 THEN sorted[inserted + 1]
                  ELSE IF q + 1 < r /\ r <= inserted + 1 THEN sorted[r - 1] ELSE sorted[r]
  <2>1. PICK m \in 0 .. Len(sorted) - 1 : m = inserted
    BY <1>2, <1>4
  <2>2. sorted \in Seq(Nat)
    <3>1. 1 .. NKey \subseteq Nat
      BY <1>1
    <3> QED
      BY <1>2, <3>1
  <2>3. q \in 0 .. m
    BY <1>5, <2>1
  <2> DEFINE u == InsertAt(RemoveAt(sorted, m + 1), q + 1, sorted[m + 1])
  <2>4. /\ u \in Seq(Nat) /\ Len(u) = Len(sorted)
        /\ \A r \in 1 .. Len(sorted) :
             u[r] = IF r = q + 1 THEN sorted[m + 1]
                    ELSE IF q + 1 < r /\ r <= m + 1 THEN sorted[r - 1] ELSE sorted[r]
    BY <2>2, <2>3, MoveFact
  <2>5. u = w
    BY <2>1
  <2> HIDE DEF u, w
  <2> QED
    BY <1>2, <2>1, <2>4, <2>5
<1> HIDE DEF w
<1>8. w \in [1 .. NKey -> 1 .. NKey]
  <2>1. ASSUME NEW r \in 1 .. NKey PROVE w[r] \in 1 .. NKey
    <3>1. CASE r = q + 1
      <4>1. inserted + 1 \in 1 .. NKey
        BY <1>4
      <4>2. sorted[inserted + 1] \in 1 .. NKey
        BY <1>2, <4>1
      <4> QED
        BY <1>7, <3>1, <4>2
    <3>2. CASE r # q + 1 /\ q + 1 < r /\ r <= inserted + 1
      <4>1. r - 1 \in 1 .. NKey
        BY <1>4, <1>5, <3>2
      <4>2. sorted[r - 1] \in 1 .. NKey
        BY <1>2, <4>1
      <4> QED
        BY <1>7, <3>2, <4>2
    <3>3. CASE r # q + 1 /\ ~ (q + 1 < r /\ r <= inserted + 1)
      <4>1. sorted[r] \in 1 .. NKey
        BY <1>2
      <4> QED
        BY <1>7, <3>3, <4>1
    <3> QED
      BY <3>1, <3>2, <3>3
  <2>2. PICK n \in Nat : n = NKey
    BY <1>4
  <2>3. w \in [1 .. n -> Nat]
    BY <1>7, <2>2
  <2> QED
    BY <2>1, <2>2, <2>3
<1>9. ASSUME NEW v \in 1 .. NKey PROVE \E r \in 1 .. NKey : w[r] = v
  <2>1. PICK u \in 1 .. NKey : sorted[u] = v
    BY <1>1 DEF IsArrangement
  <2>2. CASE u = inserted + 1
    <3>1. q + 1 \in 1 .. NKey
      BY <1>4, <1>5
    <3> QED
      BY <1>7, <2>1, <2>2, <3>1
  <2>3. CASE q + 1 <= u /\ u < inserted + 1
    <3>1. u + 1 \in 1 .. NKey /\ u + 1 # q + 1 /\ q + 1 < u + 1 /\ u + 1 <= inserted + 1 /\ (u + 1) - 1 = u
      BY <1>4, <1>5, <2>3
    <3>2. w[u + 1] = sorted[u]
      BY <1>7, <3>1
    <3> QED
      BY <2>1, <3>1, <3>2
  <2>4. CASE u < q + 1 \/ u > inserted + 1
    <3>1. u # q + 1 /\ ~ (q + 1 < u /\ u <= inserted + 1)
      BY <1>4, <1>5, <2>4
    <3> QED
      BY <1>7, <2>1, <3>1
  <2> QED
    BY <1>4, <1>5, <2>2, <2>3, <2>4
<1>10. IsArrangement(w)
  BY <1>8, <1>9 DEF IsArrangement
<1>11. ASSUME NEW pos \in 0 .. NKey - 1
       PROVE  Key(w, pos) = IF pos = q THEN Key(sorted, inserted)
                            ELSE IF q < pos /\ pos <= inserted THEN Key(sorted, pos - 1) ELSE Key(sorted, pos)
  <2>1. pos + 1 \in 1 .. NKey
    BY <1>1
  <2>2. CASE pos = q
    <3>1. w[pos + 1] = sorted[inserted + 1]
      BY <1>7, <2>1, <2>2
    <3> QED
      BY <2>2, <3>1 DEF Key
  <2>3. CASE q < pos /\ pos <= inserted
    <3>1. pos + 1 # q + 1 /\ q + 1 < pos + 1 /\ pos + 1 <= inserted + 1 /\ (pos + 1) - 1 = (pos - 1) + 1
      BY <1>4, <1>5, <2>3
    <3>2. w[pos + 1] = sorted[(pos - 1) + 1]
      BY <1>7, <2>1, <3>1
    <3> QED
      BY <1>4, <1>5, <2>3, <3>2 DEF Key
  <2>4. CASE pos # q /\ ~ (q < pos /\ pos <= inserted)
    <3>1. pos + 1 # q + 1 /\ ~ (q + 1 < pos + 1 /\ pos + 1 <= inserted + 1)
      BY <1>4, <1>5, <2>4
    <3>2. w[pos + 1] = sorted[pos + 1]
      BY <1>7, <2>1, <3>1
    <3> QED
      BY <2>4, <3>2 DEF Key
  <2> QED
    BY <2>2, <2>3, <2>4
<1>12. ASSUME NEW pos \in 0 .. NKey - 1 PROVE Key(sorted, pos) \in Int
  <2>1. pos + 1 \in 1 .. NKey
    BY <1>1
  <2>2. sorted[pos + 1] \in 1 .. NKey
    BY <1>2, <2>1
  <2> QED
    BY <1>1, <2>2 DEF Key
<1>13. NKey' = NKey
  BY <1>3 DEF NKey
<1>14. SortTypeOK'
  <2>1. IsArrangement(sorted)'
    BY <1>6, <1>10, <1>13 DEF IsArrangement
  <2>2. inserted' \in 0 .. NKey /\ inserted' > 0
    BY <1>3, <1>4
  <2> QED
    BY <1>3, <1>13, <1>a, <2>1, <2>2 DEF SortTypeOK
<1>15. CallsInv'
  BY <1>3 DEF CallsInv
<1>16. ScanInv'
  <2>1. crossing = <<>>
    BY <1>3, <1>a DEF ScanInv
  <2> QED
    BY <1>3, <2>1 DEF ScanInv
<1>17. ASSUME NEW a \in 0 .. inserted, NEW b \in 0 .. inserted, a < b
       PROVE  Key(w, a) <= Key(w, b)
  <2>0. a \in 0 .. NKey - 1 /\ b \in 0 .. NKey - 1
    BY <1>4
  <2>1. ASSUME NEW c \in 0 .. inserted - 1, NEW d \in 0 .. inserted - 1, c < d
        PROVE  Key(sorted, c) <= Key(sorted, d)
    BY <1>a, <2>1 DEF PrefixInv
  <2>2. CASE a < q /\ b < q
    <3>1. Key(w, a) = Key(sorted, a) /\ Key(w, b) = Key(sorted, b)
      BY <1>4, <1>5, <1>11, <2>0, <2>2
    <3>2. a \in 0 .. inserted - 1 /\ b \in 0 .. inserted - 1
      BY <1>4, <1>5, <2>2
    <3> QED
      BY <1>17, <2>1, <3>1, <3>2
  <2>3. CASE a < q /\ b = q
    <3>1. Key(w, a) = Key(sorted, a) /\ Key(w, b) = Key(sorted, inserted)
      BY <1>4, <1>5, <1>11, <2>0, <2>3
    <3>2. a \in 0 .. inserted - 1 /\ q - 1 \in 0 .. inserted - 1 /\ q > 0
      BY <1>4, <1>5, <2>3
    <3>3. Key(sorted, q - 1) <= Key(sorted, inserted)
      BY <1>5, <3>2
    <3>4. Key(sorted, a) <= Key(sorted, q - 1)
      <4>1. CASE a = q - 1
        <5>1. q - 1 \in 0 .. NKey - 1
          BY <1>4, <3>2
        <5> QED
          BY <1>12, <4>1, <5>1
      <4>2. CASE a < q - 1
        BY <2>1, <3>2, <4>2
      <4> QED
        BY <1>5, <2>3, <4>1, <4>2
    <3>5. Key(sorted, a) \in Int /\ Key(sorted, q - 1) \in Int /\ Key(sorted, inserted) \in Int
      <4>1. q - 1 \in 0 .. NKey - 1
        BY <1>4, <3>2
      <4> QED
        BY <1>4, <1>12, <2>0, <4>1
    <3> QED
      BY <3>1, <3>3, <3>4, <3>5
  <2>4. CASE a < q /\ b > q
    <3>1. Key(w, a) = Key(sorted, a) /\ Key(w, b) = Key(sorted, b - 1)
      BY <1>4, <1>5, <1>11, <2>0, <2>4
    <3>2. a \in 0 .. inserted - 1 /\ b - 1 \in 0 .. inserted - 1 /\ a < b - 1
      BY <1>4, <1>5, <2>4
    <3> QED
      BY <2>1, <3>1, <3>2
  <2>5. CASE a = q /\ b > q
    <3>1. Key(w, a) = Key(sorted, inserted) /\ Key(w, b) = Key(sorted, b - 1)
      BY <1>4, <1>5, <1>11, <2>0, <2>5
    <3>2. b - 1 \in q .. inserted - 1 /\ b - 1 \in 0 .. NKey - 1
      BY <1>4, <1>5, <2>5
    <3>3. Key(sorted, inserted) < Key(sorted, b - 1)
      BY <1>5, <3>2
    <3>4. Key(sorted, inserted) \in Int /\ Key(sorted, b - 1) \in Int
      BY <1>4, <1>12, <3>2
    <3> QED
      BY <3>1, <3>3, <3>4
  <2>6. CASE a > q
    <3>1. Key(w, a) = Key(sorted, a - 1) /\ Key(w, b) = Key(sorted, b - 1)
      <4>1. b > q /\ b <= inserted /\ a <= inserted
        BY <1>4, <1>5, <1>17, <2>6
      <4> QED
        BY <1>4, <1>5, <1>11, <2>0, <2>6, <4>1
    <3>2. a - 1 \in 0 .. inserted - 1 /\ b - 1 \in 0 .. inserted - 1 /\ a - 1 < b - 1
      BY <1>4, <1>5, <1>17, <2>6
    <3> QED
      BY <2>1, <3>1, <3>2
  <2> QED
    BY <1>5, <1>17, <2>2, <2>3, <2>4, <2>5, <2>6
<1>18. PrefixInv'
  <2>1. SUFFICES ASSUME NEW a \in 0 .. inserted' - 1, NEW b \in 0 .. inserted' - 1, a < b
                 PROVE  Key(sorted, a)' <= Key(sorted, b)'
    BY DEF PrefixInv
  <2>2. a \in 0 .. inserted /\ b \in 0 .. inserted
    BY <1>3, <1>4
  <2>3. Key(w, a) <= Key(w, b)
    BY <1>17, <2>1, <2>2
  <2> QED
    BY <1>3, <1>6, <2>3 DEF Key
<1>19. LeastInv'
  <2>1. SUFFICES ASSUME NKey > 0
                 PROVE  \E e \in 1 .. NKey : Divided(w, e) /\ e <= Threshold
    <3>1. ASSUME NEW e, Divided(w, e) PROVE Divided(sorted, e)'
      BY <1>3, <1>6, <1>13, <3>1 DEF Divided, Key
    <3>2. Len(frames') = 0 /\ 1 .. Len(frames') = {}
      BY <1>3
    <3> QED
      BY <1>13, <3>1, <3>2 DEF LeastInv
  <2>2. PICK e \in 1 .. NKey : Divided(sorted, e) /\ e <= Threshold
    <3>1. 1 .. Len(frames) = {}
      BY <1>3
    <3> QED
      BY <1>a, <2>1, <3>1 DEF LeastInv
  <2>3. ASSUME inserted >= e PROVE q >= e
    <3>1. e - 1 \in 0 .. e - 1 /\ inserted \in e .. NKey - 1
      BY <1>4, <2>3
    <3>2. Key(sorted, e - 1) <= Key(sorted, inserted)
      BY <2>2, <3>1 DEF Divided
    <3>3. e - 1 \in 0 .. inserted - 1
      BY <1>4, <2>3
    <3>4. e - 1 < q
      BY <1>5, <3>2, <3>3
    <3> QED
      BY <1>5, <3>4
  <2>4. ASSUME NEW pos \in 0 .. NKey - 1
        PROVE  \E c \in 0 .. NKey - 1 : Key(w, pos) = Key(sorted, c) /\ (pos < e <=> c < e)
    <3>1. CASE pos = q
      <4>1. pos < e <=> inserted < e
        BY <1>4, <1>5, <2>3, <3>1
      <4> QED
        BY <1>4, <1>11, <3>1, <4>1
    <3>2. CASE q < pos /\ pos <= inserted
      <4>1. pos - 1 \in 0 .. NKey - 1
        BY <1>4, <1>5, <3>2
      <4>2. pos < e <=> pos - 1 < e
        BY <1>4, <1>5, <2>3, <3>2
      <4>3. Key(w, pos) = Key(sorted, pos - 1)
        BY <1>5, <1>11, <3>2
      <4> QED
        BY <4>1, <4>2, <4>3
    <3>3. CASE pos # q /\ ~ (q < pos /\ pos <= inserted)
      BY <1>11, <3>3
    <3> QED
      BY <3>1, <3>2, <3>3
  <2>5. Divided(w, e)
    <3>1. e \in 0 .. NKey
      BY <1>1
    <3> QED
      BY <1>1, <2>2, <2>4, <3>1, DividedMoves
  <2> QED
    BY <2>2, <2>5
<1> QED
  BY <1>14, <1>15, <1>16, <1>18, <1>19 DEF QuickSortInv
LEMMA QuickSortInitInv ==
  ASSUME QuickSortInit
  PROVE  QuickSortInv
<1>1. PICK n \in 0 .. MaxSorted : keys \in [1 .. n -> SortKeys]
  BY DEF QuickSortInit
<1>2. n \in Nat /\ n <= MaxSorted /\ SortKeys \subseteq Int /\ Threshold \in Nat \ {0}
  BY QuickSortAssumption
<1>3. NKey = n /\ keys \in [1 .. n -> Int]
  <2>1. keys \in [1 .. n -> Int]
    BY <1>1, <1>2
  <2>2. Len(keys) = n
    BY <1>2, <2>1
  <2> QED
    BY <2>1, <2>2 DEF NKey
<1>4. /\ sorted = [pos \in 1 .. n |-> pos]
      /\ frames = IF n <= Threshold THEN <<>> ELSE <<Frame(0, n, 0)>>
      /\ crossing = <<>>
      /\ inserted = IF keys = <<>> THEN 0 ELSE 1
  BY <1>3 DEF QuickSortInit, NKey
<1>5. keys = <<>> <=> n = 0
  BY <1>1, <1>2
<1>6. IsArrangement(sorted)
  BY <1>3, <1>4 DEF IsArrangement
<1> DEFINE A == Frame(0, n, 0)
<1>7. A \in Calls /\ A.first = 0 /\ A.last = n /\ A.k = 0
  BY <1>2 DEF Frame, Calls
<1> HIDE DEF A
<1>8. ASSUME n > Threshold PROVE frames = <<A>> /\ frames \in Seq(Calls) /\ Len(frames) = 1 /\ frames[1] = A /\ n > 0
  <2>1. frames = <<A>>
    BY <1>2, <1>4, <1>8 DEF A
  <2> QED
    BY <1>2, <1>7, <1>8, <2>1
<1>9. ASSUME n <= Threshold PROVE frames = <<>> /\ frames \in Seq(Calls) /\ Len(frames) = 0 /\ 1 .. Len(frames) = {}
  BY <1>4, <1>9
<1>10. SortTypeOK
  <2>1. inserted \in 0 .. n /\ (n > 0 => inserted > 0) /\ (frames # <<>> => inserted = 1)
    BY <1>2, <1>4, <1>5, <1>8, <1>9
  <2>2. frames \in Seq(Calls)
    BY <1>2, <1>8, <1>9
  <2> QED
    BY <1>2, <1>3, <1>6, <2>1, <2>2 DEF SortTypeOK
<1>11. CallsInv
  <2>1. CASE n > Threshold
    <3>1. ASSUME NEW f \in 1 .. Len(frames) PROVE frames[f] = A
      <4>1. f \in 1 .. 1
        BY <1>8, <2>1
      <4>2. f = 1
        BY <4>1
      <4> QED
        BY <1>8, <2>1, <4>2
    <3>2. 0 <= n /\ n <= n /\ 0 + (n - 0) <= n
      BY <1>2
    <3> QED
      BY <1>3, <1>7, <3>1, <3>2 DEF CallsInv
  <2>2. CASE n <= Threshold
    BY <1>9, <2>2 DEF CallsInv
  <2> QED
    BY <1>2, <2>1, <2>2
<1>12. LeastInv
  <2>1. SUFFICES ASSUME n > 0 PROVE LeastBefore(sorted, frames, n)
    BY <1>2, <1>3 DEF LeastInv, LeastBefore
  <2>2. Divided(sorted, n)
    <3>1. n .. NKey - 1 = {}
      BY <1>2, <1>3
    <3> QED
      BY <3>1 DEF Divided
  <2>3. CASE n > Threshold
    <3>1. ASSUME NEW f \in 1 .. Len(frames) PROVE f = 1 /\ frames[f].first = 0 /\ frames[f].last = n /\ n <= n
      <4>1. f \in 1 .. 1
        BY <1>8, <2>3
      <4>2. f = 1 /\ frames[1] = A
        BY <1>8, <2>3, <4>1
      <4> QED
        BY <1>2, <1>7, <4>2
    <3>2. 1 \in 1 .. Len(frames)
      BY <1>8, <2>3
    <3> QED
      BY <2>2, <3>1, <3>2 DEF LeastBefore
  <2>4. CASE n <= Threshold
    BY <1>9, <2>2, <2>4 DEF LeastBefore
  <2> QED
    BY <1>2, <2>3, <2>4
<1>13. ScanInv
  BY <1>4 DEF ScanInv
<1>14. PrefixInv
  <2>1. \A a, b \in 0 .. inserted - 1 : ~ (a < b)
    BY <1>4
  <2> QED
    BY <2>1 DEF PrefixInv
<1> QED
  BY <1>10, <1>11, <1>12, <1>13, <1>14 DEF QuickSortInv

LEMMA QuickSortStep ==
  ASSUME QuickSortInv, [QuickSortNext]_quickSortVars, TurnsLeft
  PROVE  QuickSortInv'
<1>1. CASE Partition3
  BY <1>1, Partition3Step
<1>2. CASE Cross
  BY <1>2, CrossStep
<1>3. CASE SplitAtCut
  BY <1>3, SplitStep
<1>4. CASE LoopReturns
  BY <1>4, LoopReturnsStep
<1>5. CASE InsertNext
  BY <1>5, InsertStep
<1>6. CASE UNCHANGED quickSortVars
  <2>1. UNCHANGED <<keys, sorted, frames, crossing, inserted>>
    BY <1>6 DEF quickSortVars
  <2>2. NKey' = NKey /\ Innermost' = Innermost
    BY <2>1 DEF NKey, Innermost
  <2>3. SortTypeOK' /\ CallsInv'
    BY <2>1, <2>2 DEF QuickSortInv, SortTypeOK, CallsInv, IsArrangement
  <2>4. ASSUME NEW e PROVE Divided(sorted, e)' = Divided(sorted, e)
    BY <2>1, <2>2 DEF Divided, Key
  <2>5. LeastInv'
    <3>1. ASSUME NKey > 0 PROVE \E e \in 1 .. NKey : LeastBefore(sorted, frames, e)
      BY <3>1 DEF QuickSortInv, LeastInv, LeastBefore
    <3>2. frames' = frames
      BY <2>1
    <3> QED
      BY <2>1, <3>1, <3>2, LeastNext
  <2>6. ScanInv'
    <3>1. ScanInv /\ crossing' = crossing /\ frames' = frames
      BY <2>1 DEF QuickSortInv
    <3>2. ASSUME NEW c, NEW a, NEW b, Scans(sorted, c, a, b) PROVE Scans(sorted, c, a, b)'
      BY <2>1, <2>2, <3>2 DEF Scans, Key
    <3> QED
      BY <2>2, <3>1, <3>2 DEF ScanInv
  <2>7. PrefixInv'
    BY <2>1 DEF QuickSortInv, PrefixInv, Key
  <2> QED
    BY <2>3, <2>5, <2>6, <2>7 DEF QuickSortInv
<1> QED
  BY <1>1, <1>2, <1>3, <1>4, <1>5, <1>6 DEF QuickSortNext

LEMMA InsideOfSort ==
  ASSUME QuickSortInv
  PROVE  SortsInside
<1>a. SortTypeOK /\ CallsInv /\ LeastInv /\ ScanInv /\ PrefixInv
  BY DEF QuickSortInv
<1>1. /\ NKey \in Nat /\ IsArrangement(sorted) /\ keys \in [1 .. NKey -> Int]
      /\ inserted \in 0 .. NKey /\ (NKey > 0 => inserted > 0) /\ Threshold \in Nat \ {0}
  BY <1>a, QuickSortAssumption DEF SortTypeOK
<1>2. /\ sorted \in [1 .. NKey -> 1 .. NKey] /\ DOMAIN sorted = 1 .. NKey /\ DOMAIN keys = 1 .. NKey
  BY <1>1, ArrangementFact
<1>3. ASSUME NEW m \in DOMAIN crossing
      PROVE  /\ Innermost.first <= crossing[m].down /\ crossing[m].down < Innermost.last
             /\ Innermost.first <= crossing[m].up /\ crossing[m].up < Innermost.last
  <2>1. crossing # <<>>
    BY <1>3
  <2>2. frames # <<>> /\ m = 1 /\ Scans(sorted, crossing[1], Innermost.first, Innermost.last)
    BY <1>a, <2>1 DEF ScanInv
  <2>3. /\ crossing[1].up \in Innermost.first .. Innermost.last - 1
        /\ crossing[1].down \in Innermost.first .. Innermost.last - 1
    BY <2>2 DEF Scans
  <2>4. Innermost.first \in Nat /\ Innermost.last \in Nat
    BY <1>a, <2>2, InnermostFact
  <2> QED
    BY <2>2, <2>3, <2>4
<1>4. ASSUME frames = <<>>, inserted \in Threshold .. Len(keys) - 1 PROVE Stops # {}
  <2>1. inserted < NKey /\ inserted >= Threshold
    BY <1>1, <1>4 DEF NKey
  <2>2. PICK e \in 1 .. NKey : Divided(sorted, e) /\ e <= Threshold
    <3>1. 1 .. Len(frames) = {} /\ NKey > 0
      BY <1>1, <1>4, <2>1
    <3> QED
      BY <1>a, <3>1 DEF LeastInv
  <2>3. 0 \in 0 .. e - 1 /\ inserted \in e .. NKey - 1 /\ 0 \in 0 .. inserted - 1
    BY <1>1, <2>1, <2>2
  <2>4. Key(sorted, 0) <= Key(sorted, inserted)
    BY <2>2, <2>3 DEF Divided
  <2>5. 0 \in Stops
    BY <1>a, <2>1, <2>3, <2>4, StopsFact
  <2> QED
    BY <2>5
<1>5. ToSet(sorted) = DOMAIN keys
  BY <1>1, <1>2 DEF ToSet, IsArrangement
<1>6. ASSUME QuickSorted, NEW pos \in 2 .. Len(keys) PROVE ~Less(sorted[pos], sorted[pos - 1])
  <2>1. inserted = NKey /\ pos \in 2 .. NKey
    BY <1>6 DEF QuickSorted, NKey
  <2>2. /\ pos - 2 \in 0 .. inserted - 1 /\ pos - 1 \in 0 .. inserted - 1 /\ pos - 2 < pos - 1
        /\ (pos - 2) + 1 = pos - 1 /\ (pos - 1) + 1 = pos
    BY <1>1, <2>1
  <2>3. Key(sorted, pos - 2) <= Key(sorted, pos - 1)
    BY <1>a, <2>2 DEF PrefixInv
  <2>4. keys[sorted[pos - 1]] <= keys[sorted[pos]]
    BY <2>2, <2>3 DEF Key
  <2>5. keys[sorted[pos - 1]] \in Int /\ keys[sorted[pos]] \in Int
    <3>1. pos - 1 \in 1 .. NKey /\ pos \in 1 .. NKey
      BY <1>1, <2>1
    <3>2. sorted[pos - 1] \in 1 .. NKey /\ sorted[pos] \in 1 .. NKey
      BY <1>2, <3>1
    <3> QED
      BY <1>1, <3>2
  <2> QED
    BY <2>4, <2>5 DEF Less
<1> QED
  BY <1>3, <1>4, <1>5, <1>6 DEF SortsInside

LEMMA ShortTurns ==
  ASSUME QuickSortInv, MaxSorted <= MaxLoop
  PROVE  TurnsLeft
<1>1. SUFFICES ASSUME frames # <<>>, Innermost.last - Innermost.first > Threshold
               PROVE  Innermost.k < MaxLoop
  BY DEF TurnsLeft
<1>2. SortTypeOK /\ CallsInv
  BY DEF QuickSortInv
<1>3. /\ Innermost.first \in Nat /\ Innermost.last \in Nat /\ Innermost.k \in Nat
      /\ Innermost.k + (Innermost.last - Innermost.first) <= NKey
      /\ NKey \in Nat /\ Threshold \in Nat \ {0}
  BY <1>1, <1>2, InnermostFact
<1>4. NKey <= MaxSorted /\ MaxSorted \in Nat /\ MaxLoop \in Nat
  BY <1>2, QuickSortAssumption DEF SortTypeOK
<1> QED
  BY <1>1, <1>3, <1>4

(* quicksort stays inside of the range and sorts it, with all its elements, as  *)
(* long as quicksort_loop does not give up a large part because of its bound.   *)
THEOREM QuickSortCorrect == QuickSortSpec /\ []TurnsLeft => []SortsInside
<1>1. QuickSortInit => QuickSortInv
  BY QuickSortInitInv
<1>2. QuickSortInv /\ TurnsLeft /\ [QuickSortNext]_quickSortVars => QuickSortInv'
  BY QuickSortStep
<1>3. QuickSortInv => SortsInside
  BY InsideOfSort
<1> QED
  BY <1>1, <1>2, <1>3, PTL DEF QuickSortSpec

(* It does not in a range of at most MaxLoop elements, whatever they are: each  *)
(* turn makes the part smaller.                                                 *)
THEOREM ShortRangesSorted ==
  ASSUME MaxSorted <= MaxLoop
  PROVE  QuickSortSpec => []SortsInside /\ []TurnsLeft
<1>1. QuickSortInit => QuickSortInv
  BY QuickSortInitInv
<1>2. QuickSortInv => SortsInside /\ TurnsLeft
  BY InsideOfSort, ShortTurns
<1>3. QuickSortInv /\ [QuickSortNext]_quickSortVars => QuickSortInv'
  BY <1>2, QuickSortStep
<1> QED
  BY <1>1, <1>2, <1>3, PTL DEF QuickSortSpec

-----------------------------------------------------------------------------
(* pivot_partition. What is written for a pivot: the bounds of what is equal to *)
(* it, which are the same but in pivot_partition_eq; the pivots are numbered    *)
(* from 1. The arguments of the operators: the variant, the pivots, the range,  *)
(* the output.                                                                  *)
InfOf(va, os, q) == IF va = "eq" THEN os[2 * q - 1] ELSE os[q]
SupOf(va, os, q) == IF va = "eq" THEN os[2 * q] ELSE os[q]
IsWritten(va, os, q) == InfOf(va, os, q) # -1
IsBelow(xs, e, m) == \A a \in 1 .. Len(xs) : xs[a] < e <=> a <= m
IsUpto(xs, e, m) == \A a \in 1 .. Len(xs) : xs[a] <= e <=> a <= m

\* What is written for a pivot cuts the range, of which it may not be the last
\* permutation. Of several equal pivots one, the owner, has what is equal to them.
OwnedBy(pv, xs, os, q, o) ==
  /\ IsWritten("eq", os, o) /\ pv[o] = pv[q]
  /\ IsBelow(xs, pv[q], os[2 * o - 1]) /\ IsUpto(xs, pv[q], os[2 * o])
  /\ os[2 * q - 1] = IF q <= o THEN os[2 * o - 1] ELSE os[2 * o]
  /\ os[2 * q] = IF q < o THEN os[2 * o - 1] ELSE os[2 * o]
CutsAt(va, pv, xs, os, q) ==
  /\ InfOf(va, os, q) \in 0 .. Len(xs) /\ SupOf(va, os, q) \in 0 .. Len(xs)
  /\ IF va = "eq" THEN \E o \in 1 .. Len(pv) : OwnedBy(pv, xs, os, q, o)
     ELSE IsBelow(xs, pv[q], os[q])

\* A call: the elements of its range are between its neighbouring pivots, those
\* of the other ranges are not between its own, and nothing is written for these.
CallTypeOK(va, pv, xs, f) ==
  /\ f.pf \in Nat /\ f.pl \in Nat /\ f.pf <= f.pl /\ f.pl <= Len(pv)
  /\ f.first \in Nat /\ f.last \in Nat /\ f.first <= f.last /\ f.last <= Len(xs)
  /\ f.at = IF va = "eq" THEN 2 * f.pf ELSE f.pf
HoldsBetween(va, pv, xs, f) ==
  \A a \in f.first + 1 .. f.last : \A q \in 1 .. Len(pv) :
    /\ q <= f.pf => pv[q] <= xs[a] /\ (va = "eq" => pv[q] # xs[a])
    /\ q > f.pl => xs[a] < pv[q]
NotBetween(pv, xs, f) ==
  \A q \in f.pf + 1 .. f.pl :
    /\ \A a \in 1 .. f.first : xs[a] < pv[q]
    /\ \A a \in f.last + 1 .. Len(xs) : pv[q] <= xs[a]
EndsAtCuts(pv, xs, os, f) ==
  /\ IF f.pf = 0 THEN f.first = 0 ELSE IsWritten("eq", os, f.pf) /\ f.first = os[2 * f.pf]
  /\ IF f.pl = Len(pv) THEN f.last = Len(xs)
     ELSE IsWritten("eq", os, f.pl + 1) /\ f.last = os[2 * f.pl + 1]
ToBeWritten(va, os, f) ==
  \A q \in f.pf + 1 .. f.pl :
    IF va = "eq" THEN os[2 * q - 1] = -1 /\ os[2 * q] = -1
    ELSE os[q] # -1 => va = "sort" /\ q = f.pf + 1 /\ os[q] = f.first
CallOK(va, pv, xs, os, f) ==
  /\ CallTypeOK(va, pv, xs, f) /\ HoldsBetween(va, pv, xs, f) /\ ToBeWritten(va, os, f)
  /\ IF va = "eq" THEN EndsAtCuts(pv, xs, os, f) ELSE NotBetween(pv, xs, f)
Apart(f, g) == f.pl <= g.pf /\ f.last <= g.first

ArgsOK(va, inp, pv) ==
  /\ va \in Variants /\ Len(inp) \in Nat /\ inp \in [1 .. Len(inp) -> Values]
  /\ Len(pv) \in Nat /\ pv \in [1 .. Len(pv) -> Int] /\ \A q, r \in 1 .. Len(pv) : q <= r => pv[q] <= pv[r]
  /\ va = "point" => \A q \in 1 .. Len(pv) : PartitionedBy(inp, 0, Len(inp), pv[q])
RangeOK(va, inp, xs) ==
  /\ Len(xs) = Len(inp) /\ xs \in [1 .. Len(inp) -> Values]
  /\ Rearranged(xs, inp) /\ (va = "point" => xs = inp)
Owns(os, q) == IsWritten("eq", os, q) /\ os[2 * q - 1] < os[2 * q]
OutOK(va, pv, xs, os) ==
  /\ os \in [1 .. (IF va = "eq" THEN 2 * Len(pv) ELSE Len(pv)) -> Int]
  /\ \A q \in 1 .. Len(pv) : IsWritten(va, os, q) => CutsAt(va, pv, xs, os, q)
  /\ va = "eq" => \A q, r \in 1 .. Len(pv) : Owns(os, q) /\ Owns(os, r) /\ pv[q] = pv[r] => q = r
CallRecords == [first : Nat, last : Nat, pf : Nat, pl : Nat, at : Nat]
CallsOK(va, pv, xs, os, st) ==
  /\ st \in Seq(CallRecords)
  /\ \A c \in 1 .. Len(st) : CallOK(va, pv, xs, os, st[c])
  /\ \A c, d \in 1 .. Len(st) : c < d => Apart(st[c], st[d])
  /\ \A q \in 1 .. Len(pv) :
       IsWritten(va, os, q) \/ \E c \in 1 .. Len(st) : st[c].pf < q /\ q <= st[c].pl
MidOf(f) == f.pf + (f.pl - f.pf) \div 2
ScanSplit(pv, xs, f, sc) ==
  LET e == MidOf(f)
  IN  /\ sc \in [f : Nat, n : Nat, l : Nat]
      /\ f.first <= sc.f /\ sc.f <= sc.n /\ sc.n <= sc.l /\ sc.l <= f.last
      /\ \A a \in f.first + 1 .. sc.f : xs[a] < pv[e + 1]
      /\ \A a \in sc.f + 1 .. sc.n : xs[a] = pv[e + 1]
      /\ \A a \in sc.l + 1 .. f.last : pv[e + 1] < xs[a]
ScanOK(va, pv, xs, st, sc) ==
  sc # <<>> => va = "eq" /\ st # <<>> /\ st[1].pf < st[1].pl /\ ScanSplit(pv, xs, st[1], sc)
PInv(va, inp, pv, xs, os, st, sc) ==
  /\ ArgsOK(va, inp, pv) /\ RangeOK(va, inp, xs) /\ OutOK(va, pv, xs, os)
  /\ CallsOK(va, pv, xs, os, st) /\ ScanOK(va, pv, xs, st, sc)
PivotInv == PInv(variant, input, pivots, x, out, stack, scan)

\* Two ranges with the same elements, each as many times, are matched.
SameCounts(n, V, s, t) ==
  /\ s \in [1 .. n -> V] /\ t \in [1 .. n -> V]
  /\ \A v \in V : Cardinality({a \in 1 .. n : s[a] = v}) = Cardinality({a \in 1 .. n : t[a] = v})Matches(n, s, t, f) ==
  /\ f \in [1 .. n -> 1 .. n] /\ \A a, b \in 1 .. n : a # b => f[a] # f[b]
  /\ \A a \in 1 .. n : t[f[a]] = s[a]
HeldIn(I, s, W) == {a \in I : s[a] \in W}

LEMMA SameCountsMatch ==
  ASSUME NEW n \in Nat, NEW V, NEW s, NEW t, SameCounts(n, V, s, t)
  PROVE  \E f : Matches(n, s, t, f)
<1> DEFINE Places(z, v) == {a \in 1 .. n : z[a] = v}
           Match(v) == CHOOSE h : h \in Bijection(Places(s, v), Places(t, v))
           f == [a \in 1 .. n |-> Match(s[a])[a]]
<1>0. /\ s \in [1 .. n -> V] /\ t \in [1 .. n -> V]
      /\ \A v \in V : Cardinality(Places(s, v)) = Cardinality(Places(t, v))
  BY DEF SameCounts
<1>1. ASSUME NEW z \in {s, t}, NEW v PROVE IsFiniteSet(Places(z, v)) /\ Places(z, v) \subseteq 1 .. n
  <2>1. IsFiniteSet(1 .. n)
    BY FS_Interval
  <2>2. Places(z, v) \in SUBSET (1 .. n)
    OBVIOUS
  <2> QED
    BY <2>1, <2>2, FS_Subset
<1>2. ASSUME NEW v \in V
      PROVE  Match(v) \in Bijection(Places(s, v), Places(t, v))
  <2>1. Cardinality(Places(s, v)) = Cardinality(Places(t, v))
    BY <1>0
  <2>2. IsFiniteSet(Places(s, v)) /\ IsFiniteSet(Places(t, v))
    BY <1>1
  <2> HIDE DEF At
  <2>3. ExistsBijection(Places(s, v), Places(t, v))
    BY <2>1, <2>2, FS_SameCardinalityBij
  <2> QED
    BY <2>3 DEF ExistsBijection
<1>3. ASSUME NEW a \in 1 .. n
      PROVE  f[a] \in Places(t, s[a])
  <2>1. s[a] \in V /\ a \in Places(s, s[a]) /\ f[a] = Match(s[a])[a]
    BY <1>0
  <2>2. Match(s[a]) \in Bijection(Places(s, s[a]), Places(t, s[a]))
    BY <1>2, <2>1
  <2> HIDE DEF At, Match, f
  <2> QED
    BY <2>1, <2>2 DEF Bijection, Injection
<1>4. ASSUME NEW a \in 1 .. n, NEW b \in 1 .. n, f[a] = f[b]
      PROVE  a = b
  <2>1. s[a] = s[b]
    <3>1. t[f[a]] = s[a] /\ t[f[b]] = s[b]
      BY <1>3
    <3> HIDE DEF f
    <3> QED
      BY <1>4, <3>1
  <2>2. a \in Places(s, s[a]) /\ b \in Places(s, s[a]) /\ s[a] \in V
    BY <1>0, <2>1
  <2>3. Match(s[a])[a] = Match(s[a])[b]
    <3>1. f[a] = Match(s[a])[a] /\ f[b] = Match(s[b])[b]
      OBVIOUS
    <3> HIDE DEF f, Match
    <3> QED
      BY <1>4, <2>1, <3>1
  <2>4. Match(s[a]) \in Bijection(Places(s, s[a]), Places(t, s[a]))
    BY <1>2, <2>2
  <2> HIDE DEF At, Match, f
  <2> QED
    BY <2>2, <2>3, <2>4 DEF Bijection, Injection, IsInjective
<1>5. \A a \in 1 .. n : f[a] \in 1 .. n /\ t[f[a]] = s[a]
  BY <1>3
<1>6. f \in [1 .. n -> 1 .. n]
  BY <1>5
<1>7. \A a, b \in 1 .. n : a # b => f[a] # f[b]
  BY <1>4
<1> HIDE DEF f
<1>8. Matches(n, s, t, f)
  BY <1>5, <1>6, <1>7 DEF Matches
<1> QED
  BY <1>8

\* Hence they have as many elements in any set.
LEMMA NoMoreIn ==
  ASSUME NEW n \in Nat, NEW V, NEW s, NEW t, SameCounts(n, V, s, t),
         NEW W
  PROVE  Cardinality(HeldIn(1 .. n, s, W)) <= Cardinality(HeldIn(1 .. n, t, W))
<1> DEFINE S == HeldIn(1 .. n, s, W)
           T == HeldIn(1 .. n, t, W)
<1>0. PICK f : Matches(n, s, t, f)
  BY Zenon, SameCountsMatch
<1>1. /\ f \in [1 .. n -> 1 .. n] /\ \A a, b \in 1 .. n : a # b => f[a] # f[b]
      /\ \A a \in 1 .. n : t[f[a]] = s[a]
  BY <1>0 DEF Matches
<1> DEFINE g == [a \in S |-> f[a]]
<1>2. IsFiniteSet(T)
  <2>1. IsFiniteSet(1 .. n)
    BY FS_Interval
  <2>2. T \in SUBSET (1 .. n)
    BY DEF HeldIn
  <2> QED
    BY <2>1, <2>2, FS_Subset
<1>3. g \in Injection(S, T)
  <2>1. \A a \in S : a \in 1 .. n /\ f[a] \in T
    BY <1>1 DEF HeldIn
  <2>2. \A a, b \in S : a # b => f[a] # f[b]
    BY <1>1, <2>1
  <2> HIDE DEF S, T
  <2> QED
    BY <2>1, <2>2 DEF Injection, IsInjective
<1> HIDE DEF S, T, g
<1> QED
  BY <1>2, <1>3, FS_Injection DEF S, T

LEMMA SameCountsIn ==
  ASSUME NEW n \in Nat, NEW V, NEW s, NEW t, SameCounts(n, V, s, t),
         NEW W
  PROVE  Cardinality(HeldIn(1 .. n, s, W)) = Cardinality(HeldIn(1 .. n, t, W))
<1> DEFINE S == HeldIn(1 .. n, s, W)
           T == HeldIn(1 .. n, t, W)
<1>0. SameCounts(n, V, t, s)
  BY DEF SameCounts
<1>1. Cardinality(S) <= Cardinality(T)
  BY Zenon, NoMoreIn
<1>2. Cardinality(T) <= Cardinality(S)
  BY Zenon, <1>0, NoMoreIn
<1>3. Cardinality(S) \in Nat /\ Cardinality(T) \in Nat
  <2>1. IsFiniteSet(1 .. n)
    BY FS_Interval
  <2>2. S \in SUBSET (1 .. n) /\ T \in SUBSET (1 .. n)
    BY DEF HeldIn
  <2> QED
    BY <2>1, <2>2, FS_Subset, FS_CardinalityType
<1> HIDE DEF S, T
<1> QED
  BY <1>1, <1>2, <1>3 DEF S, T

\* When they differ in a part only, they have as many in that part.
LEMMA SameCountsInside ==
  ASSUME NEW n \in Nat, NEW V, NEW s, NEW t, SameCounts(n, V, s, t),
         NEW I \in SUBSET (1 .. n), \A a \in (1 .. n) \ I : t[a] = s[a], NEW W
  PROVE  /\ IsFiniteSet(HeldIn(I, s, W)) /\ IsFiniteSet(HeldIn(I, t, W))
         /\ Cardinality(HeldIn(I, s, W)) = Cardinality(HeldIn(I, t, W))
<1> DEFINE O == HeldIn((1 .. n) \ I, s, W)
           S == HeldIn(I, s, W)
           T == HeldIn(I, t, W)
<1>1. IsFiniteSet(O) /\ IsFiniteSet(S) /\ IsFiniteSet(T)
  <2>1. IsFiniteSet(1 .. n)
    BY FS_Interval
  <2>2. O \in SUBSET (1 .. n) /\ S \in SUBSET (1 .. n) /\ T \in SUBSET (1 .. n)
    BY DEF HeldIn
  <2> HIDE DEF O, S, T
  <2> QED
    BY <2>1, <2>2, FS_Subset
<1>2. /\ HeldIn(1 .. n, s, W) = O \cup S /\ HeldIn(1 .. n, t, W) = O \cup T
      /\ O \cap S = {} /\ O \cap T = {}
  <2>1. HeldIn(1 .. n, s, W) = O \cup S
    BY DEF HeldIn
  <2>2. HeldIn(1 .. n, t, W) = O \cup T
    BY DEF HeldIn
  <2>3. O \cap S = {} /\ O \cap T = {}
    BY DEF HeldIn
  <2> QED
    BY <2>1, <2>2, <2>3
<1>3. Cardinality(O \cup S) = Cardinality(O \cup T)
  <2> HIDE DEF O, S, T
  <2>1. Cardinality(HeldIn(1 .. n, s, W)) = Cardinality(HeldIn(1 .. n, t, W))
    BY SameCountsIn
  <2> QED
    BY <1>2, <2>1
<1> HIDE DEF O, S, T
<1>4. /\ Cardinality(O \cup S) = Cardinality(O) + Cardinality(S) - Cardinality(O \cap S)
      /\ Cardinality(O \cup T) = Cardinality(O) + Cardinality(T) - Cardinality(O \cap T)
  <2>1. Cardinality(O \cup S) = Cardinality(O) + Cardinality(S) - Cardinality(O \cap S)
    BY Zenon, <1>1, FS_Union
  <2>2. Cardinality(O \cup T) = Cardinality(O) + Cardinality(T) - Cardinality(O \cap T)
    BY Zenon, <1>1, FS_Union
  <2> QED
    BY <2>1, <2>2
<1>5. Cardinality(O \cap S) = 0 /\ Cardinality(O \cap T) = 0
  <2>1. Cardinality({}) = 0
    BY FS_EmptySet
  <2> QED
    BY <1>2, <2>1
<1>6. Cardinality(O) \in Nat /\ Cardinality(S) \in Nat /\ Cardinality(T) \in Nat
  <2>1. Cardinality(O) \in Nat
    BY Zenon, <1>1, FS_CardinalityType
  <2>2. Cardinality(S) \in Nat
    BY Zenon, <1>1, FS_CardinalityType
  <2>3. Cardinality(T) \in Nat
    BY Zenon, <1>1, FS_CardinalityType
  <2> QED
    BY <2>1, <2>2, <2>3
<1>7. Cardinality(S) = Cardinality(T)
  <2>1. PICK d \in Nat, e \in Nat, f \in Nat :
          d = Cardinality(O) /\ e = Cardinality(S) /\ f = Cardinality(T)
    BY Zenon, <1>6
  <2>2. d + e - 0 = d + f - 0
    BY Zenon, <1>3, <1>4, <1>5, <2>1
  <2>3. e = f
    BY <2>2
  <2> QED
    BY <2>1, <2>3
<1> QED
  BY Zenon, <1>1, <1>7 DEF S, T

LEMMA RearrangedFact ==
  ASSUME NEW n \in Nat, NEW s, NEW t, Len(s) = n, Len(t) = n,
         s \in [1 .. n -> Values], t \in [1 .. n -> Values]
  PROVE  Rearranged(s, t) <=> SameCounts(n, Values, s, t)
<1>1. 0 + 1 = 1
  OBVIOUS
<1>2. ASSUME NEW v
      PROVE  /\ Count(s, LAMBDA e : e = v) = Cardinality({a \in 1 .. n : s[a] = v})
             /\ Count(t, LAMBDA e : e = v) = Cardinality({a \in 1 .. n : t[a] = v})
  BY <1>1 DEF Count, CountIn
<1>3. ASSUME Rearranged(s, t) PROVE SameCounts(n, Values, s, t)
  <2> SUFFICES ASSUME NEW v \in Values
               PROVE  Cardinality({a \in 1 .. n : s[a] = v}) = Cardinality({a \in 1 .. n : t[a] = v})
    BY DEF SameCounts
  <2>1. Count(s, LAMBDA e : e = v) = Count(t, LAMBDA e : e = v)
    BY <1>3 DEF Rearranged
  <2> QED
    BY <1>2, <2>1
<1>4. ASSUME SameCounts(n, Values, s, t) PROVE Rearranged(s, t)
  <2> SUFFICES ASSUME NEW v \in Values
               PROVE  Count(s, LAMBDA e : e = v) = Count(t, LAMBDA e : e = v)
    BY DEF Rearranged
  <2>1. Cardinality({a \in 1 .. n : s[a] = v}) = Cardinality({a \in 1 .. n : t[a] = v})
    BY <1>4 DEF SameCounts
  <2> QED
    BY <1>2, <2>1
<1> QED
  BY <1>3, <1>4

\* A step moves the elements of a part of the range, inside it.
PartMoved(inf, sup, xs, ys) ==
  /\ Len(xs) \in Nat /\ Len(ys) = Len(xs)
  /\ xs \in [1 .. Len(xs) -> Values] /\ ys \in [1 .. Len(xs) -> Values]
  /\ \A a \in 1 .. Len(xs) : ~ (inf < a /\ a <= sup) => ys[a] = xs[a]
  /\ Rearranged(xs, ys)

LEMMA PartMovedCounts ==
  ASSUME NEW inf \in Nat, NEW sup \in Nat, NEW xs, NEW ys,
         sup <= Len(xs), PartMoved(inf, sup, xs, ys), NEW W
  PROVE  /\ IsFiniteSet(HeldIn(inf + 1 .. sup, xs, W)) /\ IsFiniteSet(HeldIn(inf + 1 .. sup, ys, W))
         /\ Cardinality(HeldIn(inf + 1 .. sup, xs, W)) = Cardinality(HeldIn(inf + 1 .. sup, ys, W))
<1>1. PICK n \in Nat : n = Len(xs)
  BY DEF PartMoved
<1>2. SameCounts(n, Values, xs, ys)
  BY <1>1, RearrangedFact DEF PartMoved
<1> DEFINE I == inf + 1 .. sup
<1>3. I \in SUBSET (1 .. n)
  BY <1>1
<1>4. \A a \in (1 .. n) \ I : ys[a] = xs[a]
  BY <1>1 DEF PartMoved
<1> HIDE DEF I
<1>5. /\ IsFiniteSet(HeldIn(I, xs, W)) /\ IsFiniteSet(HeldIn(I, ys, W))
      /\ Cardinality(HeldIn(I, xs, W)) = Cardinality(HeldIn(I, ys, W))
  BY <1>2, <1>3, <1>4, SameCountsInside
<1> QED
  BY <1>5 DEF I

IsFrom(inf, sup, xs, v) == \E b \in inf + 1 .. sup : v = xs[b]

\* What is in the part was in it.
LEMMA PartMovedFrom ==
  ASSUME NEW inf \in Nat, NEW sup \in Nat, NEW xs, NEW ys,
         sup <= Len(xs), PartMoved(inf, sup, xs, ys), NEW a \in inf + 1 .. sup
  PROVE  IsFrom(inf, sup, xs, ys[a])
<1> DEFINE W == {ys[a]}
           I == inf + 1 .. sup
           S == HeldIn(I, xs, W)
           T == HeldIn(I, ys, W)
<1>1. IsFiniteSet(S) /\ IsFiniteSet(T) /\ Cardinality(S) = Cardinality(T)
  <2> HIDE DEF W
  <2> QED
    BY PartMovedCounts
<1>2. a \in T
  BY DEF HeldIn
<1>3. T # {}
  BY <1>2
<1>4. S # {}
  <2> HIDE DEF S, T
  <2>1. Cardinality(T) # 0
    BY <1>1, <1>3, FS_EmptySet
  <2>2. Cardinality(S) # 0
    BY <1>1, <2>1
  <2>3. Cardinality({}) = 0
    BY FS_EmptySet
  <2> QED
    BY <2>2, <2>3
<1> QED
  BY <1>4 DEF HeldIn, IsFrom

\* A part that a pivot partitions is cut where its elements are counted.
LEMMA PartCut ==
  ASSUME NEW inf \in Nat, NEW sup \in Nat, NEW xs, NEW ys, NEW e \in Int, inf <= sup,
         sup <= Len(xs), PartMoved(inf, sup, xs, ys), PartitionedBy(ys, inf, sup, e)
  PROVE  /\ CountIn(xs, inf, sup, LAMBDA v : v < e) \in 0 .. sup - inf
         /\ \A a \in inf + 1 .. sup :
              ys[a] < e <=> a <= inf + CountIn(xs, inf, sup, LAMBDA v : v < e)
<1> DEFINE W == {v \in Values : v < e}
           I == inf + 1 .. sup
           S == {c \in 1 .. sup - inf : ys[inf + c] < e}
           N == Cardinality(S)
           M == sup - inf
<1>1. M \in Nat /\ S \in SUBSET (1 .. M)
  OBVIOUS
<1>2. \A c \in S : \A d \in 1 .. M : d < c => d \in S
  <2> SUFFICES ASSUME NEW c \in S, NEW d \in 1 .. M, d < c PROVE d \in S
    OBVIOUS
  <2>1. inf + c \in inf + 1 .. sup /\ inf + d \in inf + 1 .. sup /\ inf + d < inf + c /\ ys[inf + c] < e
    OBVIOUS
  <2>2. ys[inf + d] < e
    BY <2>1 DEF PartitionedBy
  <2> QED
    BY <2>2
<1>3. /\ IsFiniteSet(S) /\ N \in 0 .. M /\ \A c \in 1 .. M : c \in S <=> c <= N
  <2> HIDE DEF S, M
  <2> QED
    BY <1>1, <1>2, InitialSegment
<1>4. CountIn(xs, inf, sup, LAMBDA v : v < e) = Cardinality(HeldIn(I, xs, W))
  <2>1. \A a \in I : xs[a] \in Values
    BY DEF PartMoved
  <2>2. {a \in I : xs[a] < e} = HeldIn(I, xs, W)
    BY <2>1 DEF HeldIn
  <2> QED
    BY <2>2 DEF CountIn
<1>5. Cardinality(HeldIn(I, xs, W)) = Cardinality(HeldIn(I, ys, W))
  <2> HIDE DEF W
  <2> QED
    BY PartMovedCounts
<1>6. Cardinality(HeldIn(I, ys, W)) = N
  <2> DEFINE T == HeldIn(I, ys, W)
             f == [c \in S |-> inf + c]
  <2>1. \A a \in I : ys[a] \in Values
    BY DEF PartMoved
  <2>2. \A c \in S : inf + c \in T
    BY <2>1 DEF HeldIn
  <2>3. \A a \in T : a - inf \in S /\ inf + (a - inf) = a
    BY DEF HeldIn
  <2>4. \A c, d \in S : inf + c = inf + d => c = d
    OBVIOUS
  <2>5. f \in Bijection(S, T)
    <3> HIDE DEF S, T
    <3>1. f \in [S -> T] /\ \A c \in S : f[c] = inf + c
      BY <2>2
    <3>2. \A c, d \in S : f[c] = f[d] => c = d
      BY <2>4, <3>1
    <3>3. \A a \in T : \E c \in S : f[c] = a
      BY <2>3, <3>1
    <3> HIDE DEF f
    <3> QED
      BY <3>1, <3>2, <3>3 DEF Bijection, Injection, Surjection, IsInjective
  <2> HIDE DEF S, T, f
  <2>6. ExistsBijection(S, T)
    BY <2>5 DEF ExistsBijection
  <2> QED
    BY <1>3, <2>6, FS_Bijection DEF T
<1>7. \A a \in I : a - inf \in 1 .. M /\ (a - inf \in S <=> ys[a] < e)
  OBVIOUS
<1>8. CountIn(xs, inf, sup, LAMBDA v : v < e) = N
  <2> HIDE DEF S, W, I
  <2> QED
    BY <1>4, <1>5, <1>6
<1>9. \A a \in I : ys[a] < e <=> a <= inf + N
  <2> SUFFICES ASSUME NEW a \in I PROVE ys[a] < e <=> a <= inf + N
    OBVIOUS
  <2>1. a - inf \in 1 .. M /\ (a - inf \in S <=> ys[a] < e)
    BY <1>7
  <2>2. a - inf \in S <=> a - inf <= N
    BY <1>3, <2>1
  <2>3. N \in Nat /\ a \in Nat
    BY <1>3
  <2> HIDE DEF N, S
  <2> QED
    BY <2>1, <2>2, <2>3
<1> QED
  BY <1>3, <1>8, <1>9

LEMMA ValuesAreInts == Values \subseteq Int
BY PivotAssumption DEF Values

\* A part whose elements are on one side of a pivot stays on that side.
LEMMA BelowKept ==
  ASSUME NEW inf \in Nat, NEW sup \in Nat, NEW xs, NEW ys, NEW e \in Int, NEW m,
         sup <= Len(xs), PartMoved(inf, sup, xs, ys),
         (\A a \in inf + 1 .. sup : xs[a] < e) \/ \A a \in inf + 1 .. sup : e <= xs[a],
         IsBelow(xs, e, m)
  PROVE  IsBelow(ys, e, m)
<1>1. Len(ys) = Len(xs) /\ Len(xs) \in Nat /\ \A a \in 1 .. Len(xs) : xs[a] \in Int
  BY ValuesAreInts DEF PartMoved
<1>2. ASSUME NEW a \in 1 .. Len(xs) PROVE ys[a] < e <=> xs[a] < e
  <2>1. CASE ~ (inf < a /\ a <= sup)
    BY <2>1 DEF PartMoved
  <2>2. CASE inf < a /\ a <= sup
    <3>1. a \in inf + 1 .. sup
      BY <2>2
    <3>2. PICK b \in inf + 1 .. sup : ys[a] = xs[b]
      BY <3>1, PartMovedFrom DEF IsFrom
    <3>3. xs[a] \in Int /\ xs[b] \in Int
      BY <1>1, <3>2
    <3> QED
      BY <3>1, <3>2, <3>3
  <2> QED
    BY <2>1, <2>2
<1> QED
  BY <1>1, <1>2 DEF IsBelow

LEMMA UptoKept ==
  ASSUME NEW inf \in Nat, NEW sup \in Nat, NEW xs, NEW ys, NEW e \in Int, NEW m,
         sup <= Len(xs), PartMoved(inf, sup, xs, ys),
         (\A a \in inf + 1 .. sup : xs[a] <= e) \/ \A a \in inf + 1 .. sup : e < xs[a],
         IsUpto(xs, e, m)
  PROVE  IsUpto(ys, e, m)
<1>1. Len(ys) = Len(xs) /\ Len(xs) \in Nat /\ \A a \in 1 .. Len(xs) : xs[a] \in Int
  BY ValuesAreInts DEF PartMoved
<1>2. ASSUME NEW a \in 1 .. Len(xs) PROVE ys[a] <= e <=> xs[a] <= e
  <2>1. CASE ~ (inf < a /\ a <= sup)
    BY <2>1 DEF PartMoved
  <2>2. CASE inf < a /\ a <= sup
    <3>1. a \in inf + 1 .. sup
      BY <2>2
    <3>2. PICK b \in inf + 1 .. sup : ys[a] = xs[b]
      BY <3>1, PartMovedFrom DEF IsFrom
    <3>3. xs[a] \in Int /\ xs[b] \in Int
      BY <1>1, <3>2
    <3> QED
      BY <3>1, <3>2, <3>3
  <2> QED
    BY <2>1, <2>2
<1> QED
  BY <1>1, <1>2 DEF IsUpto

\* The elements of a range are on one side of a pivot for which something is written.
OnOneSide(va, xs, f, e) ==
  \/ \A a \in f.first + 1 .. f.last : xs[a] < e
  \/ \A a \in f.first + 1 .. f.last : e <= xs[a] /\ (va = "eq" => e # xs[a])

LEMMA CallSides ==
  ASSUME NEW va, NEW pv, NEW xs, NEW os, NEW f \in CallRecords, NEW q \in 1 .. Len(pv),
         Len(pv) \in Nat, CallOK(va, pv, xs, os, f), IsWritten(va, os, q),
         CutsAt(va, pv, xs, os, q), Len(xs) \in Nat, \A a \in 1 .. Len(xs) : xs[a] \in Int,
         \A r \in 1 .. Len(pv) : pv[r] \in Int
  PROVE  OnOneSide(va, xs, f, pv[q])
<1>1. f.pf \in Nat /\ f.pl \in Nat /\ f.first \in Nat /\ f.last \in Nat /\ f.last <= Len(xs)
  BY DEF CallOK, CallTypeOK
<1>2. CASE q <= f.pf
  BY <1>2 DEF CallOK, HoldsBetween, OnOneSide
<1>3. CASE q > f.pl
  BY <1>3 DEF CallOK, HoldsBetween, OnOneSide
<1>4. CASE f.pf < q /\ q <= f.pl
  <2>1. q \in f.pf + 1 .. f.pl
    BY <1>1, <1>4
  <2>2. va # "eq" /\ os[q] = f.first
    BY <2>1 DEF CallOK, ToBeWritten, IsWritten, InfOf
  <2>3. IsBelow(xs, pv[q], f.first)
    BY <2>2 DEF CutsAt
  <2>4. ASSUME NEW a \in f.first + 1 .. f.last PROVE pv[q] <= xs[a]
    <3>1. a \in 1 .. Len(xs) /\ ~ (a <= f.first)
      BY <1>1
    <3>2. ~ (xs[a] < pv[q])
      BY <2>3, <3>1 DEF IsBelow
    <3> QED
      BY <3>1, <3>2
  <2> QED
    BY <2>2, <2>4 DEF OnOneSide
<1> QED
  BY <1>1, <1>2, <1>3, <1>4

LEMMA CutKept ==
  ASSUME NEW va, NEW pv, NEW xs, NEW ys, NEW os, NEW f \in CallRecords, NEW q \in 1 .. Len(pv),
         f.last <= Len(xs), PartMoved(f.first, f.last, xs, ys), \A r \in 1 .. Len(pv) : pv[r] \in Int,
         OnOneSide(va, xs, f, pv[q]), CutsAt(va, pv, xs, os, q)
  PROVE  CutsAt(va, pv, ys, os, q)
<1>1. Len(ys) = Len(xs) /\ f.first \in Nat /\ f.last \in Nat /\ pv[q] \in Int
  BY DEF PartMoved, CallRecords
<1>2. Len(xs) \in Nat /\ \A a \in 1 .. Len(xs) : xs[a] \in Int
  BY ValuesAreInts DEF PartMoved
<1>3. \A a \in f.first + 1 .. f.last : xs[a] \in Int
  BY <1>1, <1>2
<1>4. ASSUME NEW m, IsBelow(xs, pv[q], m) PROVE IsBelow(ys, pv[q], m)
  <2>1. \/ \A a \in f.first + 1 .. f.last : xs[a] < pv[q]
        \/ \A a \in f.first + 1 .. f.last : pv[q] <= xs[a]
    BY DEF OnOneSide
  <2> QED
    BY <1>1, <1>4, <2>1, BelowKept
<1>5. ASSUME NEW m, va = "eq", IsUpto(xs, pv[q], m) PROVE IsUpto(ys, pv[q], m)
  <2>1. \/ \A a \in f.first + 1 .. f.last : xs[a] <= pv[q]
        \/ \A a \in f.first + 1 .. f.last : pv[q] < xs[a]
    BY <1>1, <1>3, <1>5 DEF OnOneSide
  <2> QED
    BY <1>1, <1>5, <2>1, UptoKept
<1>6. CASE va = "eq"
  <2>1. PICK o \in 1 .. Len(pv) : OwnedBy(pv, xs, os, q, o)
    BY <1>6 DEF CutsAt
  <2>2. OwnedBy(pv, ys, os, q, o)
    BY <1>4, <1>5, <1>6, <2>1 DEF OwnedBy
  <2> QED
    BY <1>1, <1>6, <2>2 DEF CutsAt
<1>7. CASE va # "eq"
  BY <1>1, <1>4, <1>7 DEF CutsAt
<1> QED
  BY <1>6, <1>7

\* What the steps use of the pivots and of the range.
PivotsOK(pv) ==
  /\ Len(pv) \in Nat /\ pv \in [1 .. Len(pv) -> Int]
  /\ \A q, r \in 1 .. Len(pv) : q <= r => pv[q] <= pv[r]
HasInts(xs) == Len(xs) \in Nat /\ \A a \in 1 .. Len(xs) : xs[a] \in Int

LEMMA MovedCallOK ==
  ASSUME NEW va, NEW pv, NEW xs, NEW ys, NEW os, NEW f \in CallRecords,
         f.last <= Len(xs), PartMoved(f.first, f.last, xs, ys), PivotsOK(pv),
         CallOK(va, pv, xs, os, f)
  PROVE  CallOK(va, pv, ys, os, f)
<1>1. /\ Len(ys) = Len(xs) /\ f.first \in Nat /\ f.last \in Nat /\ Len(xs) \in Nat
      /\ \A a \in 1 .. Len(xs) : ~ (f.first < a /\ a <= f.last) => ys[a] = xs[a]
  BY DEF PartMoved, CallRecords
<1>2. CallTypeOK(va, pv, ys, f) /\ ToBeWritten(va, os, f)
  BY <1>1 DEF CallOK, CallTypeOK
<1>3. HoldsBetween(va, pv, ys, f)
  <2> SUFFICES ASSUME NEW a \in f.first + 1 .. f.last, NEW q \in 1 .. Len(pv)
               PROVE  /\ q <= f.pf => pv[q] <= ys[a] /\ (va = "eq" => pv[q] # ys[a])
                      /\ q > f.pl => ys[a] < pv[q]
    BY DEF HoldsBetween
  <2>1. PICK b \in f.first + 1 .. f.last : ys[a] = xs[b]
    <3>1. f.first \in Nat /\ f.last \in Nat
      BY <1>1
    <3>2. IsFrom(f.first, f.last, xs, ys[a])
      BY Zenon, <3>1, PartMovedFrom
    <3> QED
      BY <3>2 DEF IsFrom
  <2>2. HoldsBetween(va, pv, xs, f)
    BY DEF CallOK
  <2>3. /\ q <= f.pf => pv[q] <= xs[b] /\ (va = "eq" => pv[q] # xs[b])
        /\ q > f.pl => xs[b] < pv[q]
    BY <2>2 DEF HoldsBetween
  <2> QED
    BY <2>1, <2>3
<1>4. ASSUME va # "eq" PROVE NotBetween(pv, ys, f)
  <2>1. NotBetween(pv, xs, f)
    BY <1>4 DEF CallOK
  <2>2. \A a \in 1 .. f.first : ys[a] = xs[a]
    <3>1. f.first <= f.last
      BY DEF CallOK, CallTypeOK
    <3> QED
      BY <1>1, <3>1
  <2>3. ASSUME NEW a \in f.last + 1 .. Len(xs) PROVE ys[a] = xs[a]
    <3>0. f.last \in Nat /\ Len(xs) \in Nat
      BY <1>1
    <3>1. a \in 1 .. Len(xs) /\ ~ (a <= f.last)
      BY <3>0
    <3> QED
      BY <1>1, <3>1
  <2> SUFFICES ASSUME NEW q \in f.pf + 1 .. f.pl
               PROVE  /\ \A a \in 1 .. f.first : ys[a] < pv[q]
                      /\ \A a \in f.last + 1 .. Len(xs) : pv[q] <= ys[a]
    BY <1>1 DEF NotBetween
  <2>4. /\ \A a \in 1 .. f.first : xs[a] < pv[q]
        /\ \A a \in f.last + 1 .. Len(xs) : pv[q] <= xs[a]
    BY <2>1 DEF NotBetween
  <2>5. \A a \in 1 .. f.first : ys[a] < pv[q]
    BY <2>2, <2>4
  <2>6. \A a \in f.last + 1 .. Len(xs) : pv[q] <= ys[a]
    BY <2>3, <2>4
  <2> QED
    BY <2>5, <2>6
<1>5. ASSUME va = "eq" PROVE EndsAtCuts(pv, ys, os, f)
  BY <1>1, <1>5 DEF CallOK, EndsAtCuts
<1> QED
  BY <1>2, <1>3, <1>4, <1>5 DEF CallOK

\* The elements of a call are moved: another call.
LEMMA OtherCallOK ==
  ASSUME NEW va, NEW pv, NEW xs, NEW ys, NEW os, NEW f \in CallRecords, NEW g \in CallRecords,
         f.last <= Len(xs), PartMoved(f.first, f.last, xs, ys), PivotsOK(pv),
         CallOK(va, pv, xs, os, g), Apart(f, g)
  PROVE  CallOK(va, pv, ys, os, g)
<1>1. /\ Len(ys) = Len(xs) /\ f.first \in Nat /\ f.last \in Nat /\ Len(xs) \in Nat
      /\ \A a \in 1 .. Len(xs) : ~ (f.first < a /\ a <= f.last) => ys[a] = xs[a]
  BY DEF PartMoved, CallRecords
<1>2. /\ g.first \in Nat /\ g.last \in Nat /\ f.last <= g.first /\ g.first <= g.last
      /\ g.last <= Len(xs)
  BY DEF Apart, CallRecords, CallOK, CallTypeOK
<1>3. CallTypeOK(va, pv, ys, g) /\ ToBeWritten(va, os, g)
  BY <1>1 DEF CallOK, CallTypeOK
<1>4. \A a \in g.first + 1 .. Len(xs) : ys[a] = xs[a]
  BY <1>1, <1>2
<1>5. HoldsBetween(va, pv, ys, g)
  <2>1. \A a \in g.first + 1 .. g.last : ys[a] = xs[a]
    BY <1>2, <1>4
  <2> QED
    BY <2>1 DEF CallOK, HoldsBetween
<1>6. ASSUME va # "eq" PROVE NotBetween(pv, ys, g)
  <2>1. NotBetween(pv, xs, g)
    BY <1>6 DEF CallOK
  <2>2. \A a \in g.last + 1 .. Len(xs) : ys[a] = xs[a]
    BY <1>1, <1>2
  <2>3. ASSUME NEW a \in 1 .. g.first PROVE \E b \in 1 .. g.first : ys[a] = xs[b]
    <3>1. CASE ~ (f.first < a /\ a <= f.last)
      BY <1>1, <1>2, <3>1
    <3>2. CASE f.first < a /\ a <= f.last
      <4>1. PICK b \in f.first + 1 .. f.last : ys[a] = xs[b]
        <5>1. f.first \in Nat /\ f.last \in Nat
          BY <1>1
        <5>2. a \in f.first + 1 .. f.last
          BY <1>1, <1>2, <3>2
        <5>3. IsFrom(f.first, f.last, xs, ys[a])
          BY Zenon, <5>1, <5>2, PartMovedFrom
        <5> QED
          BY <5>3 DEF IsFrom
      <4> QED
        BY <1>1, <1>2, <4>1
    <3> QED
      BY <3>1, <3>2
  <2> SUFFICES ASSUME NEW q \in g.pf + 1 .. g.pl
               PROVE  /\ \A a \in 1 .. g.first : ys[a] < pv[q]
                      /\ \A a \in g.last + 1 .. Len(xs) : pv[q] <= ys[a]
    BY <1>1 DEF NotBetween
  <2>4. /\ \A a \in 1 .. g.first : xs[a] < pv[q]
        /\ \A a \in g.last + 1 .. Len(xs) : pv[q] <= xs[a]
    BY <2>1 DEF NotBetween
  <2>5. \A a \in 1 .. g.first : ys[a] < pv[q]
    BY <2>3, <2>4
  <2>6. \A a \in g.last + 1 .. Len(xs) : pv[q] <= ys[a]
    BY <2>2, <2>4
  <2> QED
    BY <2>5, <2>6
<1>7. ASSUME va = "eq" PROVE EndsAtCuts(pv, ys, os, g)
  BY <1>1, <1>7 DEF CallOK, EndsAtCuts
<1> QED
  BY <1>3, <1>5, <1>6, <1>7 DEF CallOK

LEMMA MoveKeeps ==
  ASSUME NEW va, NEW pv, NEW xs, NEW ys, NEW os, NEW st, st # <<>>, PivotsOK(pv),
         PartMoved(st[1].first, st[1].last, xs, ys),
         OutOK(va, pv, xs, os), CallsOK(va, pv, xs, os, st)
  PROVE  OutOK(va, pv, ys, os) /\ CallsOK(va, pv, ys, os, st)
<1> DEFINE f == st[1]
<1>1. st \in Seq(CallRecords) /\ Len(st) \in Nat /\ 1 \in 1 .. Len(st) /\ f \in CallRecords
  BY DEF CallsOK
<1>2. CallOK(va, pv, xs, os, f) /\ f.last <= Len(xs)
  BY <1>1 DEF CallsOK, CallOK, CallTypeOK
<1>3. \A c \in 1 .. Len(st) : CallOK(va, pv, ys, os, st[c])
  <2> SUFFICES ASSUME NEW c \in 1 .. Len(st) PROVE CallOK(va, pv, ys, os, st[c])
    OBVIOUS
  <2>1. CASE c = 1
    BY <1>1, <1>2, <2>1, MovedCallOK
  <2>2. CASE c # 1
    <3>1. Apart(f, st[c]) /\ CallOK(va, pv, xs, os, st[c]) /\ st[c] \in CallRecords
      BY <1>1, <2>2 DEF CallsOK
    <3> HIDE DEF f
    <3> QED
      BY <1>1, <1>2, <3>1, OtherCallOK DEF f
  <2> QED
    BY <2>1, <2>2
<1>4. CallsOK(va, pv, ys, os, st)
  BY <1>3 DEF CallsOK
<1>5. HasInts(xs)
  BY ValuesAreInts DEF PartMoved, HasInts
<1>6. ASSUME NEW q \in 1 .. Len(pv), IsWritten(va, os, q) PROVE CutsAt(va, pv, ys, os, q)
  <2>1. CutsAt(va, pv, xs, os, q)
    BY <1>6 DEF OutOK
  <2>2. /\ Len(pv) \in Nat /\ Len(xs) \in Nat /\ \A a \in 1 .. Len(xs) : xs[a] \in Int
        /\ \A r \in 1 .. Len(pv) : pv[r] \in Int
    BY <1>5 DEF PivotsOK, HasInts
  <2> HIDE DEF f
  <2>3. OnOneSide(va, xs, f, pv[q])
    BY <1>1, <1>2, <1>6, <2>1, <2>2, CallSides
  <2>4. PartMoved(f.first, f.last, xs, ys)
    BY DEF f
  <2> QED
    BY <1>1, <1>2, <2>1, <2>2, <2>3, <2>4, CutKept
<1>7. OutOK(va, pv, ys, os)
  BY <1>6 DEF OutOK
<1> QED
  BY <1>4, <1>7

LEMMA TailCalls ==
  ASSUME NEW st \in Seq(CallRecords), st # <<>>
  PROVE  /\ Tail(st) \in Seq(CallRecords) /\ Len(st) \in Nat /\ Len(Tail(st)) = Len(st) - 1
         /\ \A c \in 1 .. Len(st) - 1 : Tail(st)[c] = st[c + 1]
<1> HIDE DEF CallRecords
<1> QED
  OBVIOUS

\* A call returns.
LEMMA PopCall ==
  ASSUME NEW va, NEW pv, NEW xs, NEW os, NEW st \in Seq(CallRecords), st # <<>>,
         \A c \in 2 .. Len(st) : CallOK(va, pv, xs, os, st[c]),
         \A c, d \in 1 .. Len(st) : c < d => Apart(st[c], st[d]),
         \A q \in 1 .. Len(pv) :
           IsWritten(va, os, q) \/ \E c \in 2 .. Len(st) : st[c].pf < q /\ q <= st[c].pl
  PROVE  CallsOK(va, pv, xs, os, Tail(st))
<1>1. PICK N \in Nat : N = Len(st)
  BY TailCalls
<1> DEFINE t == Tail(st)
<1>2. t \in Seq(CallRecords) /\ Len(t) = N - 1 /\ \A c \in 1 .. N - 1 : t[c] = st[c + 1]
  BY <1>1, TailCalls
<1> HIDE DEF t
<1>3. \A c \in 1 .. Len(t) : CallOK(va, pv, xs, os, t[c])
  <2> SUFFICES ASSUME NEW c \in 1 .. N - 1 PROVE CallOK(va, pv, xs, os, st[c + 1])
    BY <1>2
  <2>1. c + 1 \in 2 .. Len(st)
    BY <1>1
  <2> QED
    BY <2>1
<1>4. \A c, d \in 1 .. Len(t) : c < d => Apart(t[c], t[d])
  <2> SUFFICES ASSUME NEW c \in 1 .. N - 1, NEW d \in 1 .. N - 1, c < d
               PROVE  Apart(st[c + 1], st[d + 1])
    BY <1>2
  <2>1. c + 1 \in 1 .. Len(st) /\ d + 1 \in 1 .. Len(st) /\ c + 1 < d + 1
    BY <1>1
  <2> QED
    BY <2>1
<1>5. ASSUME NEW q \in 1 .. Len(pv), ~ IsWritten(va, os, q)
      PROVE  \E c \in 1 .. Len(t) : t[c].pf < q /\ q <= t[c].pl
  <2>1. PICK d \in 2 .. Len(st) : st[d].pf < q /\ q <= st[d].pl
    BY <1>5
  <2>2. d - 1 \in 1 .. N - 1 /\ (d - 1) + 1 = d
    BY <1>1
  <2>3. t[d - 1] = st[d]
    BY <1>2, <2>2
  <2> QED
    BY <1>2, <2>1, <2>2, <2>3
<1>6. CallsOK(va, pv, xs, os, t)
  BY <1>2, <1>3, <1>4, <1>5 DEF CallsOK
<1> QED
  BY <1>6 DEF t

\* A call is replaced by the calls that it makes.
LEMMA PushCalls ==
  ASSUME NEW va, NEW pv, NEW xs, NEW os, NEW st \in Seq(CallRecords), st # <<>>,
         NEW l \in CallRecords, NEW r \in CallRecords,
         \A c \in 2 .. Len(st) : CallOK(va, pv, xs, os, st[c]),
         \A c, d \in 1 .. Len(st) : c < d => Apart(st[c], st[d]),
         CallOK(va, pv, xs, os, l), CallOK(va, pv, xs, os, r), Apart(l, r),
         l.pl <= st[1].pl, l.last <= st[1].last, r.pl <= st[1].pl, r.last <= st[1].last,
         \A q \in 1 .. Len(pv) :
           \/ IsWritten(va, os, q)
           \/ l.pf < q /\ q <= l.pl
           \/ r.pf < q /\ q <= r.pl
           \/ \E c \in 2 .. Len(st) : st[c].pf < q /\ q <= st[c].pl
  PROVE  CallsOK(va, pv, xs, os, <<l, r>> \o Tail(st))
<1>1. PICK N \in Nat : N = Len(st) /\ N >= 1
  <2>1. Len(st) \in Nat /\ Len(st) >= 1
    <3> HIDE DEF CallRecords
    <3> QED
      OBVIOUS
  <2> QED
    BY <2>1
<1> DEFINE t == <<l, r>> \o Tail(st)
<1>2. /\ t \in Seq(CallRecords) /\ Len(t) = N + 1 /\ t[1] = l /\ t[2] = r
      /\ \A c \in 3 .. N + 1 : t[c] = st[c - 1]
  <2> DEFINE w == Tail(st)
             z == <<l, r>>
  <2>1. w \in Seq(CallRecords) /\ Len(w) = N - 1 /\ \A c \in 1 .. N - 1 : w[c] = st[c + 1]
    BY <1>1, TailCalls
  <2>2. z \in Seq(CallRecords) /\ Len(z) = 2 /\ z[1] = l /\ z[2] = r
    <3> HIDE DEF CallRecords
    <3> QED
      OBVIOUS
  <2> HIDE DEF w, z, CallRecords
  <2>3. /\ z \o w \in Seq(CallRecords) /\ Len(z \o w) = Len(z) + Len(w)
        /\ \A c \in 1 .. Len(z) + Len(w) : (z \o w)[c] = IF c <= Len(z) THEN z[c] ELSE w[c - Len(z)]
    BY <2>1, <2>2, ConcatProperties
  <2>4. t = z \o w
    BY DEF w, z
  <2> HIDE DEF t
  <2>5. t \in Seq(CallRecords) /\ Len(t) = N + 1
    BY <2>1, <2>2, <2>3, <2>4
  <2>6. t[1] = l /\ t[2] = r
    BY <2>1, <2>2, <2>3, <2>4
  <2>7. ASSUME NEW c \in 3 .. N + 1 PROVE t[c] = st[c - 1]
    <3>1. c \in 1 .. Len(z) + Len(w) /\ ~ (c <= Len(z)) /\ c - Len(z) = c - 2
      BY <2>1, <2>2
    <3>2. t[c] = w[c - 2]
      BY <2>3, <2>4, <3>1
    <3>3. c - 2 \in 1 .. N - 1 /\ (c - 2) + 1 = c - 1
      OBVIOUS
    <3> QED
      BY <2>1, <3>2, <3>3
  <2> QED
    BY <2>5, <2>6, <2>7
<1> HIDE DEF t
<1>3. \A c \in 1 .. Len(t) : CallOK(va, pv, xs, os, t[c])
  <2> SUFFICES ASSUME NEW c \in 1 .. N + 1 PROVE CallOK(va, pv, xs, os, t[c])
    BY <1>2
  <2>1. CASE c = 1
    BY <1>2, <2>1
  <2>2. CASE c = 2
    BY <1>2, <2>2
  <2>3. CASE c \in 3 .. N + 1
    <3>1. c - 1 \in 2 .. Len(st)
      BY <1>1, <2>3
    <3> QED
      BY <1>2, <2>3, <3>1
  <2> QED
    BY <1>1, <2>1, <2>2, <2>3
<1>4. ASSUME NEW d \in 3 .. N + 1 PROVE Apart(l, t[d]) /\ Apart(r, t[d])
  <2>1. t[d] = st[d - 1] /\ d - 1 \in 1 .. Len(st) /\ 1 \in 1 .. Len(st) /\ 1 < d - 1
    BY <1>1, <1>2
  <2>2. Apart(st[1], t[d])
    BY <2>1
  <2>3. st[1] \in CallRecords /\ t[d] \in CallRecords
    BY <2>1
  <2>4. /\ st[1].pl \in Nat /\ st[1].last \in Nat /\ t[d].pf \in Nat /\ t[d].first \in Nat
        /\ l.pl \in Nat /\ l.last \in Nat /\ r.pl \in Nat /\ r.last \in Nat
    BY <2>3 DEF CallRecords
  <2> QED
    BY <2>2, <2>4 DEF Apart
<1>5. \A c, d \in 1 .. Len(t) : c < d => Apart(t[c], t[d])
  <2> SUFFICES ASSUME NEW c \in 1 .. N + 1, NEW d \in 1 .. N + 1, c < d
               PROVE  Apart(t[c], t[d])
    BY <1>2
  <2>1. CASE c = 1 /\ d = 2
    BY <1>2, <2>1
  <2>2. CASE c = 1 /\ d \in 3 .. N + 1
    BY <1>2, <1>4, <2>2
  <2>3. CASE c = 2 /\ d \in 3 .. N + 1
    BY <1>2, <1>4, <2>3
  <2>4. CASE c \in 3 .. N + 1 /\ d \in 3 .. N + 1
    <3>1. c - 1 \in 1 .. Len(st) /\ d - 1 \in 1 .. Len(st) /\ c - 1 < d - 1
      BY <1>1, <2>4
    <3>2. Apart(st[c - 1], st[d - 1])
      BY <3>1
    <3> QED
      BY <1>2, <2>4, <3>2
  <2> QED
    BY <1>1, <2>1, <2>2, <2>3, <2>4
<1>6. ASSUME NEW q \in 1 .. Len(pv), ~ IsWritten(va, os, q)
      PROVE  \E c \in 1 .. Len(t) : t[c].pf < q /\ q <= t[c].pl
  <2>0. Len(t) = N + 1 /\ 1 \in 1 .. N + 1 /\ 2 \in 1 .. N + 1
    BY <1>1, <1>2
  <2>1. CASE l.pf < q /\ q <= l.pl
    BY <1>2, <2>0, <2>1
  <2>2. CASE r.pf < q /\ q <= r.pl
    BY <1>2, <2>0, <2>2
  <2>3. ASSUME NEW d \in 2 .. Len(st), st[d].pf < q /\ q <= st[d].pl
        PROVE  \E c \in 1 .. Len(t) : t[c].pf < q /\ q <= t[c].pl
    <3>1. d + 1 \in 3 .. N + 1 /\ d + 1 \in 1 .. N + 1 /\ (d + 1) - 1 = d
      BY <1>1
    <3>2. t[d + 1] = st[d]
      BY <1>2, <3>1
    <3> QED
      BY <2>0, <2>3, <3>1, <3>2
  <2> QED
    BY <1>6, <2>1, <2>2, <2>3
<1>7. CallsOK(va, pv, xs, os, t)
  BY <1>2, <1>3, <1>5, <1>6 DEF CallsOK
<1> QED
  BY <1>7 DEF t

LEMMA MidFacts ==
  ASSUME NEW f \in CallRecords, f.pf < f.pl
  PROVE  /\ MidOf(f) \in Nat /\ f.pf <= MidOf(f) /\ MidOf(f) < f.pl
         /\ f.pl - f.pf > 1 => f.pf < MidOf(f)
<1>1. f.pf \in Nat /\ f.pl \in Nat
  BY DEF CallRecords
<1> QED
  BY <1>1 DEF MidOf

\* A pivot splits the range of a call.
LEMMA SplitCut ==
  ASSUME NEW va, NEW pv, NEW xs, NEW os, NEW f \in CallRecords, NEW m \in Nat, NEW e \in Nat,
         va # "eq", PivotsOK(pv), HasInts(xs), CallOK(va, pv, xs, os, f),
         f.pf <= e, e < f.pl, f.first <= m, m <= f.last,
         \A a \in f.first + 1 .. f.last : xs[a] < pv[e + 1] <=> a <= m
  PROVE  IsBelow(xs, pv[e + 1], m)
<1>1. /\ f.first \in Nat /\ f.last \in Nat /\ f.last <= Len(xs) /\ Len(xs) \in Nat
      /\ e + 1 \in f.pf + 1 .. f.pl /\ e + 1 \in 1 .. Len(pv) /\ pv[e + 1] \in Int
  BY DEF CallRecords, CallOK, CallTypeOK, HasInts, PivotsOK
<1>2. NotBetween(pv, xs, f)
  BY DEF CallOK
<1> SUFFICES ASSUME NEW a \in 1 .. Len(xs) PROVE xs[a] < pv[e + 1] <=> a <= m
  BY DEF IsBelow
<1>3. xs[a] \in Int
  BY DEF HasInts
<1>4. CASE a <= f.first
  <2>1. a \in 1 .. f.first
    BY <1>1, <1>4
  <2>2. xs[a] < pv[e + 1]
    BY <1>1, <1>2, <2>1 DEF NotBetween
  <2> QED
    BY <1>1, <1>4, <2>2
<1>5. CASE f.last < a
  <2>1. a \in f.last + 1 .. Len(xs)
    BY <1>1, <1>5
  <2>2. pv[e + 1] <= xs[a]
    BY <1>1, <1>2, <2>1 DEF NotBetween
  <2> QED
    BY <1>1, <1>3, <1>5, <2>2
<1>6. CASE f.first < a /\ a <= f.last
  BY <1>1, <1>6
<1> QED
  BY <1>1, <1>4, <1>5, <1>6

IsPivotSplit(va, pv, xs, os, os2, f, m, e) ==
  /\ va # "eq" /\ PivotsOK(pv) /\ HasInts(xs) /\ CallOK(va, pv, xs, os, f)
  /\ f.pf <= e /\ e < f.pl /\ f.first <= m /\ m <= f.last /\ IsBelow(xs, pv[e + 1], m)
  /\ \A q \in 1 .. Len(pv) : os2[q] = IF q = e + 1 THEN m ELSE os[q]

LEMMA SplitLeft ==
  ASSUME NEW va, NEW pv, NEW xs, NEW os, NEW os2, NEW f \in CallRecords, NEW m \in Nat, NEW e \in Nat,
         NEW g \in CallRecords, IsPivotSplit(va, pv, xs, os, os2, f, m, e),
         g.first = f.first, g.last = m, g.pf = f.pf, g.pl = e, g.at = f.at
  PROVE  CallOK(va, pv, xs, os2, g)
<1> USE DEF IsPivotSplit
<1>1. /\ f.first \in Nat /\ f.last \in Nat /\ f.last <= Len(xs) /\ Len(xs) \in Nat
      /\ f.pf \in Nat /\ f.pl \in Nat /\ f.pl <= Len(pv) /\ Len(pv) \in Nat
      /\ e + 1 \in 1 .. Len(pv) /\ \A q \in 1 .. Len(pv) : pv[q] \in Int
      /\ \A a \in 1 .. Len(xs) : xs[a] \in Int
  <2>1. PivotsOK(pv) /\ HasInts(xs) /\ CallTypeOK(va, pv, xs, f) /\ e < f.pl
    BY DEF CallOK
  <2> HIDE DEF IsPivotSplit
  <2>2. /\ f.first \in Nat /\ f.last \in Nat /\ f.last <= Len(xs) /\ Len(xs) \in Nat
        /\ f.pf \in Nat /\ f.pl \in Nat /\ f.pl <= Len(pv) /\ Len(pv) \in Nat
    BY <2>1 DEF CallTypeOK, HasInts, PivotsOK
  <2>3. e + 1 \in 1 .. Len(pv)
    BY <2>1, <2>2
  <2> QED
    BY <2>1, <2>2, <2>3 DEF HasInts, PivotsOK
<1>2. CallTypeOK(va, pv, xs, g)
  BY <1>1 DEF CallOK, CallTypeOK
<1>3. HoldsBetween(va, pv, xs, g)
  <2> SUFFICES ASSUME NEW a \in f.first + 1 .. m, NEW q \in 1 .. Len(pv)
               PROVE  (q <= f.pf => pv[q] <= xs[a]) /\ (q > e => xs[a] < pv[q])
    BY DEF HoldsBetween
  <2>1. a \in f.first + 1 .. f.last /\ a \in 1 .. Len(xs) /\ a <= m
    BY <1>1
  <2>2. q <= f.pf => pv[q] <= xs[a]
    BY <2>1 DEF CallOK, HoldsBetween
  <2>3. xs[a] < pv[e + 1]
    BY <2>1 DEF IsBelow
  <2>4. q > e => pv[e + 1] <= pv[q]
    BY <1>1 DEF PivotsOK
  <2>5. xs[a] \in Int /\ pv[q] \in Int /\ pv[e + 1] \in Int
    BY <1>1, <2>1
  <2> QED
    BY <2>2, <2>3, <2>4, <2>5
<1>4. ToBeWritten(va, os2, g)
  <2> SUFFICES ASSUME NEW q \in f.pf + 1 .. e
               PROVE  os2[q] # -1 => va = "sort" /\ q = f.pf + 1 /\ os2[q] = f.first
    BY DEF ToBeWritten
  <2>1. q \in f.pf + 1 .. f.pl /\ q \in 1 .. Len(pv) /\ q # e + 1
    BY <1>1
  <2>2. os2[q] = os[q]
    BY <2>1
  <2> QED
    BY <2>1, <2>2 DEF CallOK, ToBeWritten
<1>5. NotBetween(pv, xs, g)
  <2> SUFFICES ASSUME NEW q \in f.pf + 1 .. e
               PROVE  /\ \A a \in 1 .. f.first : xs[a] < pv[q]
                      /\ \A a \in m + 1 .. Len(xs) : pv[q] <= xs[a]
    BY DEF NotBetween
  <2>1. q \in f.pf + 1 .. f.pl /\ q \in 1 .. Len(pv) /\ q <= e + 1
    BY <1>1
  <2>2. \A a \in 1 .. f.first : xs[a] < pv[q]
    BY <2>1 DEF CallOK, NotBetween
  <2>3. pv[q] <= pv[e + 1]
    BY <1>1, <2>1 DEF PivotsOK
  <2>4. ASSUME NEW a \in m + 1 .. Len(xs) PROVE pv[q] <= xs[a]
    <3>1. a \in 1 .. Len(xs) /\ ~ (a <= m)
      BY <1>1
    <3>2. ~ (xs[a] < pv[e + 1])
      BY <3>1 DEF IsBelow
    <3>3. xs[a] \in Int /\ pv[q] \in Int /\ pv[e + 1] \in Int
      BY <1>1, <2>1, <3>1
    <3> QED
      BY <2>3, <3>2, <3>3
  <2> QED
    BY <2>2, <2>4
<1> QED
  BY <1>2, <1>3, <1>4, <1>5 DEF CallOK

LEMMA SplitRight ==
  ASSUME NEW va, NEW pv, NEW xs, NEW os, NEW os2, NEW f \in CallRecords, NEW m \in Nat, NEW e \in Nat,
         NEW g \in CallRecords, IsPivotSplit(va, pv, xs, os, os2, f, m, e), f.pf < e,
         g.first = m, g.last = f.last, g.pl = f.pl, g.at = g.pf,
         g.pf = IF va = "sort" THEN e ELSE e + 1
  PROVE  CallOK(va, pv, xs, os2, g)
<1> USE DEF IsPivotSplit
<1>1. /\ f.first \in Nat /\ f.last \in Nat /\ f.last <= Len(xs) /\ Len(xs) \in Nat
      /\ f.pf \in Nat /\ f.pl \in Nat /\ f.pl <= Len(pv) /\ Len(pv) \in Nat
      /\ e + 1 \in 1 .. Len(pv) /\ \A q \in 1 .. Len(pv) : pv[q] \in Int
      /\ \A a \in 1 .. Len(xs) : xs[a] \in Int
  <2>1. PivotsOK(pv) /\ HasInts(xs) /\ CallTypeOK(va, pv, xs, f) /\ e < f.pl
    BY DEF CallOK
  <2> HIDE DEF IsPivotSplit
  <2>2. /\ f.first \in Nat /\ f.last \in Nat /\ f.last <= Len(xs) /\ Len(xs) \in Nat
        /\ f.pf \in Nat /\ f.pl \in Nat /\ f.pl <= Len(pv) /\ Len(pv) \in Nat
    BY <2>1 DEF CallTypeOK, HasInts, PivotsOK
  <2>3. e + 1 \in 1 .. Len(pv)
    BY <2>1, <2>2
  <2> QED
    BY <2>1, <2>2, <2>3 DEF HasInts, PivotsOK
<1>2. CallTypeOK(va, pv, xs, g)
  <2>1. m <= f.last /\ e < f.pl /\ va # "eq"
    OBVIOUS
  <2> HIDE DEF IsPivotSplit
  <2>2. g.pf \in Nat /\ g.pf <= f.pl
    BY <1>1, <2>1
  <2> QED
    BY <1>1, <2>1, <2>2 DEF CallTypeOK
<1>3. HoldsBetween(va, pv, xs, g)
  <2> SUFFICES ASSUME NEW a \in m + 1 .. f.last, NEW q \in 1 .. Len(pv)
               PROVE  (q <= e + 1 => pv[q] <= xs[a]) /\ (q > f.pl => xs[a] < pv[q])
    <3>1. va # "eq"
      OBVIOUS
    <3> HIDE DEF IsPivotSplit
    <3>2. g.pf <= e + 1 /\ g.pf \in Nat
      OBVIOUS
    <3> QED
      BY <1>1, <3>1, <3>2 DEF HoldsBetween
  <2>1. a \in f.first + 1 .. f.last /\ a \in 1 .. Len(xs) /\ ~ (a <= m)
    BY <1>1
  <2>2. q > f.pl => xs[a] < pv[q]
    BY <2>1 DEF CallOK, HoldsBetween
  <2>3. ~ (xs[a] < pv[e + 1])
    BY <2>1 DEF IsBelow
  <2>4. q <= e + 1 => pv[q] <= pv[e + 1]
    BY <1>1 DEF PivotsOK
  <2>5. xs[a] \in Int /\ pv[q] \in Int /\ pv[e + 1] \in Int
    BY <1>1, <2>1
  <2> QED
    BY <2>2, <2>3, <2>4, <2>5
<1>4. ToBeWritten(va, os2, g)
  <2> SUFFICES ASSUME NEW q \in g.pf + 1 .. f.pl
               PROVE  os2[q] # -1 => va = "sort" /\ q = g.pf + 1 /\ os2[q] = m
    BY DEF ToBeWritten
  <2>1. q \in f.pf + 1 .. f.pl /\ q \in 1 .. Len(pv) /\ q >= e + 1
    BY <1>1
  <2>2. CASE q = e + 1
    BY <1>1, <2>1, <2>2
  <2>3. CASE q # e + 1
    <3>1. os2[q] = os[q] /\ q # f.pf + 1
      BY <1>1, <2>1, <2>3
    <3> QED
      BY <2>1, <3>1 DEF CallOK, ToBeWritten
  <2> QED
    BY <2>2, <2>3
<1>5. NotBetween(pv, xs, g)
  <2> SUFFICES ASSUME NEW q \in g.pf + 1 .. f.pl
               PROVE  /\ \A a \in 1 .. m : xs[a] < pv[q]
                      /\ \A a \in f.last + 1 .. Len(xs) : pv[q] <= xs[a]
    BY DEF NotBetween
  <2>1. q \in f.pf + 1 .. f.pl /\ q \in 1 .. Len(pv) /\ q >= e + 1
    BY <1>1
  <2>2. \A a \in f.last + 1 .. Len(xs) : pv[q] <= xs[a]
    BY <2>1 DEF CallOK, NotBetween
  <2>3. pv[e + 1] <= pv[q]
    BY <1>1, <2>1 DEF PivotsOK
  <2>4. ASSUME NEW a \in 1 .. m PROVE xs[a] < pv[q]
    <3>1. a \in 1 .. Len(xs) /\ a <= m
      BY <1>1
    <3>2. xs[a] < pv[e + 1]
      BY <3>1 DEF IsBelow
    <3>3. xs[a] \in Int /\ pv[q] \in Int /\ pv[e + 1] \in Int
      BY <1>1, <2>1, <3>1
    <3> QED
      BY <2>3, <3>2, <3>3
  <2> QED
    BY <2>2, <2>4
<1> QED
  BY <1>2, <1>3, <1>4, <1>5 DEF CallOK

LEMMA SplitOut ==
  ASSUME NEW va, NEW pv, NEW xs, NEW os, NEW f \in CallRecords, NEW m \in Nat, NEW e \in Nat,
         va # "eq", PivotsOK(pv), HasInts(xs), OutOK(va, pv, xs, os), CallOK(va, pv, xs, os, f),
         f.pf <= e, e < f.pl, f.first <= m, m <= f.last, IsBelow(xs, pv[e + 1], m)
  PROVE  /\ OutOK(va, pv, xs, [os EXCEPT ![e + 1] = m])
         /\ os[e + 1] # -1 => os[e + 1] = m
<1>1. /\ f.first \in Nat /\ f.last \in Nat /\ f.last <= Len(xs) /\ Len(xs) \in Nat
      /\ f.pf \in Nat /\ f.pl \in Nat /\ f.pl <= Len(pv) /\ Len(pv) \in Nat
      /\ e + 1 \in 1 .. Len(pv) /\ e + 1 \in f.pf + 1 .. f.pl
  BY DEF CallRecords, CallOK, CallTypeOK, HasInts, PivotsOK
<1> DEFINE os2 == [os EXCEPT ![e + 1] = m]
<1>2. /\ os \in [1 .. Len(pv) -> Int] /\ os2 \in [1 .. Len(pv) -> Int] /\ os2[e + 1] = m
      /\ \A q \in 1 .. Len(pv) : q # e + 1 => os2[q] = os[q]
  <2>1. os \in [1 .. Len(pv) -> Int]
    BY DEF OutOK
  <2> QED
    BY <1>1, <2>1
<1> HIDE DEF os2
<1>3. ASSUME NEW q \in 1 .. Len(pv), IsWritten(va, os2, q) PROVE CutsAt(va, pv, xs, os2, q)
  <2>1. CASE q = e + 1
    BY <1>1, <1>2, <2>1 DEF CutsAt, InfOf, SupOf
  <2>2. CASE q # e + 1
    <3>1. os2[q] = os[q]
      BY <1>2, <2>2
    <3>2. CutsAt(va, pv, xs, os, q)
      BY <1>3, <3>1 DEF OutOK, IsWritten, InfOf
    <3> QED
      BY <3>1, <3>2 DEF CutsAt, InfOf, SupOf
  <2> QED
    BY <2>1, <2>2
<1>4. OutOK(va, pv, xs, os2)
  BY <1>2, <1>3 DEF OutOK
<1>5. ASSUME os[e + 1] # -1 PROVE os[e + 1] = m
  <2>1. ToBeWritten(va, os, f)
    BY DEF CallOK
  <2>2. os[e + 1] = f.first
    BY <1>1, <1>5, <2>1 DEF ToBeWritten
  <2>3. IsWritten(va, os, e + 1)
    BY <1>5 DEF IsWritten, InfOf
  <2>4. IsBelow(xs, pv[e + 1], f.first)
    BY <1>1, <2>2, <2>3 DEF OutOK, CutsAt
  <2>5. ASSUME f.first < m PROVE FALSE
    <3>1. f.first + 1 \in 1 .. Len(xs) /\ f.first + 1 <= m /\ ~ (f.first + 1 <= f.first)
      BY <1>1, <2>5
    <3>2. xs[f.first + 1] < pv[e + 1]
      BY <3>1 DEF IsBelow
    <3> QED
      BY <2>4, <3>1, <3>2 DEF IsBelow
  <2> QED
    BY <1>1, <2>2, <2>5
<1> QED
  BY <1>4, <1>5 DEF os2

\* The calls that are not made yet do not see what is written.
LEMMA OthersKept ==
  ASSUME NEW va, NEW pv, NEW xs, NEW os, NEW os2, NEW f \in CallRecords, NEW g \in CallRecords, NEW e \in Nat,
         va # "eq", e < f.pl, CallOK(va, pv, xs, os, g), Apart(f, g),
         \A q \in 1 .. Len(pv) : q # e + 1 => os2[q] = os[q], Len(pv) \in Nat
  PROVE  CallOK(va, pv, xs, os2, g)
<1>1. /\ f.pl \in Nat /\ g.pf \in Nat /\ g.pl \in Nat /\ g.pl <= Len(pv) /\ f.pl <= g.pf
  BY DEF CallRecords, CallOK, CallTypeOK, Apart
<1>2. ToBeWritten(va, os2, g)
  <2> SUFFICES ASSUME NEW q \in g.pf + 1 .. g.pl
               PROVE  os2[q] # -1 => va = "sort" /\ q = g.pf + 1 /\ os2[q] = g.first
    BY DEF ToBeWritten
  <2>1. os2[q] = os[q]
    BY <1>1
  <2>2. ToBeWritten(va, os, g)
    BY DEF CallOK
  <2> QED
    BY <2>1, <2>2 DEF ToBeWritten
<1> QED
  BY <1>2 DEF CallOK

SplitStack(va, st, m, e) ==
  LET f == st[1]
      d == IF va = "sort" THEN e ELSE e + 1
  IN  (IF f.pl - f.pf > 1
         THEN <<[f EXCEPT !.last = m, !.pl = e, !.at = f.at],
                [f EXCEPT !.first = m, !.pf = d, !.at = d]>>
         ELSE <<>>) \o Tail(st)

LEMMA SplitCovers ==
  ASSUME NEW va, NEW pv, NEW xs, NEW os, NEW st, NEW m \in Nat, NEW e \in Nat,
         st # <<>>, va # "eq", Len(pv) \in Nat, os \in [1 .. Len(pv) -> Int], CallsOK(va, pv, xs, os, st),
         st[1].pf <= e, e < st[1].pl, NEW q \in 1 .. Len(pv), ~ IsWritten(va, [os EXCEPT ![e + 1] = m], q)
  PROVE  \/ st[1].pf < q /\ q <= e
         \/ e + 1 < q /\ q <= st[1].pl
         \/ \E c \in 2 .. Len(st) : st[c].pf < q /\ q <= st[c].pl
<1>1. Len(st) \in Nat /\ st[1] \in CallRecords
  BY DEF CallsOK
<1>2. st[1].pf \in Nat /\ st[1].pl \in Nat
  BY <1>1 DEF CallRecords
<1>3. q # e + 1 /\ os[q] = -1
  BY DEF IsWritten, InfOf
<1>4. PICK c \in 1 .. Len(st) : st[c].pf < q /\ q <= st[c].pl
  BY <1>3 DEF CallsOK, IsWritten, InfOf
<1>5. CASE c = 1
  BY <1>2, <1>3, <1>4, <1>5
<1>6. CASE c # 1
  <2>1. c \in 2 .. Len(st)
    BY <1>1, <1>6
  <2> QED
    BY <1>4, <2>1
<1> QED
  BY <1>5, <1>6

IsCutInTwo(pv, xs, f, m, e) ==
  /\ f.first <= m /\ m <= f.last
  /\ \A a \in f.first + 1 .. f.last : xs[a] < pv[e + 1] <=> a <= m

LEMMA PivotSplitKeeps ==
  ASSUME NEW va, NEW pv, NEW xs, NEW os, NEW st, NEW m \in Nat, NEW e \in Nat,
         st # <<>>, va # "eq", PivotsOK(pv), HasInts(xs),
         OutOK(va, pv, xs, os), CallsOK(va, pv, xs, os, st),
         st[1].pf < st[1].pl, e = MidOf(st[1]), IsCutInTwo(pv, xs, st[1], m, e)
  PROVE  /\ OutOK(va, pv, xs, [os EXCEPT ![e + 1] = m])
         /\ CallsOK(va, pv, xs, [os EXCEPT ![e + 1] = m], SplitStack(va, st, m, e))
         /\ os[e + 1] # -1 => os[e + 1] = m
<1> DEFINE f == st[1]
           os2 == [os EXCEPT ![e + 1] = m]
           d == IF va = "sort" THEN e ELSE e + 1
           lc == [f EXCEPT !.last = m, !.pl = e, !.at = f.at]
           rc == [f EXCEPT !.first = m, !.pf = d, !.at = d]
<1>1. st \in Seq(CallRecords) /\ Len(st) \in Nat /\ 1 \in 1 .. Len(st) /\ f \in CallRecords
  BY DEF CallsOK
<1>2. CallOK(va, pv, xs, os, f)
  BY <1>1 DEF CallsOK
<1>3. f.pf <= e /\ e < f.pl /\ (f.pl - f.pf > 1 => f.pf < e)
  <2> HIDE DEF f
  <2>1. f.pf < f.pl /\ e = MidOf(f)
    BY DEF f
  <2> QED
    BY <1>1, <2>1, MidFacts
<1>4. IsBelow(xs, pv[e + 1], m)
  <2> HIDE DEF f
  <2>1. /\ f.first <= m /\ m <= f.last
        /\ \A a \in f.first + 1 .. f.last : xs[a] < pv[e + 1] <=> a <= m
    BY DEF f, IsCutInTwo
  <2> QED
    BY <1>1, <1>2, <1>3, <2>1, SplitCut
<1>5. OutOK(va, pv, xs, os2) /\ (os[e + 1] # -1 => os[e + 1] = m)
  <2> HIDE DEF f
  <2>1. f.first <= m /\ m <= f.last
    BY DEF f, IsCutInTwo
  <2> QED
    BY <1>1, <1>2, <1>3, <1>4, <2>1, SplitOut
<1>6. Len(pv) \in Nat /\ os \in [1 .. Len(pv) -> Int]
  BY DEF PivotsOK, OutOK
<1>7. \A q \in 1 .. Len(pv) : os2[q] = IF q = e + 1 THEN m ELSE os[q]
  BY <1>6
<1>8. /\ lc \in CallRecords /\ rc \in CallRecords
      /\ lc.first = f.first /\ lc.last = m /\ lc.pf = f.pf /\ lc.pl = e /\ lc.at = f.at
      /\ rc.first = m /\ rc.last = f.last /\ rc.pf = d /\ rc.pl = f.pl /\ rc.at = d
  <2>1. d \in Nat
    OBVIOUS
  <2> HIDE DEF f, d
  <2> QED
    BY <1>1, <2>1 DEF CallRecords
<1>9. st # <<>> /\ \A c \in 2 .. Len(st) : CallOK(va, pv, xs, os2, st[c])
  <2> SUFFICES ASSUME NEW c \in 2 .. Len(st) PROVE CallOK(va, pv, xs, os2, st[c])
    OBVIOUS
  <2>1. c \in 1 .. Len(st) /\ 1 < c
    BY <1>1
  <2>2. st[c] \in CallRecords /\ CallOK(va, pv, xs, os, st[c]) /\ Apart(f, st[c])
    BY <1>1, <2>1 DEF CallsOK
  <2> HIDE DEF f, os2
  <2> QED
    BY <1>1, <1>3, <1>6, <1>7, <2>2, OthersKept
<1>10. \A c, b \in 1 .. Len(st) : c < b => Apart(st[c], st[b])
  BY DEF CallsOK
<1>11. ASSUME NEW q \in 1 .. Len(pv), ~ IsWritten(va, os2, q)
       PROVE  \/ f.pf < q /\ q <= e
              \/ e + 1 < q /\ q <= f.pl
              \/ \E c \in 2 .. Len(st) : st[c].pf < q /\ q <= st[c].pl
  BY <1>3, <1>6, <1>11, SplitCovers
<1>12. f.pf \in Nat /\ f.pl \in Nat /\ f.last \in Nat /\ f.first \in Nat /\ m <= f.last /\ f.first <= m
  <2> HIDE DEF f
  <2>1. f.pf \in Nat /\ f.pl \in Nat /\ f.last \in Nat /\ f.first \in Nat
    BY <1>1 DEF CallRecords
  <2> QED
    BY <2>1 DEF f, IsCutInTwo
<1>13. CASE f.pl - f.pf > 1
  <2>0. IsPivotSplit(va, pv, xs, os, os2, f, m, e)
    <3> HIDE DEF f, os2
    <3> QED
      BY <1>2, <1>3, <1>4, <1>7, <1>12 DEF IsPivotSplit
  <2>1. CallOK(va, pv, xs, os2, lc)
    <3> HIDE DEF f, os2, lc
    <3> QED
      BY <1>1, <1>8, <2>0, SplitLeft
  <2>2. CallOK(va, pv, xs, os2, rc)
    <3>1. d = IF va = "sort" THEN e ELSE e + 1
      OBVIOUS
    <3> HIDE DEF f, os2, rc, d
    <3>2. /\ f \in CallRecords /\ f.pf < e
          /\ rc \in CallRecords /\ rc.first = m /\ rc.last = f.last /\ rc.pl = f.pl /\ rc.at = rc.pf
          /\ rc.pf = IF va = "sort" THEN e ELSE e + 1
      BY <1>1, <1>3, <1>8, <1>13, <3>1
    <3> QED
      BY <2>0, <3>2, SplitRight
  <2>3. Apart(lc, rc)
    <3>1. e <= d
      OBVIOUS
    <3> HIDE DEF lc, rc, d
    <3> QED
      BY <1>8, <3>1 DEF Apart
  <2>4. lc.pl <= f.pl /\ lc.last <= f.last /\ rc.pl <= f.pl /\ rc.last <= f.last
    <3> HIDE DEF lc, rc, d, f
    <3> QED
      BY <1>3, <1>8, <1>12
  <2>5. \A q \in 1 .. Len(pv) :
          \/ IsWritten(va, os2, q)
          \/ lc.pf < q /\ q <= lc.pl
          \/ rc.pf < q /\ q <= rc.pl
          \/ \E c \in 2 .. Len(st) : st[c].pf < q /\ q <= st[c].pl
    <3>1. d <= e + 1 /\ d \in Nat
      OBVIOUS
    <3> HIDE DEF lc, rc, d, f, os2
    <3> QED
      BY <1>6, <1>8, <1>11, <3>1
  <2>6. CallsOK(va, pv, xs, os2, <<lc, rc>> \o Tail(st))
    <3> HIDE DEF lc, rc, os2, d
    <3> QED
      BY <1>1, <1>8, <1>9, <1>10, <2>1, <2>2, <2>3, <2>4, <2>5, PushCalls
  <2>7. SplitStack(va, st, m, e) = <<lc, rc>> \o Tail(st)
    BY <1>13 DEF SplitStack
  <2> QED
    BY <1>5, <2>6, <2>7
<1>14. CASE ~ (f.pl - f.pf > 1)
  <2>1. \A q \in 1 .. Len(pv) :
          IsWritten(va, os2, q) \/ \E c \in 2 .. Len(st) : st[c].pf < q /\ q <= st[c].pl
    <3> HIDE DEF f, os2
    <3> QED
      BY <1>3, <1>6, <1>11, <1>12, <1>14
  <2>2. CallsOK(va, pv, xs, os2, Tail(st))
    <3> HIDE DEF os2
    <3> QED
      BY <1>1, <1>9, <1>10, <2>1, PopCall
  <2>3. SplitStack(va, st, m, e) = Tail(st)
    <3>1. SplitStack(va, st, m, e) = <<>> \o Tail(st)
      BY <1>14 DEF SplitStack
    <3>2. Tail(st) \in Seq(CallRecords)
      BY <1>1, TailCalls
    <3> HIDE DEF CallRecords
    <3> QED
      BY <3>1, <3>2
  <2> QED
    BY <1>5, <2>2, <2>3
<1> QED
  BY <1>13, <1>14

\* The scan of pivot_partition_eq splits the range of a call in three.
IsCut(pv, xs, f, m, w, e) ==
  /\ f.first <= m /\ m <= w /\ w <= f.last
  /\ \A a \in f.first + 1 .. m : xs[a] < pv[e + 1]
  /\ \A a \in m + 1 .. w : xs[a] = pv[e + 1]
  /\ \A a \in w + 1 .. f.last : pv[e + 1] < xs[a]
IsEqSplit(pv, xs, os, f, m, w, e) ==
  /\ PivotsOK(pv) /\ HasInts(xs) /\ OutOK("eq", pv, xs, os) /\ CallOK("eq", pv, xs, os, f)
  /\ f.pf <= e /\ e < f.pl /\ IsCut(pv, xs, f, m, w, e)

CallFacts(pv, xs, os, f, e) ==
  /\ f.first \in Nat /\ f.last \in Nat /\ f.last <= Len(xs) /\ Len(xs) \in Nat
  /\ f.pf \in Nat /\ f.pl \in Nat /\ f.pl <= Len(pv) /\ Len(pv) \in Nat
  /\ f.pf <= e /\ e < f.pl /\ e + 1 \in 1 .. Len(pv)
  /\ \A q \in 1 .. Len(pv) : pv[q] \in Int
  /\ \A q, r \in 1 .. Len(pv) : q <= r => pv[q] <= pv[r]
  /\ \A a \in 1 .. Len(xs) : xs[a] \in Int
  /\ \A q \in f.pf + 1 .. f.pl : os[2 * q - 1] = -1
  /\ os \in [1 .. 2 * Len(pv) -> Int]

LEMMA EqSplitFacts ==
  ASSUME NEW pv, NEW xs, NEW os, NEW f \in CallRecords, NEW m \in Nat, NEW w \in Nat, NEW e \in Nat,
         IsEqSplit(pv, xs, os, f, m, w, e)
  PROVE  CallFacts(pv, xs, os, f, e)
<1>1. /\ PivotsOK(pv) /\ HasInts(xs) /\ CallTypeOK("eq", pv, xs, f) /\ f.pf <= e /\ e < f.pl
      /\ ToBeWritten("eq", os, f) /\ OutOK("eq", pv, xs, os)
  BY DEF IsEqSplit, CallOK
<1>2. /\ f.first \in Nat /\ f.last \in Nat /\ f.last <= Len(xs) /\ Len(xs) \in Nat
      /\ f.pf \in Nat /\ f.pl \in Nat /\ f.pl <= Len(pv) /\ Len(pv) \in Nat
  BY <1>1 DEF CallTypeOK, HasInts, PivotsOK
<1>3. e + 1 \in 1 .. Len(pv)
  BY <1>1, <1>2
<1>4. \A q \in f.pf + 1 .. f.pl : os[2 * q - 1] = -1
  BY <1>1 DEF ToBeWritten
<1>5. os \in [1 .. 2 * Len(pv) -> Int]
  BY <1>1 DEF OutOK
<1> QED
  BY <1>1, <1>2, <1>3, <1>4, <1>5 DEF HasInts, PivotsOK, CallFacts

\* A neighbouring pivot has an owner, which is not a pivot of the call.
HasOwner(pv, xs, os, f, q) ==
  \E o \in 1 .. Len(pv) : OwnedBy(pv, xs, os, q, o) /\ (o <= f.pf \/ f.pl < o)

LEMMA EqOwner ==
  ASSUME NEW pv, NEW xs, NEW os, NEW f \in CallRecords, NEW m \in Nat, NEW w \in Nat, NEW e \in Nat,
         IsEqSplit(pv, xs, os, f, m, w, e), NEW q \in 1 .. Len(pv), IsWritten("eq", os, q)
  PROVE  HasOwner(pv, xs, os, f, q)
<1>0. CallFacts(pv, xs, os, f, e)
  BY Zenon, EqSplitFacts
<1>1. CutsAt("eq", pv, xs, os, q)
  BY DEF IsEqSplit, OutOK
<1>2. PICK o \in 1 .. Len(pv) : OwnedBy(pv, xs, os, q, o)
  BY <1>1 DEF CutsAt
<1>3. f.pf \in Nat /\ f.pl \in Nat /\ Len(pv) \in Nat /\ \A r \in f.pf + 1 .. f.pl : os[2 * r - 1] = -1
  BY <1>0 DEF CallFacts
<1>4. os[2 * o - 1] # -1
  BY <1>2 DEF OwnedBy, IsWritten, InfOf
<1>5. o <= f.pf \/ f.pl < o
  BY <1>3, <1>4
<1> QED
  BY <1>2, <1>5 DEF HasOwner

LEMMA EqLeftNeighbour ==
  ASSUME NEW pv, NEW xs, NEW os, NEW f \in CallRecords, NEW m \in Nat, NEW w \in Nat, NEW e \in Nat,
         IsEqSplit(pv, xs, os, f, m, w, e), f.pf # 0
  PROVE  /\ f.pf \in 1 .. Len(pv) /\ f.first = os[2 * f.pf] /\ IsWritten("eq", os, f.pf)
         /\ HasOwner(pv, xs, os, f, f.pf)
<1>0. CallFacts(pv, xs, os, f, e)
  BY Zenon, EqSplitFacts
<1>1. f.pf \in 1 .. Len(pv)
  BY <1>0 DEF CallFacts
<1>2. IsWritten("eq", os, f.pf) /\ f.first = os[2 * f.pf]
  BY DEF IsEqSplit, CallOK, EndsAtCuts
<1> QED
  BY <1>1, <1>2, EqOwner

LEMMA EqRightNeighbour ==
  ASSUME NEW pv, NEW xs, NEW os, NEW f \in CallRecords, NEW m \in Nat, NEW w \in Nat, NEW e \in Nat,
         IsEqSplit(pv, xs, os, f, m, w, e), f.pl # Len(pv)
  PROVE  /\ f.pl + 1 \in 1 .. Len(pv) /\ f.last = os[2 * f.pl + 1] /\ IsWritten("eq", os, f.pl + 1)
         /\ HasOwner(pv, xs, os, f, f.pl + 1)
<1>0. CallFacts(pv, xs, os, f, e)
  BY Zenon, EqSplitFacts
<1>1. f.pl + 1 \in 1 .. Len(pv)
  BY <1>0 DEF CallFacts
<1>2. IsWritten("eq", os, f.pl + 1) /\ f.last = os[2 * f.pl + 1]
  BY DEF IsEqSplit, CallOK, EndsAtCuts
<1> QED
  BY <1>1, <1>2, EqOwner

\* The range of a call whose neighbouring pivot is equal to its middle one has
\* nothing that is equal to it.
LEMMA EqLeftSame ==
  ASSUME NEW pv, NEW xs, NEW os, NEW f \in CallRecords, NEW m \in Nat, NEW w \in Nat, NEW e \in Nat,
         IsEqSplit(pv, xs, os, f, m, w, e), f.pf # 0, pv[f.pf] = pv[e + 1]
  PROVE  m = f.first /\ w = f.first
<1>0. CallFacts(pv, xs, os, f, e)
  BY Zenon, EqSplitFacts
<1>1. /\ f.first \in Nat /\ f.last \in Nat /\ f.last <= Len(xs) /\ Len(xs) \in Nat
      /\ f.pf \in 1 .. Len(pv) /\ e + 1 \in 1 .. Len(pv)
  BY <1>0 DEF CallFacts
<1>i. pv[e + 1] \in Int /\ \A a \in 1 .. Len(xs) : xs[a] \in Int
  BY <1>0, <1>1 DEF CallFacts
<1>2. IsCut(pv, xs, f, m, w, e) /\ HoldsBetween("eq", pv, xs, f)
  BY DEF IsEqSplit, CallOK
<1>3. \A a \in f.first + 1 .. f.last : pv[e + 1] <= xs[a] /\ pv[e + 1] # xs[a]
  <2>1. f.pf \in 1 .. Len(pv) /\ f.pf <= f.pf
    BY <1>1
  <2>2. \A a \in f.first + 1 .. f.last : pv[f.pf] <= xs[a] /\ pv[f.pf] # xs[a]
    BY <1>2, <2>1 DEF HoldsBetween
  <2> QED
    BY <2>2
<1>4. ASSUME f.first < m PROVE FALSE
  <2>1. f.first + 1 \in f.first + 1 .. m /\ f.first + 1 \in f.first + 1 .. f.last /\ f.first + 1 \in 1 .. Len(xs)
    BY <1>1, <1>2, <1>4 DEF IsCut
  <2>2. xs[f.first + 1] < pv[e + 1]
    BY <1>2, <2>1 DEF IsCut
  <2>3. pv[e + 1] <= xs[f.first + 1] /\ xs[f.first + 1] \in Int /\ pv[e + 1] \in Int
    BY <1>i, <1>3, <2>1
  <2> QED
    BY <2>2, <2>3
<1>5. ASSUME m < w PROVE FALSE
  <2>1. m + 1 \in m + 1 .. w /\ m + 1 \in f.first + 1 .. f.last
    BY <1>1, <1>2, <1>5 DEF IsCut
  <2>2. xs[m + 1] = pv[e + 1]
    BY <1>2, <2>1 DEF IsCut
  <2> QED
    BY <1>3, <2>1, <2>2
<1> QED
  BY <1>1, <1>2, <1>4, <1>5 DEF IsCut

LEMMA EqRightSame ==
  ASSUME NEW pv, NEW xs, NEW os, NEW f \in CallRecords, NEW m \in Nat, NEW w \in Nat, NEW e \in Nat,
         IsEqSplit(pv, xs, os, f, m, w, e), f.pl # Len(pv), pv[f.pl + 1] = pv[e + 1]
  PROVE  m = f.last /\ w = f.last
<1>0. CallFacts(pv, xs, os, f, e)
  BY Zenon, EqSplitFacts
<1>1. /\ f.first \in Nat /\ f.last \in Nat /\ f.last <= Len(xs) /\ Len(xs) \in Nat
      /\ f.pl \in Nat /\ f.pl + 1 \in 1 .. Len(pv) /\ e + 1 \in 1 .. Len(pv)
  BY <1>0 DEF CallFacts
<1>i. pv[e + 1] \in Int /\ \A a \in 1 .. Len(xs) : xs[a] \in Int
  BY <1>0, <1>1 DEF CallFacts
<1>2. IsCut(pv, xs, f, m, w, e) /\ HoldsBetween("eq", pv, xs, f)
  BY DEF IsEqSplit, CallOK
<1>3. \A a \in f.first + 1 .. f.last : xs[a] < pv[e + 1]
  <2>1. f.pl + 1 \in 1 .. Len(pv) /\ f.pl + 1 > f.pl
    BY <1>1
  <2>2. \A a \in f.first + 1 .. f.last : xs[a] < pv[f.pl + 1]
    BY <1>2, <2>1 DEF HoldsBetween
  <2> QED
    BY <2>2
<1>4. ASSUME w < f.last PROVE FALSE
  <2>1. w + 1 \in w + 1 .. f.last /\ w + 1 \in f.first + 1 .. f.last /\ w + 1 \in 1 .. Len(xs)
    BY <1>1, <1>2, <1>4 DEF IsCut
  <2>2. pv[e + 1] < xs[w + 1]
    BY <1>2, <2>1 DEF IsCut
  <2>3. xs[w + 1] < pv[e + 1] /\ xs[w + 1] \in Int /\ pv[e + 1] \in Int
    BY <1>i, <1>3, <2>1
  <2> QED
    BY <2>2, <2>3
<1>5. ASSUME m < w PROVE FALSE
  <2>1. m + 1 \in m + 1 .. w /\ m + 1 \in f.first + 1 .. f.last /\ m + 1 \in 1 .. Len(xs)
    BY <1>1, <1>2, <1>5 DEF IsCut
  <2>2. xs[m + 1] = pv[e + 1]
    BY <1>2, <2>1 DEF IsCut
  <2>3. xs[m + 1] < pv[e + 1] /\ pv[e + 1] \in Int
    BY <1>i, <1>3, <2>1
  <2> QED
    BY <2>2, <2>3
<1> QED
  BY <1>1, <1>2, <1>4, <1>5 DEF IsCut

\* Otherwise the scan finds all that is equal to the middle pivot.
LEMMA EqNoneBefore ==
  ASSUME NEW pv, NEW xs, NEW os, NEW f \in CallRecords, NEW m \in Nat, NEW w \in Nat, NEW e \in Nat,
         IsEqSplit(pv, xs, os, f, m, w, e), f.pf # 0, pv[f.pf] # pv[e + 1],
         NEW a \in 1 .. f.first
  PROVE  xs[a] < pv[e + 1]
<1>0. CallFacts(pv, xs, os, f, e)
  BY Zenon, EqSplitFacts
<1>1. /\ f.first \in Nat /\ f.last \in Nat /\ f.last <= Len(xs) /\ Len(xs) \in Nat
      /\ f.pf \in 1 .. Len(pv) /\ f.pl \in Nat /\ e + 1 \in 1 .. Len(pv) /\ f.pf <= e /\ e < f.pl
      /\ Len(pv) \in Nat
  BY <1>0 DEF CallFacts
<1>i. pv[e + 1] \in Int /\ pv[f.pf] \in Int /\ \A b \in 1 .. Len(xs) : xs[b] \in Int
  BY <1>0, <1>1 DEF CallFacts
<1>o. \A q, r \in 1 .. Len(pv) : q <= r => pv[q] <= pv[r]
  BY <1>0 DEF CallFacts
<1>2. f.first = os[2 * f.pf]
  BY Zenon, EqLeftNeighbour
<1>3. PICK o \in 1 .. Len(pv) : OwnedBy(pv, xs, os, f.pf, o) /\ (o <= f.pf \/ f.pl < o)
  <2>1. HasOwner(pv, xs, os, f, f.pf)
    BY Zenon, EqLeftNeighbour
  <2> QED
    BY <2>1 DEF HasOwner
<1>4. pv[o] = pv[f.pf] /\ pv[f.pf] < pv[e + 1]
  <2>1. pv[o] = pv[f.pf]
    BY <1>3 DEF OwnedBy
  <2>2. f.pf <= e + 1 /\ f.pf \in 1 .. Len(pv) /\ e + 1 \in 1 .. Len(pv)
    BY <1>1
  <2>3. pv[f.pf] <= pv[e + 1] /\ pv[f.pf] # pv[e + 1]
    BY <1>o, <2>2
  <2> QED
    BY <1>i, <2>1, <2>3
<1>5. ~ (f.pl < o)
  <2>1. ASSUME f.pl < o PROVE FALSE
    <3>1. e + 1 <= o
      BY <1>1, <2>1
    <3>2. pv[e + 1] <= pv[o]
      BY <1>1, <1>o, <3>1
    <3> QED
      BY <1>i, <1>4, <3>2
  <2> QED
    BY <2>1
<1>6. ~ (f.pf < o)
  BY <1>1, <1>3, <1>5
<1>7. IsUpto(xs, pv[f.pf], f.first)
  BY <1>2, <1>3, <1>6 DEF OwnedBy
<1>8. a \in 1 .. Len(xs) /\ a <= f.first
  <2>1. f.first <= f.last
    BY DEF IsEqSplit, CallOK, CallTypeOK
  <2> QED
    BY <1>1, <2>1
<1>9. xs[a] <= pv[f.pf]
  BY <1>7, <1>8 DEF IsUpto
<1>10. xs[a] \in Int
  BY <1>i, <1>8
<1> QED
  BY <1>i, <1>4, <1>9, <1>10

LEMMA EqNoneAfter ==
  ASSUME NEW pv, NEW xs, NEW os, NEW f \in CallRecords, NEW m \in Nat, NEW w \in Nat, NEW e \in Nat,
         IsEqSplit(pv, xs, os, f, m, w, e), f.pl # Len(pv), pv[f.pl + 1] # pv[e + 1],
         NEW a \in f.last + 1 .. Len(xs)
  PROVE  pv[e + 1] < xs[a]
<1>0. CallFacts(pv, xs, os, f, e)
  BY Zenon, EqSplitFacts
<1>1. /\ f.first \in Nat /\ f.last \in Nat /\ f.last <= Len(xs) /\ Len(xs) \in Nat
      /\ f.pf \in Nat /\ f.pl \in Nat /\ f.pl + 1 \in 1 .. Len(pv)
      /\ e + 1 \in 1 .. Len(pv) /\ f.pf <= e /\ e < f.pl
      /\ Len(pv) \in Nat
  BY <1>0 DEF CallFacts
<1>i. pv[e + 1] \in Int /\ pv[f.pl + 1] \in Int /\ \A b \in 1 .. Len(xs) : xs[b] \in Int
  BY <1>0, <1>1 DEF CallFacts
<1>o. \A q, r \in 1 .. Len(pv) : q <= r => pv[q] <= pv[r]
  BY <1>0 DEF CallFacts
<1>2. f.last = os[2 * f.pl + 1]
  BY Zenon, EqRightNeighbour
<1>3. PICK o \in 1 .. Len(pv) : OwnedBy(pv, xs, os, f.pl + 1, o) /\ (o <= f.pf \/ f.pl < o)
  <2>1. HasOwner(pv, xs, os, f, f.pl + 1)
    BY Zenon, EqRightNeighbour
  <2> QED
    BY <2>1 DEF HasOwner
<1>4. pv[o] = pv[f.pl + 1] /\ pv[e + 1] < pv[f.pl + 1]
  <2>1. e + 1 <= f.pl + 1
    BY <1>1
  <2>2. pv[e + 1] <= pv[f.pl + 1] /\ pv[e + 1] # pv[f.pl + 1]
    BY <1>1, <1>o, <2>1
  <2>3. pv[o] = pv[f.pl + 1]
    BY <1>3 DEF OwnedBy
  <2> QED
    BY <1>i, <2>2, <2>3
<1>5. ~ (o <= f.pf)
  <2>1. ASSUME o <= f.pf PROVE FALSE
    <3>1. o <= e + 1
      BY <1>1, <2>1
    <3>2. pv[o] <= pv[e + 1]
      BY <1>1, <1>o, <3>1
    <3> QED
      BY <1>i, <1>4, <3>2
  <2> QED
    BY <2>1
<1>6. f.pl + 1 <= o
  BY <1>1, <1>3, <1>5
<1>7. os[2 * (f.pl + 1) - 1] = os[2 * o - 1] /\ IsBelow(xs, pv[f.pl + 1], os[2 * o - 1])
  BY <1>3, <1>6 DEF OwnedBy
<1>8. IsBelow(xs, pv[f.pl + 1], f.last)
  <2>1. 2 * (f.pl + 1) - 1 = 2 * f.pl + 1
    BY <1>1
  <2> QED
    BY <1>2, <1>7, <2>1
<1>9. a \in 1 .. Len(xs) /\ ~ (a <= f.last)
  BY <1>1
<1>10. ~ (xs[a] < pv[f.pl + 1])
  BY <1>8, <1>9 DEF IsBelow
<1>11. xs[a] \in Int
  BY <1>i, <1>9
<1> QED
  BY <1>i, <1>4, <1>10, <1>11

\* What pivot_partition_eq writes for the middle pivot.
EqWritten(pv, os, os2, m, w, e) ==
  /\ os2 \in [1 .. 2 * Len(pv) -> Int] /\ os2[2 * (e + 1) - 1] = m /\ os2[2 * (e + 1)] = w
  /\ \A q \in 1 .. Len(pv) : q # e + 1 => os2[2 * q - 1] = os[2 * q - 1] /\ os2[2 * q] = os[2 * q]

LEMMA OwnerKept ==
  ASSUME NEW pv, NEW xs, NEW os, NEW os2, NEW m \in Nat, NEW w \in Nat, NEW e \in Nat,
         EqWritten(pv, os, os2, m, w, e), NEW q \in 1 .. Len(pv), NEW o \in 1 .. Len(pv),
         q # e + 1, o # e + 1, OwnedBy(pv, xs, os, q, o)
  PROVE  OwnedBy(pv, xs, os2, q, o)
<1>1. /\ os2[2 * q - 1] = os[2 * q - 1] /\ os2[2 * q] = os[2 * q]
      /\ os2[2 * o - 1] = os[2 * o - 1] /\ os2[2 * o] = os[2 * o]
  BY DEF EqWritten
<1> QED
  BY <1>1 DEF OwnedBy, IsWritten, InfOf

LEMMA EqOwnedLeft ==
  ASSUME NEW pv, NEW xs, NEW os, NEW os2, NEW f \in CallRecords,
         NEW m \in Nat, NEW w \in Nat, NEW e \in Nat,
         IsEqSplit(pv, xs, os, f, m, w, e), EqWritten(pv, os, os2, m, w, e),
         f.pf # 0, pv[f.pf] = pv[e + 1]
  PROVE  \E o \in 1 .. Len(pv) : OwnedBy(pv, xs, os2, e + 1, o)
<1>0. CallFacts(pv, xs, os, f, e)
  BY Zenon, EqSplitFacts
<1>1. /\ f.pf \in Nat /\ f.pl \in Nat /\ Len(pv) \in Nat /\ f.pf <= e /\ e < f.pl /\ e + 1 \in 1 .. Len(pv)
  BY <1>0 DEF CallFacts
<1>2. m = f.first /\ w = f.first
  BY Zenon, EqLeftSame
<1>3. f.first = os[2 * f.pf] /\ HasOwner(pv, xs, os, f, f.pf)
  BY Zenon, EqLeftNeighbour
<1>4. PICK o \in 1 .. Len(pv) : OwnedBy(pv, xs, os, f.pf, o) /\ (o <= f.pf \/ f.pl < o)
  BY <1>3 DEF HasOwner
<1>5. o # e + 1
  BY <1>1, <1>4
<1>6. os2[2 * o - 1] = os[2 * o - 1] /\ os2[2 * o] = os[2 * o]
  BY <1>5 DEF EqWritten
<1>7. os2[2 * (e + 1) - 1] = m /\ os2[2 * (e + 1)] = w
  BY DEF EqWritten
<1>8. /\ IsWritten("eq", os2, o) /\ pv[o] = pv[e + 1]
      /\ IsBelow(xs, pv[e + 1], os2[2 * o - 1]) /\ IsUpto(xs, pv[e + 1], os2[2 * o])
  BY <1>4, <1>6 DEF OwnedBy, IsWritten, InfOf
<1>9. os[2 * f.pf] = IF f.pf < o THEN os[2 * o - 1] ELSE os[2 * o]
  BY <1>4 DEF OwnedBy
<1>10. /\ m = IF e + 1 <= o THEN os[2 * o - 1] ELSE os[2 * o]
       /\ w = IF e + 1 < o THEN os[2 * o - 1] ELSE os[2 * o]
  <2>1. CASE o <= f.pf
    <3>1. ~ (e + 1 <= o) /\ ~ (e + 1 < o) /\ ~ (f.pf < o)
      BY <1>1, <2>1
    <3> QED
      BY <1>2, <1>3, <1>9, <3>1
  <2>2. CASE f.pl < o
    <3>1. e + 1 <= o /\ e + 1 < o /\ f.pf < o
      BY <1>1, <2>2
    <3> QED
      BY <1>2, <1>3, <1>9, <3>1
  <2> QED
    BY <1>4, <2>1, <2>2
<1>11. OwnedBy(pv, xs, os2, e + 1, o)
  BY <1>6, <1>7, <1>8, <1>10 DEF OwnedBy
<1> QED
  BY <1>11

LEMMA EqOwnedRight ==
  ASSUME NEW pv, NEW xs, NEW os, NEW os2, NEW f \in CallRecords,
         NEW m \in Nat, NEW w \in Nat, NEW e \in Nat,
         IsEqSplit(pv, xs, os, f, m, w, e), EqWritten(pv, os, os2, m, w, e),
         f.pl # Len(pv), pv[f.pl + 1] = pv[e + 1]
  PROVE  \E o \in 1 .. Len(pv) : OwnedBy(pv, xs, os2, e + 1, o)
<1>0. CallFacts(pv, xs, os, f, e)
  BY Zenon, EqSplitFacts
<1>1. /\ f.pf \in Nat /\ f.pl \in Nat /\ Len(pv) \in Nat /\ f.pf <= e /\ e < f.pl /\ e + 1 \in 1 .. Len(pv)
  BY <1>0 DEF CallFacts
<1>2. m = f.last /\ w = f.last
  BY Zenon, EqRightSame
<1>3. f.last = os[2 * f.pl + 1] /\ HasOwner(pv, xs, os, f, f.pl + 1)
  BY Zenon, EqRightNeighbour
<1>4. PICK o \in 1 .. Len(pv) : OwnedBy(pv, xs, os, f.pl + 1, o) /\ (o <= f.pf \/ f.pl < o)
  BY <1>3 DEF HasOwner
<1>5. o # e + 1
  BY <1>1, <1>4
<1>6. os2[2 * o - 1] = os[2 * o - 1] /\ os2[2 * o] = os[2 * o]
  BY <1>5 DEF EqWritten
<1>7. os2[2 * (e + 1) - 1] = m /\ os2[2 * (e + 1)] = w
  BY DEF EqWritten
<1>8. /\ IsWritten("eq", os2, o) /\ pv[o] = pv[e + 1]
      /\ IsBelow(xs, pv[e + 1], os2[2 * o - 1]) /\ IsUpto(xs, pv[e + 1], os2[2 * o])
  BY <1>4, <1>6 DEF OwnedBy, IsWritten, InfOf
<1>9. os[2 * f.pl + 1] = IF f.pl + 1 <= o THEN os[2 * o - 1] ELSE os[2 * o]
  <2>1. 2 * (f.pl + 1) - 1 = 2 * f.pl + 1
    BY <1>1
  <2>2. os[2 * (f.pl + 1) - 1] = IF f.pl + 1 <= o THEN os[2 * o - 1] ELSE os[2 * o]
    BY <1>4 DEF OwnedBy
  <2> QED
    BY <2>1, <2>2
<1>10. /\ m = IF e + 1 <= o THEN os[2 * o - 1] ELSE os[2 * o]
       /\ w = IF e + 1 < o THEN os[2 * o - 1] ELSE os[2 * o]
  <2>1. CASE o <= f.pf
    <3>1. ~ (e + 1 <= o) /\ ~ (e + 1 < o) /\ ~ (f.pl + 1 <= o)
      BY <1>1, <2>1
    <3> QED
      BY <1>2, <1>3, <1>9, <3>1
  <2>2. CASE f.pl < o
    <3>1. e + 1 <= o /\ e + 1 < o /\ f.pl + 1 <= o
      BY <1>1, <2>2
    <3> QED
      BY <1>2, <1>3, <1>9, <3>1
  <2> QED
    BY <1>4, <2>1, <2>2
<1>11. OwnedBy(pv, xs, os2, e + 1, o)
  BY <1>6, <1>7, <1>8, <1>10 DEF OwnedBy
<1> QED
  BY <1>11

LEMMA EqOwnsItself ==
  ASSUME NEW pv, NEW xs, NEW os, NEW os2, NEW f \in CallRecords,
         NEW m \in Nat, NEW w \in Nat, NEW e \in Nat,
         IsEqSplit(pv, xs, os, f, m, w, e), EqWritten(pv, os, os2, m, w, e),
         f.pf = 0 \/ pv[f.pf] # pv[e + 1], f.pl = Len(pv) \/ pv[f.pl + 1] # pv[e + 1]
  PROVE  OwnedBy(pv, xs, os2, e + 1, e + 1)
<1>0. CallFacts(pv, xs, os, f, e)
  BY Zenon, EqSplitFacts
<1>1. /\ f.first \in Nat /\ f.last \in Nat /\ f.last <= Len(xs) /\ Len(xs) \in Nat
      /\ e + 1 \in 1 .. Len(pv)
  BY <1>0 DEF CallFacts
<1>2. pv[e + 1] \in Int /\ \A a \in 1 .. Len(xs) : xs[a] \in Int
  BY <1>0, <1>1 DEF CallFacts
<1>3. IsCut(pv, xs, f, m, w, e) /\ EndsAtCuts(pv, xs, os, f)
  BY DEF IsEqSplit, CallOK
<1>4. \A a \in 1 .. f.first : xs[a] < pv[e + 1]
  <2>1. CASE f.pf = 0
    BY <1>3, <2>1 DEF EndsAtCuts
  <2>2. CASE f.pf # 0
    BY <2>2, EqNoneBefore
  <2> QED
    BY <2>1, <2>2
<1>5. \A a \in f.last + 1 .. Len(xs) : pv[e + 1] < xs[a]
  <2>1. CASE f.pl = Len(pv)
    BY <1>1, <1>3, <2>1 DEF EndsAtCuts
  <2>2. CASE f.pl # Len(pv)
    BY <2>2, EqNoneAfter
  <2> QED
    BY <2>1, <2>2
<1>6. f.first <= m /\ m <= w /\ w <= f.last
  BY <1>3 DEF IsCut
<1>7. \A a \in 1 .. m : xs[a] < pv[e + 1]
  <2> SUFFICES ASSUME NEW a \in 1 .. m PROVE xs[a] < pv[e + 1]
    OBVIOUS
  <2>1. CASE a <= f.first
    BY <1>1, <1>4, <2>1
  <2>2. CASE f.first < a
    <3>1. a \in f.first + 1 .. m
      BY <1>1, <2>2
    <3> QED
      BY <1>3, <3>1 DEF IsCut
  <2> QED
    BY <1>1, <2>1, <2>2
<1>8. \A a \in m + 1 .. w : xs[a] = pv[e + 1]
  BY <1>3 DEF IsCut
<1>9. \A a \in w + 1 .. Len(xs) : pv[e + 1] < xs[a]
  <2> SUFFICES ASSUME NEW a \in w + 1 .. Len(xs) PROVE pv[e + 1] < xs[a]
    OBVIOUS
  <2>1. CASE f.last < a
    BY <1>1, <1>5, <2>1
  <2>2. CASE a <= f.last
    <3>1. a \in w + 1 .. f.last
      BY <1>1, <2>2
    <3> QED
      BY <1>3, <3>1 DEF IsCut
  <2> QED
    BY <1>1, <2>1, <2>2
<1>10. ASSUME NEW a \in 1 .. Len(xs)
       PROVE  (xs[a] < pv[e + 1] <=> a <= m) /\ (xs[a] <= pv[e + 1] <=> a <= w)
  <2>0. xs[a] \in Int /\ pv[e + 1] \in Int
    BY <1>2
  <2>1. CASE a <= m
    <3>1. xs[a] < pv[e + 1] /\ a <= w
      BY <1>6, <1>7, <2>1
    <3> QED
      BY <2>0, <2>1, <3>1
  <2>2. CASE m < a /\ a <= w
    <3>1. xs[a] = pv[e + 1]
      BY <1>8, <2>2
    <3> QED
      BY <2>0, <2>2, <3>1
  <2>3. CASE w < a
    <3>1. pv[e + 1] < xs[a] /\ ~ (a <= m)
      BY <1>6, <1>9, <2>3
    <3> QED
      BY <2>0, <2>3, <3>1
  <2> QED
    BY <2>1, <2>2, <2>3
<1>11. IsBelow(xs, pv[e + 1], m) /\ IsUpto(xs, pv[e + 1], w)
  BY <1>10 DEF IsBelow, IsUpto
<1>12. os2[2 * (e + 1) - 1] = m /\ os2[2 * (e + 1)] = w
  BY DEF EqWritten
<1>13. IsWritten("eq", os2, e + 1)
  BY <1>12 DEF IsWritten, InfOf
<1>14. e + 1 <= e + 1 /\ ~ (e + 1 < e + 1)
  OBVIOUS
<1> QED
  BY <1>11, <1>12, <1>13, <1>14 DEF OwnedBy

LEMMA EqMiddleCuts ==
  ASSUME NEW pv, NEW xs, NEW os, NEW os2, NEW f \in CallRecords,
         NEW m \in Nat, NEW w \in Nat, NEW e \in Nat,
         IsEqSplit(pv, xs, os, f, m, w, e), EqWritten(pv, os, os2, m, w, e)
  PROVE  CutsAt("eq", pv, xs, os2, e + 1)
<1>0. CallFacts(pv, xs, os, f, e)
  BY Zenon, EqSplitFacts
<1>1. f.first \in Nat /\ f.last \in Nat /\ f.last <= Len(xs) /\ Len(xs) \in Nat /\ e + 1 \in 1 .. Len(pv)
  BY <1>0 DEF CallFacts
<1>2. f.first <= m /\ m <= w /\ w <= f.last
  BY DEF IsEqSplit, IsCut
<1>3. os2[2 * (e + 1) - 1] = m /\ os2[2 * (e + 1)] = w
  BY DEF EqWritten
<1>4. m \in 0 .. Len(xs) /\ w \in 0 .. Len(xs)
  BY <1>1, <1>2
<1>5. \E o \in 1 .. Len(pv) : OwnedBy(pv, xs, os2, e + 1, o)
  <2>1. CASE f.pf # 0 /\ pv[f.pf] = pv[e + 1]
    BY <2>1, EqOwnedLeft
  <2>2. CASE f.pl # Len(pv) /\ pv[f.pl + 1] = pv[e + 1]
    BY <2>2, EqOwnedRight
  <2>3. CASE (f.pf = 0 \/ pv[f.pf] # pv[e + 1]) /\ (f.pl = Len(pv) \/ pv[f.pl + 1] # pv[e + 1])
    <3>1. OwnedBy(pv, xs, os2, e + 1, e + 1)
      BY <2>3, EqOwnsItself
    <3> QED
      BY <1>1, <3>1
  <2> QED
    BY <2>1, <2>2, <2>3
<1> QED
  BY <1>3, <1>4, <1>5 DEF CutsAt, InfOf, SupOf

\* Only one of equal pivots has elements.
LEMMA EqOneOwner ==
  ASSUME NEW pv, NEW xs, NEW os, NEW os2, NEW f \in CallRecords,
         NEW m \in Nat, NEW w \in Nat, NEW e \in Nat,
         IsEqSplit(pv, xs, os, f, m, w, e), m < w,
         NEW q \in 1 .. Len(pv), IsWritten("eq", os, q), pv[q] = pv[e + 1]
  PROVE  FALSE
<1>0. CallFacts(pv, xs, os, f, e)
  BY Zenon, EqSplitFacts
<1>1. /\ f.first \in Nat /\ f.last \in Nat /\ f.pf \in Nat /\ f.pl \in Nat /\ Len(pv) \in Nat
      /\ e + 1 \in 1 .. Len(pv) /\ \A r \in f.pf + 1 .. f.pl : os[2 * r - 1] = -1
  BY <1>0 DEF CallFacts
<1>2. pv[e + 1] \in Int
  BY <1>0, <1>1 DEF CallFacts
<1>3. IsCut(pv, xs, f, m, w, e) /\ HoldsBetween("eq", pv, xs, f)
  BY DEF IsEqSplit, CallOK
<1>4. f.first <= m /\ w <= f.last
  BY <1>3 DEF IsCut
<1>5. m + 1 \in m + 1 .. w /\ m + 1 \in f.first + 1 .. f.last
  BY <1>1, <1>4
<1>6. xs[m + 1] = pv[q]
  BY <1>3, <1>5 DEF IsCut
<1>7. os[2 * q - 1] # -1
  BY DEF IsWritten, InfOf
<1>8. q <= f.pf \/ q > f.pl
  BY <1>1, <1>7
<1>9. CASE q <= f.pf
  BY <1>3, <1>5, <1>6, <1>9 DEF HoldsBetween
<1>10. CASE q > f.pl
  <2>1. xs[m + 1] < pv[q]
    BY <1>3, <1>5, <1>10 DEF HoldsBetween
  <2> QED
    BY <1>2, <1>6, <2>1
<1> QED
  BY <1>8, <1>9, <1>10

LEMMA EqOut ==
  ASSUME NEW pv, NEW xs, NEW os, NEW os2, NEW f \in CallRecords,
         NEW m \in Nat, NEW w \in Nat, NEW e \in Nat,
         IsEqSplit(pv, xs, os, f, m, w, e), EqWritten(pv, os, os2, m, w, e)
  PROVE  OutOK("eq", pv, xs, os2)
<1>0. CallFacts(pv, xs, os, f, e)
  BY Zenon, EqSplitFacts
<1>1. OutOK("eq", pv, xs, os)
  BY DEF IsEqSplit
<1>2. /\ os2 \in [1 .. 2 * Len(pv) -> Int] /\ os2[2 * (e + 1) - 1] = m /\ os2[2 * (e + 1)] = w
      /\ \A q \in 1 .. Len(pv) : q # e + 1 => os2[2 * q - 1] = os[2 * q - 1] /\ os2[2 * q] = os[2 * q]
  BY DEF EqWritten
<1>3. /\ e + 1 \in 1 .. Len(pv) /\ e + 1 \in f.pf + 1 .. f.pl /\ os[2 * (e + 1) - 1] = -1
  <2>1. /\ e + 1 \in 1 .. Len(pv) /\ f.pf \in Nat /\ f.pl \in Nat /\ f.pf <= e /\ e < f.pl
        /\ \A r \in f.pf + 1 .. f.pl : os[2 * r - 1] = -1
    BY <1>0 DEF CallFacts
  <2> QED
    BY <2>1
<1>4. ASSUME NEW q \in 1 .. Len(pv), IsWritten("eq", os2, q) PROVE CutsAt("eq", pv, xs, os2, q)
  <2>1. CASE q = e + 1
    BY <2>1, EqMiddleCuts
  <2>2. CASE q # e + 1
    <3>1. os2[2 * q - 1] = os[2 * q - 1] /\ os2[2 * q] = os[2 * q]
      BY <1>2, <2>2
    <3>2. CutsAt("eq", pv, xs, os, q)
      BY <1>1, <1>4, <3>1 DEF OutOK, IsWritten, InfOf
    <3>3. PICK o \in 1 .. Len(pv) : OwnedBy(pv, xs, os, q, o)
      BY <3>2 DEF CutsAt
    <3>4. o # e + 1
      BY <1>3, <3>3 DEF OwnedBy, IsWritten, InfOf
    <3>5. OwnedBy(pv, xs, os2, q, o)
      BY <2>2, <3>3, <3>4, OwnerKept
    <3> QED
      BY <3>1, <3>2, <3>5 DEF CutsAt, InfOf, SupOf
  <2> QED
    BY <2>1, <2>2
<1>5. ASSUME NEW q \in 1 .. Len(pv), q # e + 1, Owns(os2, q)
      PROVE  Owns(os, q) /\ IsWritten("eq", os, q)
  <2>1. os2[2 * q - 1] = os[2 * q - 1] /\ os2[2 * q] = os[2 * q]
    BY <1>2, <1>5
  <2> QED
    BY <1>5, <2>1 DEF Owns, IsWritten, InfOf
<1>6. ASSUME NEW q \in 1 .. Len(pv), q # e + 1, Owns(os2, q), Owns(os2, e + 1), pv[q] = pv[e + 1]
      PROVE  FALSE
  <2>1. m < w
    BY <1>2, <1>6 DEF Owns
  <2> QED
    BY <1>5, <1>6, <2>1, EqOneOwner
<1>7. ASSUME NEW q \in 1 .. Len(pv), NEW r \in 1 .. Len(pv), Owns(os2, q), Owns(os2, r), pv[q] = pv[r]
      PROVE  q = r
  <2>1. CASE q # e + 1 /\ r # e + 1
    <3>1. Owns(os, q) /\ Owns(os, r)
      BY <1>5, <1>7, <2>1
    <3> QED
      BY <1>1, <1>7, <3>1 DEF OutOK
  <2>2. CASE q # e + 1 /\ r = e + 1
    BY <1>6, <1>7, <2>2
  <2>3. CASE q = e + 1 /\ r # e + 1
    BY <1>6, <1>7, <2>3
  <2> QED
    BY <2>1, <2>2, <2>3
<1> QED
  BY <1>2, <1>4, <1>7 DEF OutOK

LEMMA EqLeftCall ==
  ASSUME NEW pv, NEW xs, NEW os, NEW os2, NEW f \in CallRecords, NEW g \in CallRecords,
         NEW m \in Nat, NEW w \in Nat, NEW e \in Nat,
         IsEqSplit(pv, xs, os, f, m, w, e), EqWritten(pv, os, os2, m, w, e),
         g.first = f.first, g.last = m, g.pf = f.pf, g.pl = e, g.at = f.at
  PROVE  CallOK("eq", pv, xs, os2, g)
<1>0. CallFacts(pv, xs, os, f, e)
  BY Zenon, EqSplitFacts
<1>1. /\ f.first \in Nat /\ f.last \in Nat /\ f.last <= Len(xs) /\ Len(xs) \in Nat
      /\ f.pf \in Nat /\ f.pl \in Nat /\ f.pl <= Len(pv) /\ Len(pv) \in Nat
      /\ f.pf <= e /\ e < f.pl /\ e + 1 \in 1 .. Len(pv)
  BY <1>0 DEF CallFacts
<1>2. /\ IsCut(pv, xs, f, m, w, e) /\ HoldsBetween("eq", pv, xs, f) /\ EndsAtCuts(pv, xs, os, f)
      /\ CallTypeOK("eq", pv, xs, f) /\ ToBeWritten("eq", os, f)
  BY DEF IsEqSplit, CallOK
<1>3. f.first <= m /\ m <= w /\ w <= f.last
  BY <1>2 DEF IsCut
<1>4. CallTypeOK("eq", pv, xs, g)
  BY <1>1, <1>2, <1>3 DEF CallTypeOK
<1>5. HoldsBetween("eq", pv, xs, g)
  <2> SUFFICES ASSUME NEW a \in f.first + 1 .. m, NEW q \in 1 .. Len(pv)
               PROVE  (q <= f.pf => pv[q] <= xs[a] /\ pv[q] # xs[a]) /\ (q > e => xs[a] < pv[q])
    BY DEF HoldsBetween
  <2>1. a \in f.first + 1 .. f.last /\ a \in 1 .. Len(xs)
    BY <1>1, <1>3
  <2>2. q <= f.pf => pv[q] <= xs[a] /\ pv[q] # xs[a]
    BY <1>2, <2>1 DEF HoldsBetween
  <2>3. xs[a] < pv[e + 1]
    BY <1>2 DEF IsCut
  <2>4. q > e => pv[e + 1] <= pv[q]
    <3>1. \A r, s \in 1 .. Len(pv) : r <= s => pv[r] <= pv[s]
      BY <1>0 DEF CallFacts
    <3> QED
      BY <1>1, <3>1
  <2>5. xs[a] \in Int /\ pv[q] \in Int /\ pv[e + 1] \in Int
    BY <1>0, <1>1, <2>1 DEF CallFacts
  <2> QED
    BY <2>2, <2>3, <2>4, <2>5
<1>6. ToBeWritten("eq", os2, g)
  <2> SUFFICES ASSUME NEW q \in f.pf + 1 .. e PROVE os2[2 * q - 1] = -1 /\ os2[2 * q] = -1
    BY DEF ToBeWritten
  <2>1. q \in f.pf + 1 .. f.pl /\ q \in 1 .. Len(pv) /\ q # e + 1
    BY <1>1
  <2>2. os2[2 * q - 1] = os[2 * q - 1] /\ os2[2 * q] = os[2 * q]
    BY <2>1 DEF EqWritten
  <2> QED
    BY <1>2, <2>1, <2>2 DEF ToBeWritten
<1>7. EndsAtCuts(pv, xs, os2, g)
  <2>1. IF g.pf = 0 THEN g.first = 0 ELSE IsWritten("eq", os2, g.pf) /\ g.first = os2[2 * g.pf]
    <3>1. CASE f.pf = 0
      BY <1>2, <3>1 DEF EndsAtCuts
    <3>2. CASE f.pf # 0
      <4>1. f.pf \in 1 .. Len(pv) /\ f.pf # e + 1
        BY <1>1, <3>2
      <4>2. os2[2 * f.pf - 1] = os[2 * f.pf - 1] /\ os2[2 * f.pf] = os[2 * f.pf]
        BY <4>1 DEF EqWritten
      <4> QED
        BY <1>2, <3>2, <4>2 DEF EndsAtCuts, IsWritten, InfOf
    <3> QED
      BY <3>1, <3>2
  <2>2. e # Len(pv)
    BY <1>1
  <2>3. os2[2 * (e + 1) - 1] = m /\ 2 * (e + 1) - 1 = 2 * e + 1
    BY DEF EqWritten
  <2>4. IsWritten("eq", os2, e + 1)
    BY <2>3 DEF IsWritten, InfOf
  <2> QED
    BY <2>1, <2>2, <2>3, <2>4 DEF EndsAtCuts
<1> QED
  BY <1>4, <1>5, <1>6, <1>7 DEF CallOK

LEMMA EqRightCall ==
  ASSUME NEW pv, NEW xs, NEW os, NEW os2, NEW f \in CallRecords, NEW g \in CallRecords,
         NEW m \in Nat, NEW w \in Nat, NEW e \in Nat,
         IsEqSplit(pv, xs, os, f, m, w, e), EqWritten(pv, os, os2, m, w, e),
         g.first = w, g.last = f.last, g.pf = e + 1, g.pl = f.pl, g.at = 2 * (e + 1)
  PROVE  CallOK("eq", pv, xs, os2, g)
<1>0. CallFacts(pv, xs, os, f, e)
  BY Zenon, EqSplitFacts
<1>1. /\ f.first \in Nat /\ f.last \in Nat /\ f.last <= Len(xs) /\ Len(xs) \in Nat
      /\ f.pf \in Nat /\ f.pl \in Nat /\ f.pl <= Len(pv) /\ Len(pv) \in Nat
      /\ f.pf <= e /\ e < f.pl /\ e + 1 \in 1 .. Len(pv)
  BY <1>0 DEF CallFacts
<1>2. /\ IsCut(pv, xs, f, m, w, e) /\ HoldsBetween("eq", pv, xs, f) /\ EndsAtCuts(pv, xs, os, f)
      /\ ToBeWritten("eq", os, f)
  BY DEF IsEqSplit, CallOK
<1>3. f.first <= m /\ m <= w /\ w <= f.last
  BY <1>2 DEF IsCut
<1>4. CallTypeOK("eq", pv, xs, g)
  BY <1>1, <1>3 DEF CallTypeOK
<1>5. HoldsBetween("eq", pv, xs, g)
  <2> SUFFICES ASSUME NEW a \in w + 1 .. f.last, NEW q \in 1 .. Len(pv)
               PROVE  (q <= e + 1 => pv[q] <= xs[a] /\ pv[q] # xs[a]) /\ (q > f.pl => xs[a] < pv[q])
    BY DEF HoldsBetween
  <2>1. a \in f.first + 1 .. f.last /\ a \in 1 .. Len(xs)
    BY <1>1, <1>3
  <2>2. q > f.pl => xs[a] < pv[q]
    BY <1>2, <2>1 DEF HoldsBetween
  <2>3. pv[e + 1] < xs[a]
    BY <1>2 DEF IsCut
  <2>4. q <= e + 1 => pv[q] <= pv[e + 1]
    <3>1. \A r, s \in 1 .. Len(pv) : r <= s => pv[r] <= pv[s]
      BY <1>0 DEF CallFacts
    <3> QED
      BY <1>1, <3>1
  <2>5. xs[a] \in Int /\ pv[q] \in Int /\ pv[e + 1] \in Int
    BY <1>0, <1>1, <2>1 DEF CallFacts
  <2> QED
    BY <2>2, <2>3, <2>4, <2>5
<1>6. ToBeWritten("eq", os2, g)
  <2> SUFFICES ASSUME NEW q \in e + 2 .. f.pl PROVE os2[2 * q - 1] = -1 /\ os2[2 * q] = -1
    <3>1. (e + 1) + 1 = e + 2
      OBVIOUS
    <3> QED
      BY <3>1 DEF ToBeWritten
  <2>1. q \in f.pf + 1 .. f.pl /\ q \in 1 .. Len(pv) /\ q # e + 1
    BY <1>1
  <2>2. os2[2 * q - 1] = os[2 * q - 1] /\ os2[2 * q] = os[2 * q]
    BY <2>1 DEF EqWritten
  <2> QED
    BY <1>2, <2>1, <2>2 DEF ToBeWritten
<1>7. EndsAtCuts(pv, xs, os2, g)
  <2>1. IF g.pl = Len(pv) THEN g.last = Len(xs)
        ELSE IsWritten("eq", os2, g.pl + 1) /\ g.last = os2[2 * g.pl + 1]
    <3>1. CASE f.pl = Len(pv)
      BY <1>2, <3>1 DEF EndsAtCuts
    <3>2. CASE f.pl # Len(pv)
      <4>1. f.pl + 1 \in 1 .. Len(pv) /\ f.pl + 1 # e + 1 /\ 2 * (f.pl + 1) - 1 = 2 * f.pl + 1
        BY <1>1, <3>2
      <4>2. os2[2 * (f.pl + 1) - 1] = os[2 * (f.pl + 1) - 1]
        BY <4>1 DEF EqWritten
      <4>3. IsWritten("eq", os, f.pl + 1) /\ f.last = os[2 * f.pl + 1]
        BY <1>2, <3>2 DEF EndsAtCuts
      <4>4. IsWritten("eq", os2, f.pl + 1)
        BY <4>2, <4>3 DEF IsWritten, InfOf
      <4> QED
        BY <3>2, <4>1, <4>2, <4>3, <4>4
    <3> QED
      BY <3>1, <3>2
  <2>2. e + 1 # 0
    OBVIOUS
  <2>3. os2[2 * (e + 1)] = w /\ os2[2 * (e + 1) - 1] = m
    BY DEF EqWritten
  <2>4. IsWritten("eq", os2, e + 1)
    BY <2>3 DEF IsWritten, InfOf
  <2> QED
    BY <2>1, <2>2, <2>3, <2>4 DEF EndsAtCuts
<1> QED
  BY <1>4, <1>5, <1>6, <1>7 DEF CallOK

LEMMA EqOthersKept ==
  ASSUME NEW pv, NEW xs, NEW os, NEW os2, NEW f \in CallRecords, NEW g \in CallRecords,
         NEW m \in Nat, NEW w \in Nat, NEW e \in Nat,
         IsEqSplit(pv, xs, os, f, m, w, e), EqWritten(pv, os, os2, m, w, e),
         CallOK("eq", pv, xs, os, g), Apart(f, g)
  PROVE  CallOK("eq", pv, xs, os2, g)
<1>0. CallFacts(pv, xs, os, f, e)
  BY Zenon, EqSplitFacts
<1>1. /\ f.pf \in Nat /\ f.pl \in Nat /\ f.pl <= Len(pv) /\ Len(pv) \in Nat
      /\ f.pf <= e /\ e < f.pl
  BY <1>0 DEF CallFacts
<1>u. os[2 * (e + 1) - 1] = -1
  <2>1. e + 1 \in f.pf + 1 .. f.pl
    BY <1>1
  <2> QED
    BY <1>0, <2>1 DEF CallFacts
<1>2. /\ ToBeWritten("eq", os, g) /\ EndsAtCuts(pv, xs, os, g) /\ CallTypeOK("eq", pv, xs, g)
      /\ HoldsBetween("eq", pv, xs, g)
  BY DEF CallOK
<1>3. g.pf \in Nat /\ g.pl \in Nat /\ g.pf <= g.pl /\ g.pl <= Len(pv) /\ f.pl <= g.pf
  BY <1>2 DEF CallTypeOK, Apart
<1>4. ASSUME NEW q \in 1 .. Len(pv), q # e + 1
      PROVE  os2[2 * q - 1] = os[2 * q - 1] /\ os2[2 * q] = os[2 * q]
  BY <1>4 DEF EqWritten
<1>5. ToBeWritten("eq", os2, g)
  <2> SUFFICES ASSUME NEW q \in g.pf + 1 .. g.pl PROVE os2[2 * q - 1] = -1 /\ os2[2 * q] = -1
    BY DEF ToBeWritten
  <2>1. q \in 1 .. Len(pv) /\ q # e + 1
    BY <1>1, <1>3
  <2> QED
    BY <1>2, <1>4, <2>1 DEF ToBeWritten
<1>6. EndsAtCuts(pv, xs, os2, g)
  <2>1. IF g.pf = 0 THEN g.first = 0 ELSE IsWritten("eq", os2, g.pf) /\ g.first = os2[2 * g.pf]
    <3>1. IsWritten("eq", os, g.pf) /\ g.first = os[2 * g.pf] /\ g.pf # 0
      BY <1>1, <1>2, <1>3 DEF EndsAtCuts
    <3>2. os[2 * g.pf - 1] # -1
      BY <3>1 DEF IsWritten, InfOf
    <3>3. g.pf # e + 1 /\ g.pf \in 1 .. Len(pv)
      <4>1. g.pf # e + 1
        BY <1>u, <3>2
      <4> QED
        BY <1>1, <1>3, <3>1, <4>1
    <3>4. os2[2 * g.pf - 1] = os[2 * g.pf - 1] /\ os2[2 * g.pf] = os[2 * g.pf]
      BY <1>4, <3>3
    <3> QED
      BY <3>1, <3>2, <3>4 DEF IsWritten, InfOf
  <2>2. IF g.pl = Len(pv) THEN g.last = Len(xs)
        ELSE IsWritten("eq", os2, g.pl + 1) /\ g.last = os2[2 * g.pl + 1]
    <3>1. CASE g.pl = Len(pv)
      BY <1>2, <3>1 DEF EndsAtCuts
    <3>2. CASE g.pl # Len(pv)
      <4>1. g.pl + 1 \in 1 .. Len(pv) /\ g.pl + 1 # e + 1 /\ 2 * (g.pl + 1) - 1 = 2 * g.pl + 1
        <5>1. g.pl + 1 \in 1 .. Len(pv)
          BY <1>1, <1>3, <3>2
        <5>2. g.pl + 1 # e + 1
          BY <1>1, <1>3
        <5>3. 2 * (g.pl + 1) - 1 = 2 * g.pl + 1
          BY <1>3
        <5> QED
          BY <5>1, <5>2, <5>3
      <4>2. os2[2 * (g.pl + 1) - 1] = os[2 * (g.pl + 1) - 1]
        BY <1>4, <4>1
      <4>3. IsWritten("eq", os, g.pl + 1) /\ g.last = os[2 * g.pl + 1]
        BY <1>2, <3>2 DEF EndsAtCuts
      <4>4. IsWritten("eq", os2, g.pl + 1)
        BY <4>2, <4>3 DEF IsWritten, InfOf
      <4> QED
        BY <3>2, <4>1, <4>2, <4>3, <4>4
    <3> QED
      BY <3>1, <3>2
  <2> QED
    BY <2>1, <2>2 DEF EndsAtCuts
<1> QED
  BY <1>2, <1>5, <1>6 DEF CallOK

EqStack(st, m, w, e) ==
  LET f == st[1]
  IN  (IF f.pl - f.pf > 1
         THEN <<[f EXCEPT !.last = m, !.pl = e, !.at = f.at],
                [f EXCEPT !.first = w, !.pf = e + 1, !.at = 2 * (e + 1)]>>
         ELSE <<>>) \o Tail(st)

LEMMA EqCovers ==
  ASSUME NEW pv, NEW xs, NEW os, NEW os2, NEW st, NEW m \in Nat, NEW w \in Nat, NEW e \in Nat,
         st # <<>>, Len(pv) \in Nat, EqWritten(pv, os, os2, m, w, e), CallsOK("eq", pv, xs, os, st),
         st[1].pf <= e, e < st[1].pl, NEW q \in 1 .. Len(pv), ~ IsWritten("eq", os2, q)
  PROVE  \/ st[1].pf < q /\ q <= e
         \/ e + 1 < q /\ q <= st[1].pl
         \/ \E c \in 2 .. Len(st) : st[c].pf < q /\ q <= st[c].pl
<1>1. Len(st) \in Nat /\ st[1] \in CallRecords
  BY DEF CallsOK
<1>2. st[1].pf \in Nat /\ st[1].pl \in Nat
  BY <1>1 DEF CallRecords
<1>3. os2[2 * q - 1] = -1
  BY DEF IsWritten, InfOf
<1>4. q # e + 1
  <2>1. ASSUME q = e + 1 PROVE FALSE
    BY <1>3, <2>1 DEF EqWritten
  <2> QED
    BY <2>1
<1>5. os[2 * q - 1] = -1
  BY <1>3, <1>4 DEF EqWritten
<1>6. PICK c \in 1 .. Len(st) : st[c].pf < q /\ q <= st[c].pl
  BY <1>5 DEF CallsOK, IsWritten, InfOf
<1>7. CASE c = 1
  BY <1>2, <1>4, <1>6, <1>7
<1>8. CASE c # 1
  <2>1. c \in 2 .. Len(st)
    BY <1>1, <1>8
  <2> QED
    BY <1>6, <2>1
<1> QED
  BY <1>7, <1>8

EqReady(pv, xs, os, os2, st, m, w, e) ==
  /\ st # <<>> /\ PivotsOK(pv) /\ HasInts(xs)
  /\ OutOK("eq", pv, xs, os) /\ CallsOK("eq", pv, xs, os, st)
  /\ st[1].pf < st[1].pl /\ e = MidOf(st[1]) /\ IsCut(pv, xs, st[1], m, w, e)
  /\ EqWritten(pv, os, os2, m, w, e)
EqDone(pv, xs, os, os2, st, m, w, e) ==
  /\ OutOK("eq", pv, xs, os2) /\ CallsOK("eq", pv, xs, os2, EqStack(st, m, w, e))
  /\ os[2 * (e + 1) - 1] = -1 /\ os[2 * (e + 1)] = -1

LEMMA EqKeeps ==
  ASSUME NEW pv, NEW xs, NEW os, NEW os2, NEW st, NEW m \in Nat, NEW w \in Nat, NEW e \in Nat,
         EqReady(pv, xs, os, os2, st, m, w, e)
  PROVE  EqDone(pv, xs, os, os2, st, m, w, e)
<1> SUFFICES /\ OutOK("eq", pv, xs, os2) /\ CallsOK("eq", pv, xs, os2, EqStack(st, m, w, e))
             /\ os[2 * (e + 1) - 1] = -1 /\ os[2 * (e + 1)] = -1
  BY DEF EqDone
<1> USE DEF EqReady
<1> DEFINE f == st[1]
           lc == [f EXCEPT !.last = m, !.pl = e, !.at = f.at]
           rc == [f EXCEPT !.first = w, !.pf = e + 1, !.at = 2 * (e + 1)]
<1>1. st \in Seq(CallRecords) /\ Len(st) \in Nat /\ 1 \in 1 .. Len(st) /\ f \in CallRecords
  BY DEF CallsOK
<1>2. CallOK("eq", pv, xs, os, f)
  BY <1>1 DEF CallsOK
<1>3. f.pf <= e /\ e < f.pl /\ (f.pl - f.pf > 1 => f.pf < e)
  <2> HIDE DEF f
  <2>1. f.pf < f.pl /\ e = MidOf(f)
    BY DEF f
  <2> QED
    BY <1>1, <2>1, MidFacts
<1>4. IsEqSplit(pv, xs, os, f, m, w, e)
  <2> HIDE DEF f
  <2>1. IsCut(pv, xs, f, m, w, e)
    BY DEF f
  <2> QED
    BY <1>2, <1>3, <2>1 DEF IsEqSplit
<1>5. OutOK("eq", pv, xs, os2)
  <2> HIDE DEF f
  <2> QED
    BY <1>1, <1>4, EqOut
<1>6. /\ Len(pv) \in Nat /\ f.pf \in Nat /\ f.pl \in Nat /\ f.last \in Nat /\ f.first \in Nat
      /\ f.first <= m /\ m <= w /\ w <= f.last
  <2> HIDE DEF f
  <2>1. f.pf \in Nat /\ f.pl \in Nat /\ f.last \in Nat /\ f.first \in Nat
    BY <1>1 DEF CallRecords
  <2>2. IsCut(pv, xs, f, m, w, e)
    BY DEF f
  <2>3. f.first <= m /\ m <= w /\ w <= f.last
    BY <2>2 DEF IsCut
  <2>4. Len(pv) \in Nat
    BY DEF PivotsOK
  <2> QED
    BY <2>1, <2>3, <2>4
<1>7. os[2 * (e + 1) - 1] = -1 /\ os[2 * (e + 1)] = -1
  <2> HIDE DEF f
  <2>1. e + 1 \in f.pf + 1 .. f.pl
    BY <1>3, <1>6
  <2>2. ToBeWritten("eq", os, f)
    BY <1>2 DEF CallOK
  <2> QED
    BY <2>1, <2>2 DEF ToBeWritten
<1>8. /\ lc \in CallRecords /\ rc \in CallRecords
      /\ lc.first = f.first /\ lc.last = m /\ lc.pf = f.pf /\ lc.pl = e /\ lc.at = f.at
      /\ rc.first = w /\ rc.last = f.last /\ rc.pf = e + 1 /\ rc.pl = f.pl /\ rc.at = 2 * (e + 1)
  <2> HIDE DEF f
  <2>1. /\ lc \in CallRecords
        /\ lc.first = f.first /\ lc.last = m /\ lc.pf = f.pf /\ lc.pl = e /\ lc.at = f.at
    BY <1>1 DEF CallRecords
  <2>2. PICK y \in Nat, z \in Nat : y = e + 1 /\ z = 2 * (e + 1)
    OBVIOUS
  <2>3. rc = [f EXCEPT !.first = w, !.pf = y, !.at = z]
    BY <2>2
  <2> HIDE DEF rc
  <2>4. /\ rc \in CallRecords
        /\ rc.first = w /\ rc.last = f.last /\ rc.pf = y /\ rc.pl = f.pl /\ rc.at = z
    BY <1>1, <2>3 DEF CallRecords
  <2> HIDE DEF lc
  <2> QED
    BY <2>1, <2>2, <2>4
<1>9. \A c \in 2 .. Len(st) : CallOK("eq", pv, xs, os2, st[c])
  <2> SUFFICES ASSUME NEW c \in 2 .. Len(st) PROVE CallOK("eq", pv, xs, os2, st[c])
    OBVIOUS
  <2>1. c \in 1 .. Len(st) /\ 1 < c
    BY <1>1
  <2>2. st[c] \in CallRecords /\ CallOK("eq", pv, xs, os, st[c]) /\ Apart(f, st[c])
    BY <1>1, <2>1 DEF CallsOK
  <2> HIDE DEF f
  <2> QED
    BY <1>1, <1>4, <2>2, EqOthersKept
<1>10. \A c, b \in 1 .. Len(st) : c < b => Apart(st[c], st[b])
  BY DEF CallsOK
<1>11. ASSUME NEW q \in 1 .. Len(pv), ~ IsWritten("eq", os2, q)
       PROVE  \/ f.pf < q /\ q <= e
              \/ e + 1 < q /\ q <= f.pl
              \/ \E c \in 2 .. Len(st) : st[c].pf < q /\ q <= st[c].pl
  BY <1>3, <1>6, <1>11, EqCovers
<1>12. CASE f.pl - f.pf > 1
  <2>1. CallOK("eq", pv, xs, os2, lc)
    <3> HIDE DEF f, lc
    <3> QED
      BY <1>1, <1>4, <1>8, EqLeftCall
  <2>2. CallOK("eq", pv, xs, os2, rc)
    <3> HIDE DEF f, rc
    <3> QED
      BY <1>1, <1>4, <1>8, EqRightCall
  <2>3. Apart(lc, rc)
    <3>1. e <= e + 1
      OBVIOUS
    <3> HIDE DEF lc, rc
    <3> QED
      BY <1>6, <1>8, <3>1 DEF Apart
  <2>4. lc.pl <= f.pl /\ lc.last <= f.last /\ rc.pl <= f.pl /\ rc.last <= f.last
    <3> HIDE DEF lc, rc, f
    <3> QED
      BY <1>3, <1>6, <1>8
  <2>5. \A q \in 1 .. Len(pv) :
          \/ IsWritten("eq", os2, q)
          \/ lc.pf < q /\ q <= lc.pl
          \/ rc.pf < q /\ q <= rc.pl
          \/ \E c \in 2 .. Len(st) : st[c].pf < q /\ q <= st[c].pl
    <3> HIDE DEF lc, rc, f
    <3> QED
      BY <1>8, <1>11
  <2>6. CallsOK("eq", pv, xs, os2, <<lc, rc>> \o Tail(st))
    <3> HIDE DEF lc, rc
    <3> QED
      BY <1>1, <1>8, <1>9, <1>10, <2>1, <2>2, <2>3, <2>4, <2>5, PushCalls
  <2>7. EqStack(st, m, w, e) = <<lc, rc>> \o Tail(st)
    BY <1>12 DEF EqStack
  <2> QED
    BY <1>5, <1>7, <2>6, <2>7
<1>13. CASE ~ (f.pl - f.pf > 1)
  <2>1. \A q \in 1 .. Len(pv) :
          IsWritten("eq", os2, q) \/ \E c \in 2 .. Len(st) : st[c].pf < q /\ q <= st[c].pl
    <3> HIDE DEF f
    <3> QED
      BY <1>3, <1>6, <1>11, <1>13
  <2>2. CallsOK("eq", pv, xs, os2, Tail(st))
    BY <1>1, <1>9, <1>10, <2>1, PopCall
  <2>3. EqStack(st, m, w, e) = Tail(st)
    <3>1. EqStack(st, m, w, e) = <<>> \o Tail(st)
      BY <1>13 DEF EqStack
    <3>2. Tail(st) \in Seq(CallRecords)
      BY <1>1, TailCalls
    <3> HIDE DEF CallRecords
    <3> QED
      BY <3>1, <3>2
  <2> QED
    BY <1>5, <1>7, <2>2, <2>3
<1> QED
  BY <1>12, <1>13

LEMMA SameCountsTrans ==
  ASSUME NEW n \in Nat, NEW V, NEW r, NEW s, NEW t, SameCounts(n, V, r, s), SameCounts(n, V, r, t)
  PROVE  SameCounts(n, V, s, t)
BY DEF SameCounts

LEMMA MovedRangeOK ==
  ASSUME NEW va, NEW inp, NEW xs, NEW ys, NEW inf, NEW sup, Len(inp) \in Nat,
         inp \in [1 .. Len(inp) -> Values],
         RangeOK(va, inp, xs), PartMoved(inf, sup, xs, ys), va = "point" => ys = xs
  PROVE  RangeOK(va, inp, ys)
<1>1. PICK n \in Nat : n = Len(inp)
  OBVIOUS
<1>2. /\ Len(xs) = n /\ Len(ys) = n /\ xs \in [1 .. n -> Values] /\ ys \in [1 .. n -> Values]
      /\ Rearranged(xs, ys) /\ Rearranged(xs, inp)
  BY <1>1 DEF RangeOK, PartMoved
<1>3. SameCounts(n, Values, xs, ys)
  BY <1>2, RearrangedFact
<1>4. SameCounts(n, Values, xs, inp)
  BY <1>1, <1>2, RearrangedFact
<1>5. SameCounts(n, Values, ys, inp)
  BY Zenon, <1>3, <1>4, SameCountsTrans
<1>6. Rearranged(ys, inp)
  BY <1>1, <1>2, <1>5, RearrangedFact
<1> QED
  BY <1>1, <1>2, <1>6 DEF RangeOK

\* A swap moves the elements of any part that has both.
Exchanged(xs, a, b) == [xs EXCEPT ![a] = xs[b], ![b] = xs[a]]

IsExchange(n, xs, ys, a, b) ==
  /\ ys[a] = xs[b] /\ ys[b] = xs[a]
  /\ \A c \in 1 .. n : c # a /\ c # b => ys[c] = xs[c]

LEMMA ExchangedFacts ==
  ASSUME NEW n \in Nat, NEW V, NEW xs \in [1 .. n -> V], NEW a \in 1 .. n, NEW b \in 1 .. n
  PROVE  IsExchange(n, xs, Exchanged(xs, a, b), a, b)
BY DEF Exchanged, IsExchange

LEMMA SwapCounts ==
  ASSUME NEW n \in Nat, NEW V, NEW xs \in [1 .. n -> V], NEW a \in 1 .. n, NEW b \in 1 .. n
  PROVE  SameCounts(n, V, xs, Exchanged(xs, a, b))
<1> DEFINE ys == Exchanged(xs, a, b)
           sw == [c \in 1 .. n |-> IF c = a THEN b ELSE IF c = b THEN a ELSE c]
<1>1. ys \in [1 .. n -> V] /\ \A c \in 1 .. n : ys[sw[c]] = xs[c]
  BY DEF Exchanged
<1>2. sw \in [1 .. n -> 1 .. n] /\ \A c \in 1 .. n : sw[sw[c]] = c
  OBVIOUS
<1> HIDE DEF ys, sw
<1>3. ASSUME NEW v \in V
      PROVE  Cardinality({c \in 1 .. n : xs[c] = v}) = Cardinality({c \in 1 .. n : ys[c] = v})
  <2> DEFINE S == {c \in 1 .. n : xs[c] = v}
             T == {c \in 1 .. n : ys[c] = v}
             g == [c \in S |-> sw[c]]
  <2>1. IsFiniteSet(S)
    <3>1. IsFiniteSet(1 .. n)
      BY FS_Interval
    <3>2. S \in SUBSET (1 .. n)
      OBVIOUS
    <3> QED
      BY <3>1, <3>2, FS_Subset
  <2>2. \A c \in S : c \in 1 .. n /\ sw[c] \in T
    BY <1>1, <1>2
  <2>3. \A c \in T : sw[c] \in S /\ sw[sw[c]] = c
    BY <1>1, <1>2
  <2>4. g \in Bijection(S, T)
    <3> HIDE DEF S, T
    <3>1. g \in [S -> T] /\ \A c \in S : g[c] = sw[c]
      BY <2>2
    <3>2. \A c, d \in S : g[c] = g[d] => c = d
      BY <1>2, <2>2, <3>1
    <3>3. \A c \in T : \E d \in S : g[d] = c
      BY <2>3, <3>1
    <3> HIDE DEF g
    <3> QED
      BY <3>1, <3>2, <3>3 DEF Bijection, Injection, Surjection, IsInjective
  <2> HIDE DEF S, T, g
  <2>5. ExistsBijection(S, T)
    BY <2>4 DEF ExistsBijection
  <2>6. Cardinality(S) = Cardinality(T)
    BY <2>1, <2>5, FS_Bijection
  <2> QED
    BY <2>6 DEF S, T
<1>4. SameCounts(n, V, xs, ys)
  BY <1>1, <1>3 DEF SameCounts
<1> QED
  BY <1>4 DEF ys

LEMMA SwapMoved ==
  ASSUME NEW inf \in Nat, NEW sup \in Nat, NEW xs, Len(xs) \in Nat, xs \in [1 .. Len(xs) -> Values],
         sup <= Len(xs), NEW a \in inf + 1 .. sup, NEW b \in inf + 1 .. sup
  PROVE  PartMoved(inf, sup, xs, Exchanged(xs, a, b))
<1>1. PICK n \in Nat : n = Len(xs)
  OBVIOUS
<1> DEFINE ys == Exchanged(xs, a, b)
<1>2. xs \in [1 .. n -> Values] /\ a \in 1 .. n /\ b \in 1 .. n
  BY <1>1
<1>3. SameCounts(n, Values, xs, ys)
  BY <1>2, SwapCounts
<1>4. ys \in [1 .. n -> Values]
  BY <1>3 DEF SameCounts
<1>5. Len(ys) = n
  BY <1>4
<1>6. \A c \in 1 .. n : ~ (inf < c /\ c <= sup) => ys[c] = xs[c]
  BY <1>2 DEF Exchanged
<1> HIDE DEF ys
<1>7. Rearranged(xs, ys)
  BY <1>1, <1>2, <1>3, <1>4, <1>5, RearrangedFact
<1>8. PartMoved(inf, sup, xs, ys)
  BY <1>1, <1>2, <1>4, <1>5, <1>6, <1>7 DEF PartMoved
<1> QED
  BY <1>8 DEF ys

LEMMA NothingMoved ==
  ASSUME NEW inf \in Nat, NEW sup \in Nat, NEW xs, Len(xs) \in Nat, xs \in [1 .. Len(xs) -> Values]
  PROVE  PartMoved(inf, sup, xs, xs)
<1>1. PICK n \in Nat : n = Len(xs)
  OBVIOUS
<1>2. SameCounts(n, Values, xs, xs)
  BY <1>1 DEF SameCounts
<1>3. Rearranged(xs, xs)
  BY <1>1, <1>2, RearrangedFact
<1> QED
  BY <1>3 DEF PartMoved

LEMMA InvFacts ==
  ASSUME NEW va, NEW inp, NEW pv, NEW xs, NEW os, NEW st, NEW sc, PInv(va, inp, pv, xs, os, st, sc)
  PROVE  /\ ArgsOK(va, inp, pv) /\ RangeOK(va, inp, xs) /\ OutOK(va, pv, xs, os)
         /\ CallsOK(va, pv, xs, os, st) /\ ScanOK(va, pv, xs, st, sc)
         /\ PivotsOK(pv) /\ HasInts(xs) /\ xs \in [1 .. Len(xs) -> Values]
         /\ Len(inp) \in Nat /\ inp \in [1 .. Len(inp) -> Values] /\ Len(xs) = Len(inp)
<1>1. /\ ArgsOK(va, inp, pv) /\ RangeOK(va, inp, xs) /\ OutOK(va, pv, xs, os)
      /\ CallsOK(va, pv, xs, os, st) /\ ScanOK(va, pv, xs, st, sc)
  BY DEF PInv
<1>2. PivotsOK(pv) /\ Len(inp) \in Nat /\ inp \in [1 .. Len(inp) -> Values]
  BY <1>1 DEF ArgsOK, PivotsOK
<1>3. Len(xs) = Len(inp) /\ xs \in [1 .. Len(xs) -> Values]
  BY <1>1 DEF RangeOK
<1>4. HasInts(xs)
  BY <1>2, <1>3, ValuesAreInts DEF HasInts
<1> QED
  BY <1>1, <1>2, <1>3, <1>4

\* The current call.
LEMMA TopFacts ==
  ASSUME NEW va, NEW pv, NEW xs, NEW os, NEW st, CallsOK(va, pv, xs, os, st), st # <<>>
  PROVE  /\ Len(st) \in Nat /\ 1 \in 1 .. Len(st) /\ st[1] \in CallRecords
         /\ CallOK(va, pv, xs, os, st[1]) /\ st[1].first <= st[1].last /\ st[1].last <= Len(xs)
         /\ st[1].first \in Nat /\ st[1].last \in Nat /\ st[1].pf \in Nat /\ st[1].pl \in Nat
         /\ st[1].at = IF va = "eq" THEN 2 * st[1].pf ELSE st[1].pf
<1>1. Len(st) \in Nat /\ 1 \in 1 .. Len(st) /\ st[1] \in CallRecords
  BY DEF CallsOK
<1>2. CallOK(va, pv, xs, os, st[1])
  BY <1>1 DEF CallsOK
<1>3. /\ st[1].first <= st[1].last /\ st[1].last <= Len(xs)
      /\ st[1].first \in Nat /\ st[1].last \in Nat /\ st[1].pf \in Nat /\ st[1].pl \in Nat
      /\ st[1].at = IF va = "eq" THEN 2 * st[1].pf ELSE st[1].pf
  BY <1>2 DEF CallOK, CallTypeOK
<1> QED
  BY <1>1, <1>2, <1>3

LEMMA ReturnKeeps ==
  ASSUME NEW va, NEW inp, NEW pv, NEW xs, NEW os, NEW st, NEW sc,
         PInv(va, inp, pv, xs, os, st, sc), st # <<>>, st[1].pf = st[1].pl
  PROVE  PInv(va, inp, pv, xs, os, Tail(st), sc)
<1>1. /\ ArgsOK(va, inp, pv) /\ RangeOK(va, inp, xs) /\ OutOK(va, pv, xs, os)
      /\ CallsOK(va, pv, xs, os, st) /\ ScanOK(va, pv, xs, st, sc) /\ PivotsOK(pv)
  BY Zenon, InvFacts
<1>2. Len(st) \in Nat /\ st[1].pf \in Nat /\ st[1].pl \in Nat
  BY Zenon, <1>1, TopFacts
<1>3. sc = <<>>
  <2>1. ASSUME sc # <<>> PROVE FALSE
    <3>1. st[1].pf < st[1].pl
      BY <1>1, <2>1 DEF ScanOK
    <3> QED
      BY <1>2, <3>1
  <2> QED
    BY <2>1
<1>4. st \in Seq(CallRecords) /\ \A c \in 2 .. Len(st) : CallOK(va, pv, xs, os, st[c])
  <2>1. \A c \in 2 .. Len(st) : c \in 1 .. Len(st)
    BY <1>2
  <2> QED
    BY <1>1, <2>1 DEF CallsOK
<1>5. \A c, d \in 1 .. Len(st) : c < d => Apart(st[c], st[d])
  BY <1>1 DEF CallsOK
<1>6. \A q \in 1 .. Len(pv) :
        IsWritten(va, os, q) \/ \E c \in 2 .. Len(st) : st[c].pf < q /\ q <= st[c].pl
  <2> SUFFICES ASSUME NEW q \in 1 .. Len(pv), ~ IsWritten(va, os, q)
               PROVE  \E c \in 2 .. Len(st) : st[c].pf < q /\ q <= st[c].pl
    OBVIOUS
  <2>1. PICK c \in 1 .. Len(st) : st[c].pf < q /\ q <= st[c].pl
    BY <1>1 DEF CallsOK
  <2>2. q \in Nat
    BY <1>1 DEF PivotsOK
  <2>3. c # 1
    <3>1. ASSUME c = 1 PROVE FALSE
      BY <1>2, <2>1, <2>2, <3>1
    <3> QED
      BY <3>1
  <2>4. c \in 2 .. Len(st)
    BY <1>2, <2>3
  <2> QED
    BY <2>1, <2>4
<1>7. CallsOK(va, pv, xs, os, Tail(st))
  BY <1>4, <1>5, <1>6, PopCall
<1>8. ScanOK(va, pv, xs, Tail(st), sc)
  BY <1>3 DEF ScanOK
<1> QED
  BY <1>1, <1>7, <1>8 DEF PInv

CutPlace(pv, xs, f, e) == f.first + CountIn(xs, f.first, f.last, LAMBDA v : v < pv[e + 1])

LEMMA PivotSplitStep ==
  ASSUME NEW va, NEW inp, NEW pv, NEW xs, NEW ys, NEW os, NEW st, NEW sc, NEW m, NEW e,
         PInv(va, inp, pv, xs, os, st, sc), va # "eq", st # <<>>, st[1].pf < st[1].pl, e = MidOf(st[1]),
         PartMoved(st[1].first, st[1].last, xs, ys), va = "point" => ys = xs,
         PartitionedBy(ys, st[1].first, st[1].last, pv[e + 1]),
         m = CutPlace(pv, xs, st[1], e)
  PROVE  /\ PInv(va, inp, pv, ys, [os EXCEPT ![e + 1] = m], SplitStack(va, st, m, e), sc)
         /\ os[e + 1] # -1 => os[e + 1] = m
<1>1. /\ ArgsOK(va, inp, pv) /\ RangeOK(va, inp, xs) /\ OutOK(va, pv, xs, os)
      /\ CallsOK(va, pv, xs, os, st) /\ ScanOK(va, pv, xs, st, sc) /\ PivotsOK(pv)
      /\ Len(inp) \in Nat /\ inp \in [1 .. Len(inp) -> Values]
  BY Zenon, InvFacts
<1>2. /\ st[1] \in CallRecords /\ CallOK(va, pv, xs, os, st[1])
      /\ st[1].first <= st[1].last /\ st[1].last <= Len(xs)
      /\ st[1].first \in Nat /\ st[1].last \in Nat /\ st[1].pf \in Nat /\ st[1].pl \in Nat
  BY Zenon, <1>1, TopFacts
<1>3. e \in Nat /\ e < st[1].pl /\ e + 1 \in 1 .. Len(pv) /\ pv[e + 1] \in Int
  <2>1. e \in Nat /\ e < st[1].pl
    BY <1>2, MidFacts
  <2>2. st[1].pl <= Len(pv) /\ Len(pv) \in Nat
    BY <1>1, <1>2 DEF CallOK, CallTypeOK, PivotsOK
  <2>3. e + 1 \in 1 .. Len(pv)
    BY <1>2, <2>1, <2>2
  <2> QED
    BY <1>1, <2>1, <2>3 DEF PivotsOK
<1>4. OutOK(va, pv, ys, os) /\ CallsOK(va, pv, ys, os, st)
  BY Zenon, <1>1, MoveKeeps
<1>5. RangeOK(va, inp, ys)
  BY Zenon, <1>1, MovedRangeOK
<1>6. HasInts(ys)
  BY ValuesAreInts DEF PartMoved, HasInts
<1>7. m \in Nat /\ IsCutInTwo(pv, ys, st[1], m, e)
  <2> DEFINE inf == st[1].first
             sup == st[1].last
             P == pv[e + 1]
             N == CountIn(xs, inf, sup, LAMBDA v : v < P)
  <2>0. /\ inf \in Nat /\ sup \in Nat /\ P \in Int /\ inf <= sup /\ sup <= Len(xs)
        /\ PartMoved(inf, sup, xs, ys) /\ PartitionedBy(ys, inf, sup, P)
    BY <1>2, <1>3
  <2>1. N \in 0 .. sup - inf /\ \A a \in inf + 1 .. sup : ys[a] < P <=> a <= inf + N
    <3> HIDE DEF inf, sup, P
    <3> QED
      BY <2>0, PartCut
  <2>2. m = inf + N
    BY DEF CutPlace
  <2> HIDE DEF inf, sup, P, N
  <2>3. m \in Nat /\ inf <= m /\ m <= sup /\ \A a \in inf + 1 .. sup : ys[a] < P <=> a <= m
    BY <2>0, <2>1, <2>2
  <2> QED
    BY <2>3 DEF inf, sup, P, IsCutInTwo
<1>8. /\ OutOK(va, pv, ys, [os EXCEPT ![e + 1] = m])
      /\ CallsOK(va, pv, ys, [os EXCEPT ![e + 1] = m], SplitStack(va, st, m, e))
      /\ os[e + 1] # -1 => os[e + 1] = m
  <2>1. PivotsOK(pv) /\ e \in Nat
    BY <1>1, <1>3
  <2> QED
    BY <1>4, <1>6, <1>7, <2>1, PivotSplitKeeps
<1>9. ScanOK(va, pv, ys, SplitStack(va, st, m, e), sc)
  BY <1>1 DEF ScanOK
<1> QED
  BY <1>1, <1>5, <1>8, <1>9 DEF PInv

LEMMA ScanStart ==
  ASSUME NEW va, NEW inp, NEW pv, NEW xs, NEW os, NEW st, NEW sc,
         PInv(va, inp, pv, xs, os, st, sc), va = "eq", st # <<>>, st[1].pf < st[1].pl
  PROVE  PInv(va, inp, pv, xs, os, st, [f |-> st[1].first, n |-> st[1].first, l |-> st[1].last])
<1> DEFINE f == st[1]
           s == [f |-> f.first, n |-> f.first, l |-> f.last]
<1>1. CallsOK(va, pv, xs, os, st)
  BY Zenon, InvFacts
<1>2. f.first \in Nat /\ f.last \in Nat /\ f.first <= f.last
  BY Zenon, <1>1, TopFacts
<1>3. ScanSplit(pv, xs, f, s)
  <2> HIDE DEF f
  <2>1. s \in [f : Nat, n : Nat, l : Nat] /\ s.f = f.first /\ s.n = f.first /\ s.l = f.last
    BY <1>2
  <2> HIDE DEF s
  <2> QED
    BY <1>2, <2>1 DEF ScanSplit
<1>4. ScanOK(va, pv, xs, st, s)
  <2> HIDE DEF s
  <2> QED
    BY <1>3 DEF ScanOK
<1> QED
  BY <1>4 DEF PInv

LEMMA ScanMove ==
  ASSUME NEW va, NEW inp, NEW pv, NEW xs, NEW ys, NEW os, NEW st, NEW sc, NEW sc2,
         PInv(va, inp, pv, xs, os, st, sc), va = "eq", st # <<>>, st[1].pf < st[1].pl,
         PartMoved(st[1].first, st[1].last, xs, ys), ScanSplit(pv, ys, st[1], sc2)
  PROVE  PInv(va, inp, pv, ys, os, st, sc2)
<1>1. /\ ArgsOK(va, inp, pv) /\ RangeOK(va, inp, xs) /\ OutOK(va, pv, xs, os)
      /\ CallsOK(va, pv, xs, os, st) /\ PivotsOK(pv)
      /\ Len(inp) \in Nat /\ inp \in [1 .. Len(inp) -> Values]
  BY Zenon, InvFacts
<1>2. OutOK(va, pv, ys, os) /\ CallsOK(va, pv, ys, os, st)
  BY Zenon, <1>1, MoveKeeps
<1>3. va = "point" => ys = xs
  OBVIOUS
<1>4. RangeOK(va, inp, ys)
  BY Zenon, <1>1, <1>3, MovedRangeOK
<1>5. ScanOK(va, pv, ys, st, sc2)
  BY DEF ScanOK
<1> QED
  BY <1>1, <1>2, <1>4, <1>5 DEF PInv

\* The arguments of a step of the scan.
ScanState(pv, xs, f, sc) ==
  /\ f.first \in Nat /\ f.last \in Nat /\ f.last <= Len(xs) /\ Len(xs) \in Nat
  /\ xs \in [1 .. Len(xs) -> Values] /\ ScanSplit(pv, xs, f, sc)

LEMMA BelowSplit ==
  ASSUME NEW pv, NEW xs, NEW f, NEW sc, ScanState(pv, xs, f, sc), sc.n # sc.l,
         xs[sc.n + 1] < pv[MidOf(f) + 1]
  PROVE  /\ PartMoved(f.first, f.last, xs, Exchanged(xs, sc.f + 1, sc.n + 1))
         /\ ScanSplit(pv, Exchanged(xs, sc.f + 1, sc.n + 1), f, [sc EXCEPT !.f = @ + 1, !.n = @ + 1])
<1> DEFINE P == pv[MidOf(f) + 1]
<1>1. /\ f.first \in Nat /\ f.last \in Nat /\ f.last <= Len(xs) /\ Len(xs) \in Nat
      /\ xs \in [1 .. Len(xs) -> Values] /\ sc \in [f : Nat, n : Nat, l : Nat]
      /\ f.first <= sc.f /\ sc.f <= sc.n /\ sc.n <= sc.l /\ sc.l <= f.last
      /\ \A a \in f.first + 1 .. sc.f : xs[a] < P
      /\ \A a \in sc.f + 1 .. sc.n : xs[a] = P
      /\ \A a \in sc.l + 1 .. f.last : P < xs[a]
      /\ xs[sc.n + 1] < P
  BY DEF ScanState, ScanSplit
<1> HIDE DEF P
<1>2. PICK b \in Nat, c \in Nat, d \in Nat, y \in Nat, z \in Nat :
        b = sc.f /\ c = sc.n /\ d = sc.l /\ y = b + 1 /\ z = c + 1
  BY <1>1
<1> DEFINE ys == Exchanged(xs, y, z)
           s == [sc EXCEPT !.f = y, !.n = z]
<1>3. /\ f.first <= b /\ b <= c /\ c < d /\ d <= f.last
      /\ y \in f.first + 1 .. f.last /\ z \in f.first + 1 .. f.last
      /\ y \in 1 .. Len(xs) /\ z \in 1 .. Len(xs)
  BY <1>1, <1>2
<1>4. PartMoved(f.first, f.last, xs, ys)
  BY Zenon, <1>1, <1>3, SwapMoved
<1>5. /\ ys[y] = xs[z] /\ ys[z] = xs[y] /\ xs[z] < P
      /\ \A a \in 1 .. Len(xs) : a # y /\ a # z => ys[a] = xs[a]
  <2>1. IsExchange(Len(xs), xs, ys, y, z)
    BY Zenon, <1>1, <1>3, ExchangedFacts
  <2>2. xs[z] < P
    BY <1>1, <1>2
  <2> HIDE DEF ys
  <2> QED
    BY <2>1, <2>2 DEF IsExchange
<1>6. s \in [f : Nat, n : Nat, l : Nat] /\ s.f = y /\ s.n = z /\ s.l = d
  BY <1>1, <1>2
<1> HIDE DEF ys, s
<1>7. \A a \in f.first + 1 .. y : ys[a] < P
  <2> SUFFICES ASSUME NEW a \in f.first + 1 .. y PROVE ys[a] < P
    OBVIOUS
  <2>1. CASE a = y
    BY <1>1, <1>2, <1>5, <2>1
  <2>2. CASE a # y
    <3>1. a \in f.first + 1 .. b /\ a \in 1 .. Len(xs) /\ a # z
      BY <1>1, <1>2, <1>3, <2>2
    <3> QED
      BY <1>1, <1>2, <1>5, <2>2, <3>1
  <2> QED
    BY <2>1, <2>2
<1>8. \A a \in y + 1 .. z : ys[a] = P
  <2> SUFFICES ASSUME NEW a \in y + 1 .. z PROVE ys[a] = P
    OBVIOUS
  <2>1. CASE a = z
    <3>1. y \in b + 1 .. c
      BY <1>2, <2>1
    <3> QED
      BY <1>1, <1>2, <1>5, <2>1, <3>1
  <2>2. CASE a # z
    <3>1. a \in b + 1 .. c /\ a \in 1 .. Len(xs) /\ a # y
      BY <1>1, <1>2, <1>3, <2>2
    <3> QED
      BY <1>1, <1>2, <1>5, <2>2, <3>1
  <2> QED
    BY <2>1, <2>2
<1>9. \A a \in d + 1 .. f.last : P < ys[a]
  <2> SUFFICES ASSUME NEW a \in d + 1 .. f.last PROVE P < ys[a]
    OBVIOUS
  <2>1. a \in 1 .. Len(xs) /\ a # y /\ a # z
    BY <1>1, <1>2, <1>3
  <2> QED
    BY <1>1, <1>2, <1>5, <2>1
<1>10. ScanSplit(pv, ys, f, s)
  <2>1. f.first <= y /\ y <= z /\ z <= d
    BY <1>1, <1>2, <1>3
  <2> QED
    BY <1>3, <1>6, <1>7, <1>8, <1>9, <2>1 DEF ScanSplit, P
<1>11. ys = Exchanged(xs, sc.f + 1, sc.n + 1) /\ s = [sc EXCEPT !.f = @ + 1, !.n = @ + 1]
  BY <1>2 DEF ys, s
<1> QED
  BY <1>4, <1>10, <1>11

LEMMA AboveSplit ==
  ASSUME NEW pv, NEW xs, NEW f, NEW sc, ScanState(pv, xs, f, sc), sc.n # sc.l,
         pv[MidOf(f) + 1] < xs[sc.n + 1]
  PROVE  /\ PartMoved(f.first, f.last, xs, Exchanged(xs, sc.l, sc.n + 1))
         /\ ScanSplit(pv, Exchanged(xs, sc.l, sc.n + 1), f, [sc EXCEPT !.l = @ - 1])
<1> DEFINE P == pv[MidOf(f) + 1]
<1>1. /\ f.first \in Nat /\ f.last \in Nat /\ f.last <= Len(xs) /\ Len(xs) \in Nat
      /\ xs \in [1 .. Len(xs) -> Values] /\ sc \in [f : Nat, n : Nat, l : Nat]
      /\ f.first <= sc.f /\ sc.f <= sc.n /\ sc.n <= sc.l /\ sc.l <= f.last
      /\ \A a \in f.first + 1 .. sc.f : xs[a] < P
      /\ \A a \in sc.f + 1 .. sc.n : xs[a] = P
      /\ \A a \in sc.l + 1 .. f.last : P < xs[a]
      /\ P < xs[sc.n + 1]
  BY DEF ScanState, ScanSplit
<1> HIDE DEF P
<1>2. PICK b \in Nat, c \in Nat, d \in Nat, z \in Nat :
        b = sc.f /\ c = sc.n /\ d = sc.l /\ z = c + 1
  BY <1>1
<1> DEFINE ys == Exchanged(xs, d, z)
           s == [sc EXCEPT !.l = d - 1]
<1>3. /\ f.first <= b /\ b <= c /\ c < d /\ d <= f.last
      /\ d \in f.first + 1 .. f.last /\ z \in f.first + 1 .. f.last
      /\ d \in 1 .. Len(xs) /\ z \in 1 .. Len(xs) /\ d - 1 \in Nat
  BY <1>1, <1>2
<1>4. PartMoved(f.first, f.last, xs, ys)
  BY Zenon, <1>1, <1>3, SwapMoved
<1>5. /\ ys[d] = xs[z] /\ P < xs[z]
      /\ \A a \in 1 .. Len(xs) : a # d /\ a # z => ys[a] = xs[a]
  <2>1. IsExchange(Len(xs), xs, ys, d, z)
    BY Zenon, <1>1, <1>3, ExchangedFacts
  <2>2. P < xs[z]
    BY <1>1, <1>2
  <2> HIDE DEF ys
  <2> QED
    BY <2>1, <2>2 DEF IsExchange
<1>6. s \in [f : Nat, n : Nat, l : Nat] /\ s.f = b /\ s.n = c /\ s.l = d - 1
  BY <1>1, <1>2, <1>3
<1> HIDE DEF ys, s
<1>7. \A a \in f.first + 1 .. b : ys[a] < P
  <2> SUFFICES ASSUME NEW a \in f.first + 1 .. b PROVE ys[a] < P
    OBVIOUS
  <2>1. a \in 1 .. Len(xs) /\ a # d /\ a # z
    BY <1>1, <1>2, <1>3
  <2> QED
    BY <1>1, <1>2, <1>5, <2>1
<1>8. \A a \in b + 1 .. c : ys[a] = P
  <2> SUFFICES ASSUME NEW a \in b + 1 .. c PROVE ys[a] = P
    OBVIOUS
  <2>1. a \in 1 .. Len(xs) /\ a # d /\ a # z
    BY <1>1, <1>2, <1>3
  <2> QED
    BY <1>1, <1>2, <1>5, <2>1
<1>9. \A a \in d .. f.last : P < ys[a]
  <2> SUFFICES ASSUME NEW a \in d .. f.last PROVE P < ys[a]
    OBVIOUS
  <2>1. CASE a = d
    BY <1>1, <1>2, <1>5, <2>1
  <2>2. CASE a # d
    <3>1. a \in 1 .. Len(xs) /\ a # z /\ a \in d + 1 .. f.last
      BY <1>1, <1>2, <1>3, <2>2
    <3> QED
      BY <1>1, <1>2, <1>5, <2>2, <3>1
  <2> QED
    BY <2>1, <2>2
<1>10. ScanSplit(pv, ys, f, s)
  <2>1. (d - 1) + 1 = d /\ c <= d - 1 /\ d - 1 <= f.last
    BY <1>1, <1>3
  <2> QED
    BY <1>3, <1>6, <1>7, <1>8, <1>9, <2>1 DEF ScanSplit, P
<1>11. ys = Exchanged(xs, sc.l, sc.n + 1) /\ s = [sc EXCEPT !.l = @ - 1]
  BY <1>2 DEF ys, s
<1> QED
  BY <1>4, <1>10, <1>11

LEMMA EqualSplit ==
  ASSUME NEW pv, NEW xs, NEW f, NEW sc, ScanState(pv, xs, f, sc), sc.n # sc.l,
         xs[sc.n + 1] = pv[MidOf(f) + 1]
  PROVE  /\ PartMoved(f.first, f.last, xs, xs)
         /\ ScanSplit(pv, xs, f, [sc EXCEPT !.n = @ + 1])
<1> DEFINE P == pv[MidOf(f) + 1]
<1>1. /\ f.first \in Nat /\ f.last \in Nat /\ f.last <= Len(xs) /\ Len(xs) \in Nat
      /\ xs \in [1 .. Len(xs) -> Values] /\ sc \in [f : Nat, n : Nat, l : Nat]
      /\ f.first <= sc.f /\ sc.f <= sc.n /\ sc.n <= sc.l /\ sc.l <= f.last
      /\ \A a \in f.first + 1 .. sc.f : xs[a] < P
      /\ \A a \in sc.f + 1 .. sc.n : xs[a] = P
      /\ \A a \in sc.l + 1 .. f.last : P < xs[a]
      /\ xs[sc.n + 1] = P
  BY DEF ScanState, ScanSplit
<1> HIDE DEF P
<1>2. PICK b \in Nat, c \in Nat, d \in Nat : b = sc.f /\ c = sc.n /\ d = sc.l
  BY <1>1
<1> DEFINE s == [sc EXCEPT !.n = c + 1]
<1>3. s \in [f : Nat, n : Nat, l : Nat] /\ s.f = b /\ s.n = c + 1 /\ s.l = d
  BY <1>1, <1>2
<1>4. s = [sc EXCEPT !.n = @ + 1]
  BY <1>2
<1> HIDE DEF s
<1>5. f.first <= b /\ b <= c + 1 /\ c + 1 <= d /\ d <= f.last
  BY <1>1, <1>2
<1>6. \A a \in b + 1 .. c + 1 : xs[a] = P
  <2> SUFFICES ASSUME NEW a \in b + 1 .. c + 1 PROVE xs[a] = P
    OBVIOUS
  <2>1. CASE a = c + 1
    BY <1>1, <1>2, <2>1
  <2>2. CASE a # c + 1
    <3>1. a \in b + 1 .. c
      BY <2>2
    <3> QED
      BY <1>1, <1>2, <3>1
  <2> QED
    BY <2>1, <2>2
<1>7. ScanSplit(pv, xs, f, s)
  BY <1>1, <1>2, <1>3, <1>5, <1>6 DEF ScanSplit, P
<1>8. PartMoved(f.first, f.last, xs, xs)
  BY <1>1, NothingMoved
<1> QED
  BY <1>4, <1>7, <1>8

\* A scan is that of the current call.
LEMMA ScanFacts ==
  ASSUME NEW va, NEW inp, NEW pv, NEW xs, NEW os, NEW st, NEW sc,
         PInv(va, inp, pv, xs, os, st, sc), sc # <<>>
  PROVE  va = "eq" /\ st # <<>> /\ st[1].pf < st[1].pl /\ ScanState(pv, xs, st[1], sc)
<1>1. ScanOK(va, pv, xs, st, sc) /\ CallsOK(va, pv, xs, os, st) /\ HasInts(xs) /\ xs \in [1 .. Len(xs) -> Values]
  BY Zenon, InvFacts
<1>2. va = "eq" /\ st # <<>> /\ st[1].pf < st[1].pl /\ ScanSplit(pv, xs, st[1], sc)
  BY <1>1 DEF ScanOK
<1>3. st[1].last <= Len(xs) /\ st[1].first \in Nat /\ st[1].last \in Nat
  BY Zenon, <1>1, <1>2, TopFacts
<1>4. Len(xs) \in Nat
  BY <1>1 DEF HasInts
<1> QED
  BY <1>1, <1>2, <1>3, <1>4 DEF ScanState

LEMMA ScanIsCut ==
  ASSUME NEW pv, NEW xs, NEW f, NEW sc, ScanSplit(pv, xs, f, sc), sc.n = sc.l
  PROVE  sc.f \in Nat /\ sc.l \in Nat /\ IsCut(pv, xs, f, sc.f, sc.l, MidOf(f))
BY DEF ScanSplit, IsCut

LEMMA WrittenTwice ==
  ASSUME NEW pv, NEW os \in [1 .. 2 * Len(pv) -> Int], Len(pv) \in Nat,
         NEW m \in Nat, NEW w \in Nat, NEW e \in Nat, e + 1 \in 1 .. Len(pv)
  PROVE  EqWritten(pv, os, [os EXCEPT ![2 * e + 1] = m, ![2 * e + 2] = w], m, w, e)
<1> DEFINE os2 == [os EXCEPT ![2 * e + 1] = m, ![2 * e + 2] = w]
<1>1. /\ 2 * e + 1 \in 1 .. 2 * Len(pv) /\ 2 * e + 2 \in 1 .. 2 * Len(pv) /\ 2 * e + 1 # 2 * e + 2
      /\ 2 * (e + 1) - 1 = 2 * e + 1 /\ 2 * (e + 1) = 2 * e + 2
  OBVIOUS
<1>2. PICK y \in 1 .. 2 * Len(pv), z \in 1 .. 2 * Len(pv) : y = 2 * e + 1 /\ z = 2 * e + 2 /\ y # z
  BY <1>1
<1>3. os2 = [os EXCEPT ![y] = m, ![z] = w]
  BY <1>2
<1> HIDE DEF os2
<1>4. os2 \in [1 .. 2 * Len(pv) -> Int]
  BY <1>3
<1>5. os2[y] = m /\ os2[z] = w /\ \A a \in 1 .. 2 * Len(pv) : a # y /\ a # z => os2[a] = os[a]
  BY <1>2, <1>3
<1>6. ASSUME NEW q \in 1 .. Len(pv), q # e + 1
      PROVE  os2[2 * q - 1] = os[2 * q - 1] /\ os2[2 * q] = os[2 * q]
  <2>1. /\ 2 * q - 1 \in 1 .. 2 * Len(pv) /\ 2 * q \in 1 .. 2 * Len(pv)
        /\ 2 * q - 1 # y /\ 2 * q - 1 # z /\ 2 * q # y /\ 2 * q # z
    BY <1>2, <1>6
  <2> QED
    BY <1>5, <2>1
<1>7. os2[2 * (e + 1) - 1] = m /\ os2[2 * (e + 1)] = w
  BY <1>1, <1>2, <1>5
<1>8. EqWritten(pv, os, os2, m, w, e)
  BY <1>4, <1>6, <1>7 DEF EqWritten
<1> QED
  BY <1>8 DEF os2

LEMMA ScanFinish ==
  ASSUME NEW va, NEW inp, NEW pv, NEW xs, NEW os, NEW st, NEW sc, NEW e, NEW os2,
         PInv(va, inp, pv, xs, os, st, sc), sc # <<>>, sc.n = sc.l, e = MidOf(st[1]),
         os2 = [os EXCEPT ![2 * e + 1] = sc.f, ![2 * e + 2] = sc.l]
  PROVE  /\ PInv(va, inp, pv, xs, os2, EqStack(st, sc.f, sc.l, e), <<>>)
         /\ EqWritten(pv, os, os2, sc.f, sc.l, e) /\ e + 1 \in 1 .. Len(pv)
         /\ os[2 * (e + 1) - 1] = -1 /\ os[2 * (e + 1)] = -1
<1>1. /\ ArgsOK(va, inp, pv) /\ RangeOK(va, inp, xs) /\ OutOK(va, pv, xs, os)
      /\ CallsOK(va, pv, xs, os, st) /\ PivotsOK(pv) /\ HasInts(xs)
  BY Zenon, InvFacts
<1>2. va = "eq" /\ st # <<>> /\ st[1].pf < st[1].pl /\ ScanState(pv, xs, st[1], sc)
  BY Zenon, ScanFacts
<1>3. st[1] \in CallRecords /\ CallOK(va, pv, xs, os, st[1]) /\ st[1].pf \in Nat /\ st[1].pl \in Nat
  BY Zenon, <1>1, <1>2, TopFacts
<1>4. e \in Nat /\ e + 1 \in 1 .. Len(pv) /\ Len(pv) \in Nat
  <2>1. e \in Nat /\ e < st[1].pl
    BY <1>2, <1>3, MidFacts
  <2>2. st[1].pl <= Len(pv) /\ Len(pv) \in Nat
    BY <1>1, <1>3 DEF CallOK, CallTypeOK, PivotsOK
  <2>3. e + 1 \in 1 .. Len(pv)
    BY <1>3, <2>1, <2>2
  <2> QED
    BY <2>1, <2>2, <2>3
<1>5. sc.f \in Nat /\ sc.l \in Nat /\ IsCut(pv, xs, st[1], sc.f, sc.l, e)
  <2>1. ScanSplit(pv, xs, st[1], sc)
    BY <1>2 DEF ScanState
  <2> QED
    BY Zenon, <2>1, ScanIsCut
<1>6. os \in [1 .. 2 * Len(pv) -> Int]
  BY <1>1, <1>2 DEF OutOK
<1>7. EqWritten(pv, os, os2, sc.f, sc.l, e)
  BY Zenon, <1>4, <1>5, <1>6, WrittenTwice
<1>8. OutOK("eq", pv, xs, os) /\ CallsOK("eq", pv, xs, os, st)
  BY <1>1, <1>2
<1>9. /\ OutOK("eq", pv, xs, os2) /\ CallsOK("eq", pv, xs, os2, EqStack(st, sc.f, sc.l, e))
      /\ os[2 * (e + 1) - 1] = -1 /\ os[2 * (e + 1)] = -1
  <2>1. EqReady(pv, xs, os, os2, st, sc.f, sc.l, e)
    BY <1>1, <1>2, <1>5, <1>7, <1>8 DEF EqReady
  <2>2. EqDone(pv, xs, os, os2, st, sc.f, sc.l, e)
    BY Zenon, <1>4, <1>5, <2>1, EqKeeps
  <2> QED
    BY <2>2 DEF EqDone
<1>10. ScanOK(va, pv, xs, EqStack(st, sc.f, sc.l, e), <<>>)
  BY DEF ScanOK
<1>11. PInv(va, inp, pv, xs, os2, EqStack(st, sc.f, sc.l, e), <<>>)
  BY <1>1, <1>2, <1>9, <1>10 DEF PInv
<1> QED
  BY <1>4, <1>7, <1>9, <1>11

\* The elements below a cut are counted by it, in the range as in the input.
LEMMA CutCounts ==
  ASSUME NEW n \in Nat, NEW inp, NEW xs, Len(inp) = n, Len(xs) = n,
         inp \in [1 .. n -> Values], xs \in [1 .. n -> Values], Rearranged(xs, inp),
         NEW W, NEW m \in 0 .. n, \A a \in 1 .. n : xs[a] \in W <=> a <= m
  PROVE  Cardinality(HeldIn(1 .. n, inp, W)) = m
<1>1. SameCounts(n, Values, xs, inp)
  BY RearrangedFact
<1>2. Cardinality(HeldIn(1 .. n, xs, W)) = Cardinality(HeldIn(1 .. n, inp, W))
  BY <1>1, SameCountsIn
<1>3. HeldIn(1 .. n, xs, W) = 1 .. m
  BY DEF HeldIn
<1>4. Cardinality(1 .. m) = m
  BY FS_Interval
<1> QED
  BY <1>2, <1>3, <1>4

LEMMA BelowCounts ==
  ASSUME NEW n \in Nat, NEW inp, NEW xs, Len(inp) = n, Len(xs) = n,
         inp \in [1 .. n -> Values], xs \in [1 .. n -> Values], Rearranged(xs, inp),
         NEW e \in Int, NEW m \in 0 .. n, IsBelow(xs, e, m)
  PROVE  Count(inp, LAMBDA v : v < e) = m
<1> DEFINE W == {v \in Values : v < e}
<1>1. \A a \in 1 .. n : xs[a] \in W <=> a <= m
  <2>1. \A a \in 1 .. n : xs[a] \in Values /\ (xs[a] < e <=> a <= m)
    BY DEF IsBelow
  <2> QED
    BY <2>1
<1>2. Cardinality(HeldIn(1 .. n, inp, W)) = m
  <2> HIDE DEF W
  <2> QED
    BY <1>1, CutCounts
<1>3. {a \in 0 + 1 .. n : inp[a] < e} = HeldIn(1 .. n, inp, W)
  <2>1. \A a \in 1 .. n : inp[a] \in Values
    OBVIOUS
  <2> QED
    BY <2>1 DEF HeldIn
<1> QED
  BY <1>2, <1>3 DEF Count, CountIn

LEMMA UptoCounts ==
  ASSUME NEW n \in Nat, NEW inp, NEW xs, Len(inp) = n, Len(xs) = n,
         inp \in [1 .. n -> Values], xs \in [1 .. n -> Values], Rearranged(xs, inp),
         NEW e \in Int, NEW m \in 0 .. n, IsUpto(xs, e, m)
  PROVE  Count(inp, LAMBDA v : v <= e) = m
<1> DEFINE W == {v \in Values : v <= e}
<1>1. \A a \in 1 .. n : xs[a] \in W <=> a <= m
  <2>1. \A a \in 1 .. n : xs[a] \in Values /\ (xs[a] <= e <=> a <= m)
    BY DEF IsUpto
  <2> QED
    BY <2>1
<1>2. Cardinality(HeldIn(1 .. n, inp, W)) = m
  <2> HIDE DEF W
  <2> QED
    BY <1>1, CutCounts
<1>3. {a \in 0 + 1 .. n : inp[a] <= e} = HeldIn(1 .. n, inp, W)
  <2>1. \A a \in 1 .. n : inp[a] \in Values
    OBVIOUS
  <2> QED
    BY <2>1 DEF HeldIn
<1> QED
  BY <1>2, <1>3 DEF Count, CountIn

\* In the end something is written for every pivot.
LEMMA EndCuts ==
  ASSUME NEW va, NEW inp, NEW pv, NEW xs, NEW os, NEW sc,
         PInv(va, inp, pv, xs, os, <<>>, sc), NEW q \in 1 .. Len(pv)
  PROVE  IsWritten(va, os, q) /\ CutsAt(va, pv, xs, os, q)
<1>1. OutOK(va, pv, xs, os) /\ CallsOK(va, pv, xs, os, <<>>)
  BY Zenon, InvFacts
<1>2. IsWritten(va, os, q)
  <2>1. \A c \in 1 .. Len(<<>>) : FALSE
    OBVIOUS
  <2> QED
    BY Zenon, <1>1, <2>1 DEF CallsOK
<1>3. CutsAt(va, pv, xs, os, q)
  BY Zenon, <1>1, <1>2 DEF OutOK
<1> QED
  BY <1>2, <1>3

RangesMatch(inp, xs) ==
  \E n \in Nat : /\ Len(inp) = n /\ Len(xs) = n /\ Rearranged(xs, inp)
                 /\ inp \in [1 .. n -> Values] /\ xs \in [1 .. n -> Values]

LEMMA EndRange ==
  ASSUME NEW va, NEW inp, NEW pv, NEW xs, NEW os, NEW st, NEW sc, PInv(va, inp, pv, xs, os, st, sc)
  PROVE  RangesMatch(inp, xs)
<1>1. /\ RangeOK(va, inp, xs) /\ xs \in [1 .. Len(xs) -> Values]
      /\ Len(inp) \in Nat /\ inp \in [1 .. Len(inp) -> Values] /\ Len(xs) = Len(inp)
  BY Zenon, InvFacts
<1>2. Rearranged(xs, inp) /\ xs \in [1 .. Len(inp) -> Values]
  BY <1>1 DEF RangeOK
<1> QED
  BY Zenon, <1>1, <1>2 DEF RangesMatch

LEMMA EndBelow ==
  ASSUME NEW va, NEW inp, NEW pv, NEW xs, NEW os, NEW st, NEW sc, PInv(va, inp, pv, xs, os, st, sc),
         NEW e \in Int, NEW m \in 0 .. Len(xs), IsBelow(xs, e, m)
  PROVE  /\ Count(inp, LAMBDA v : v < e) = m
         /\ PartitionedBy(xs, 0, Len(xs), e)
<1>1. PICK n \in Nat : /\ Len(inp) = n /\ Len(xs) = n /\ Rearranged(xs, inp)
                       /\ inp \in [1 .. n -> Values] /\ xs \in [1 .. n -> Values]
  <2>1. RangesMatch(inp, xs)
    BY Zenon, EndRange
  <2> QED
    BY <2>1 DEF RangesMatch
<1>2. Count(inp, LAMBDA v : v < e) = m
  BY <1>1, BelowCounts
<1>3. PartitionedBy(xs, 0, Len(xs), e)
  <2> SUFFICES ASSUME NEW a \in 1 .. n, NEW b \in 1 .. n, a < b, xs[b] < e PROVE xs[a] < e
    BY <1>1 DEF PartitionedBy
  <2>1. b <= m
    BY <1>1 DEF IsBelow
  <2>2. a <= m
    BY <1>1, <2>1
  <2> QED
    BY <1>1, <2>2 DEF IsBelow
<1> QED
  BY <1>2, <1>3

LEMMA EndUpto ==
  ASSUME NEW va, NEW inp, NEW pv, NEW xs, NEW os, NEW st, NEW sc, PInv(va, inp, pv, xs, os, st, sc),
         NEW e \in Int, NEW m \in 0 .. Len(xs), IsUpto(xs, e, m)
  PROVE  Count(inp, LAMBDA v : v <= e) = m
<1>1. PICK n \in Nat : /\ Len(inp) = n /\ Len(xs) = n /\ Rearranged(xs, inp)
                       /\ inp \in [1 .. n -> Values] /\ xs \in [1 .. n -> Values]
  <2>1. RangesMatch(inp, xs)
    BY Zenon, EndRange
  <2> QED
    BY <2>1 DEF RangesMatch
<1> QED
  BY <1>1, UptoCounts

\* What is equal to a pivot, for its owner.
OwnerCounts(inp, pv, xs, os, q, o) ==
  /\ os[2 * o - 1] = Count(inp, LAMBDA v : v < pv[q])
  /\ os[2 * o] = Count(inp, LAMBDA v : v <= pv[q])
  /\ PartitionedBy(xs, 0, Len(xs), pv[q])
  /\ os[2 * o - 1] < os[2 * o] \/ os[2 * o - 1] = os[2 * o]

LEMMA EndOwner ==
  ASSUME NEW inp, NEW pv, NEW xs, NEW os, NEW sc, PInv("eq", inp, pv, xs, os, <<>>, sc),
         NEW q \in 1 .. Len(pv), NEW o \in 1 .. Len(pv), OwnedBy(pv, xs, os, q, o)
  PROVE  OwnerCounts(inp, pv, xs, os, q, o)
<1>1. /\ os[2 * o - 1] \in 0 .. Len(xs) /\ os[2 * o] \in 0 .. Len(xs)
      /\ IsBelow(xs, pv[q], os[2 * o - 1]) /\ IsUpto(xs, pv[q], os[2 * o])
  <2>1. CutsAt("eq", pv, xs, os, o)
    BY Zenon, EndCuts
  <2> QED
    BY <2>1 DEF CutsAt, InfOf, SupOf, OwnedBy
<1>2. pv[q] \in Int /\ HasInts(xs)
  <2>1. PivotsOK(pv) /\ HasInts(xs)
    BY Zenon, InvFacts
  <2> QED
    BY <2>1 DEF PivotsOK
<1>3. os[2 * o - 1] = Count(inp, LAMBDA v : v < pv[q]) /\ PartitionedBy(xs, 0, Len(xs), pv[q])
  BY <1>1, <1>2, EndBelow
<1>4. os[2 * o] = Count(inp, LAMBDA v : v <= pv[q])
  BY <1>1, <1>2, EndUpto
<1>5. ~ (os[2 * o] < os[2 * o - 1])
  <2> DEFINE w == os[2 * o]
             m == os[2 * o - 1]
  <2>1. /\ m \in 0 .. Len(xs) /\ w \in 0 .. Len(xs) /\ Len(xs) \in Nat
        /\ IsBelow(xs, pv[q], m) /\ IsUpto(xs, pv[q], w)
    BY <1>1, <1>2 DEF HasInts
  <2> HIDE DEF w, m
  <2> SUFFICES ASSUME w < m PROVE FALSE
    BY DEF w, m
  <2>2. w + 1 \in 1 .. Len(xs) /\ w + 1 <= m /\ ~ (w + 1 <= w)
    BY <2>1
  <2>3. xs[w + 1] < pv[q] /\ ~ (xs[w + 1] <= pv[q])
    BY <2>1, <2>2 DEF IsBelow, IsUpto
  <2>4. xs[w + 1] \in Int /\ pv[q] \in Int
    BY <1>2, <2>2 DEF HasInts
  <2> QED
    BY <2>3, <2>4
<1>6. os[2 * o - 1] < os[2 * o] \/ os[2 * o - 1] = os[2 * o]
  <2>1. os[2 * o - 1] \in Int /\ os[2 * o] \in Int
    BY <1>1
  <2> QED
    BY <1>5, <2>1
<1> QED
  BY <1>3, <1>4, <1>6 DEF OwnerCounts

\* In the end: the indices are counts, and every pivot partitions the range.
IndexedBy(inp, pv, os, q) ==
  \E o \in 1 .. Len(pv) : pv[o] = pv[q] /\
    \A r \in 1 .. Len(pv) : pv[r] = pv[q] =>
      /\ os[2 * r - 1] = IF r <= o THEN Count(inp, LAMBDA v : v < pv[q]) ELSE Count(inp, LAMBDA v : v <= pv[q])
      /\ os[2 * r] = IF r < o THEN Count(inp, LAMBDA v : v < pv[q]) ELSE Count(inp, LAMBDA v : v <= pv[q])

LEMMA EndEq ==
  ASSUME NEW inp, NEW pv, NEW xs, NEW os, NEW sc, PInv("eq", inp, pv, xs, os, <<>>, sc),
         NEW q \in 1 .. Len(pv)
  PROVE  IndexedBy(inp, pv, os, q) /\ PartitionedBy(xs, 0, Len(xs), pv[q])
<1> DEFINE bq == Count(inp, LAMBDA v : v < pv[q])
           uq == Count(inp, LAMBDA v : v <= pv[q])
<1>1. ASSUME NEW r \in 1 .. Len(pv) PROVE \E o \in 1 .. Len(pv) : OwnedBy(pv, xs, os, r, o)
  <2>1. CutsAt("eq", pv, xs, os, r)
    BY Zenon, EndCuts
  <2> QED
    BY <2>1 DEF CutsAt
<1>2. ASSUME NEW r \in 1 .. Len(pv), NEW o \in 1 .. Len(pv), OwnedBy(pv, xs, os, r, o), pv[r] = pv[q]
      PROVE  /\ os[2 * o - 1] = bq /\ os[2 * o] = uq /\ PartitionedBy(xs, 0, Len(xs), pv[q])
             /\ bq < uq \/ bq = uq
  <2>1. OwnerCounts(inp, pv, xs, os, r, o)
    BY <1>2, EndOwner
  <2> QED
    BY <1>2, <2>1 DEF OwnerCounts
<1>3. PICK o \in 1 .. Len(pv) : OwnedBy(pv, xs, os, q, o)
  BY <1>1
<1>4. /\ os[2 * o - 1] = bq /\ os[2 * o] = uq /\ PartitionedBy(xs, 0, Len(xs), pv[q])
      /\ bq < uq \/ bq = uq
  BY <1>2, <1>3
<1>5. pv[o] = pv[q] /\ IsWritten("eq", os, o)
  BY <1>3 DEF OwnedBy
<1> HIDE DEF bq, uq
<1>6. ASSUME NEW r \in 1 .. Len(pv), pv[r] = pv[q]
      PROVE  /\ os[2 * r - 1] = IF r <= o THEN bq ELSE uq
             /\ os[2 * r] = IF r < o THEN bq ELSE uq
  <2>1. PICK b \in 1 .. Len(pv) : OwnedBy(pv, xs, os, r, b)
    BY <1>1
  <2>2. os[2 * b - 1] = bq /\ os[2 * b] = uq
    BY <1>2, <1>6, <2>1
  <2>3. /\ os[2 * r - 1] = IF r <= b THEN bq ELSE uq
        /\ os[2 * r] = IF r < b THEN bq ELSE uq
    BY <2>1, <2>2 DEF OwnedBy
  <2>4. pv[b] = pv[o] /\ IsWritten("eq", os, b)
    BY <1>5, <1>6, <2>1 DEF OwnedBy
  <2>5. CASE bq < uq
    <3>1. Owns(os, o) /\ Owns(os, b)
      BY <1>4, <1>5, <2>2, <2>4, <2>5 DEF Owns
    <3>2. OutOK("eq", pv, xs, os)
      BY Zenon, InvFacts
    <3>3. b = o
      BY <2>4, <3>1, <3>2 DEF OutOK
    <3> QED
      BY <2>3, <3>3
  <2>6. CASE bq = uq
    BY <2>3, <2>6
  <2> QED
    BY <1>4, <2>5, <2>6
<1>7. IndexedBy(inp, pv, os, q)
  <2>1. pv[o] = pv[q] /\ \A r \in 1 .. Len(pv) : pv[r] = pv[q] =>
          /\ os[2 * r - 1] = IF r <= o THEN bq ELSE uq
          /\ os[2 * r] = IF r < o THEN bq ELSE uq
    BY <1>5, <1>6
  <2> QED
    BY <2>1 DEF IndexedBy, bq, uq
<1> QED
  BY <1>4, <1>7

IndexedOne(inp, pv, os, q) == os[q] = Count(inp, LAMBDA v : v < pv[q])

LEMMA EndOther ==
  ASSUME NEW va, NEW inp, NEW pv, NEW xs, NEW os, NEW sc, PInv(va, inp, pv, xs, os, <<>>, sc),
         va # "eq", NEW q \in 1 .. Len(pv)
  PROVE  IndexedOne(inp, pv, os, q) /\ PartitionedBy(xs, 0, Len(xs), pv[q])
<1>1. CutsAt(va, pv, xs, os, q)
  BY Zenon, EndCuts
<1>2. os[q] \in 0 .. Len(xs) /\ IsBelow(xs, pv[q], os[q])
  BY <1>1 DEF CutsAt, InfOf
<1>3. pv[q] \in Int
  <2>1. PivotsOK(pv)
    BY Zenon, InvFacts
  <2> QED
    BY <2>1 DEF PivotsOK
<1> QED
  BY <1>2, <1>3, EndBelow DEF IndexedOne

LEMMA StartArgs ==
  ASSUME PivotInit
  PROVE  ArgsOK(variant, input, pivots) /\ RangeOK(variant, input, x)
<1>1. /\ variant \in Variants /\ x = input /\ Sorted(pivots)
      /\ input \in SeqUpto(Values, MaxLen) /\ pivots \in SeqUpto(1 .. NValue + 1, MaxPivot)
      /\ variant = "point" =>
           \A q \in 1 .. Len(pivots) : PartitionedBy(input, 0, Len(input), pivots[q])
  BY DEF PivotInit
<1>2. MaxLen \in Nat /\ MaxPivot \in Nat /\ NValue \in Nat
  BY PivotAssumption
<1>3. PICK n \in 0 .. MaxLen : input \in [1 .. n -> Values]
  BY <1>1 DEF SeqUpto
<1>4. Len(input) = n /\ n \in Nat
  BY <1>2, <1>3
<1>5. PICK w \in 0 .. MaxPivot : pivots \in [1 .. w -> 1 .. NValue + 1]
  BY <1>1 DEF SeqUpto
<1>6. Len(pivots) = w /\ w \in Nat
  BY <1>2, <1>5
<1>7. pivots \in [1 .. w -> Int]
  BY <1>2, <1>5
<1>8. \A q, r \in 1 .. w : q <= r => pivots[q] <= pivots[r]
  <2> SUFFICES ASSUME NEW q \in 1 .. w, NEW r \in 1 .. w, q <= r PROVE pivots[q] <= pivots[r]
    OBVIOUS
  <2>1. pivots[q] \in Int
    BY <1>7
  <2>2. CASE q = r
    BY <2>1, <2>2
  <2>3. CASE q < r
    BY <1>1, <1>6, <2>3 DEF Sorted
  <2> QED
    BY <1>6, <2>2, <2>3
<1>9. ArgsOK(variant, input, pivots)
  BY <1>1, <1>3, <1>4, <1>6, <1>7, <1>8 DEF ArgsOK
<1>10. SameCounts(n, Values, input, input)
  BY <1>3 DEF SameCounts
<1>11. Rearranged(input, input)
  BY <1>3, <1>4, <1>10, RearrangedFact
<1>12. RangeOK(variant, input, x)
  BY <1>1, <1>3, <1>4, <1>11 DEF RangeOK
<1> QED
  BY <1>9, <1>12

LEMMA StartCall ==
  ASSUME NEW va, NEW pv, NEW xs, NEW os, NEW f, Len(pv) \in Nat, Len(xs) \in Nat,
         f = [first |-> 0, last |-> Len(xs), pf |-> 0, pl |-> Len(pv), at |-> 0],
         \A q \in 1 .. Len(pv) : IF va = "eq" THEN os[2 * q - 1] = -1 /\ os[2 * q] = -1 ELSE os[q] = -1
  PROVE  f \in CallRecords /\ CallOK(va, pv, xs, os, f)
<1>1. /\ f \in CallRecords
      /\ f.first = 0 /\ f.last = Len(xs) /\ f.pf = 0 /\ f.pl = Len(pv) /\ f.at = 0
  BY DEF CallRecords
<1>2. CallTypeOK(va, pv, xs, f)
  BY <1>1 DEF CallTypeOK
<1>3. HoldsBetween(va, pv, xs, f)
  <2>1. \A q \in 1 .. Len(pv) : ~ (q <= 0) /\ ~ (q > Len(pv))
    OBVIOUS
  <2> QED
    BY <1>1, <2>1 DEF HoldsBetween
<1>4. ToBeWritten(va, os, f)
  <2>1. f.pf + 1 .. f.pl = 1 .. Len(pv)
    BY <1>1
  <2> QED
    BY <2>1 DEF ToBeWritten
<1>5. NotBetween(pv, xs, f)
  <2>1. /\ \A a \in 1 .. f.first : FALSE
        /\ \A a \in f.last + 1 .. Len(xs) : FALSE
    BY <1>1
  <2> QED
    BY Zenon, <2>1 DEF NotBetween
<1>6. EndsAtCuts(pv, xs, os, f)
  BY <1>1 DEF EndsAtCuts
<1> QED
  BY <1>1, <1>2, <1>3, <1>4, <1>5, <1>6 DEF CallOK

LEMMA PivotStart ==
  ASSUME PivotInit PROVE PivotInv
<1>1. ArgsOK(variant, input, pivots) /\ RangeOK(variant, input, x)
  BY StartArgs
<1>2. Len(pivots) \in Nat /\ Len(x) \in Nat /\ x = input
  BY <1>1 DEF ArgsOK, RangeOK, PivotInit
<1> DEFINE f == [first |-> 0, last |-> Len(x), pf |-> 0, pl |-> Len(pivots), at |-> 0]
<1>3. out = [a \in 1 .. OutSize |-> -1] /\ stack = <<f>> /\ scan = <<>>
  BY <1>2 DEF PivotInit
<1>4. OutSize = IF variant = "eq" THEN 2 * Len(pivots) ELSE Len(pivots)
  BY DEF OutSize
<1>5. \A q \in 1 .. Len(pivots) :
        IF variant = "eq" THEN out[2 * q - 1] = -1 /\ out[2 * q] = -1 ELSE out[q] = -1
  <2> SUFFICES ASSUME NEW q \in 1 .. Len(pivots)
               PROVE  IF variant = "eq" THEN out[2 * q - 1] = -1 /\ out[2 * q] = -1 ELSE out[q] = -1
    OBVIOUS
  <2>1. CASE variant = "eq"
    <3>1. 2 * q - 1 \in 1 .. OutSize /\ 2 * q \in 1 .. OutSize
      BY <1>2, <1>4, <2>1
    <3> QED
      BY <1>3, <2>1, <3>1
  <2>2. CASE variant # "eq"
    BY <1>3, <1>4, <2>2
  <2> QED
    BY <2>1, <2>2
<1>6. f \in CallRecords /\ CallOK(variant, pivots, x, out, f)
  <2>1. f = [first |-> 0, last |-> Len(x), pf |-> 0, pl |-> Len(pivots), at |-> 0]
    OBVIOUS
  <2> HIDE DEF f
  <2> QED
    BY <1>2, <1>5, <2>1, StartCall
<1>7. f.pf = 0 /\ f.pl = Len(pivots)
  OBVIOUS
<1> HIDE DEF f
<1>8. \A q \in 1 .. Len(pivots) : ~ IsWritten(variant, out, q)
  BY <1>5 DEF IsWritten, InfOf
<1>9. OutOK(variant, pivots, x, out)
  <2>1. out \in [1 .. (IF variant = "eq" THEN 2 * Len(pivots) ELSE Len(pivots)) -> Int]
    BY <1>3, <1>4
  <2>2. \A q \in 1 .. Len(pivots) : ~ IsWritten("eq", out, q) \/ variant # "eq"
    BY <1>8
  <2> QED
    BY <1>8, <2>1, <2>2 DEF OutOK, Owns
<1>10. CallsOK(variant, pivots, x, out, stack)
  <2>1. stack \in Seq(CallRecords) /\ Len(stack) = 1 /\ stack[1] = f
    <3> HIDE DEF CallRecords
    <3> QED
      BY <1>3, <1>6
  <2>2. \A c \in 1 .. Len(stack) : c = 1
    BY <2>1
  <2>3. \A c \in 1 .. Len(stack) : CallOK(variant, pivots, x, out, stack[c])
    BY <1>6, <2>1, <2>2
  <2>4. \A c, d \in 1 .. Len(stack) : c < d => Apart(stack[c], stack[d])
    BY <2>1
  <2>5. \A q \in 1 .. Len(pivots) : \E c \in 1 .. Len(stack) : stack[c].pf < q /\ q <= stack[c].pl
    <3>1. 1 \in 1 .. Len(stack) /\ \A q \in 1 .. Len(pivots) : 0 < q /\ q <= Len(pivots)
      BY <1>2, <2>1
    <3> QED
      BY <1>7, <2>1, <3>1
  <2> QED
    BY <2>1, <2>3, <2>4, <2>5 DEF CallsOK
<1>11. ScanOK(variant, pivots, x, stack, scan)
  BY <1>3 DEF ScanOK
<1> QED
  BY <1>1, <1>9, <1>10, <1>11 DEF PivotInv, PInv

\* The steps. What is written once is kept.
PivotStep == PivotInv' /\ WrittenIsKept

LEMMA MidIs ==
  stack # <<>> => Mid = MidOf(stack[1]) /\ Pivot = pivots[MidOf(stack[1]) + 1]
BY DEF Mid, Pivot, Top, MidOf

LEMMA NoWrite ==
  ASSUME UNCHANGED out PROVE WrittenIsKept
BY DEF WrittenIsKept

LEMMA ReturnStep ==
  ASSUME PivotInv, Return PROVE PivotStep
<1>1. /\ stack # <<>> /\ stack[1].pf = stack[1].pl /\ stack' = Tail(stack)
      /\ UNCHANGED <<variant, input, pivots, x, out, scan>>
  BY DEF Return, Returns, Top, argVars
<1>2. PInv(variant, input, pivots, x, out, Tail(stack), scan)
  BY Zenon, <1>1, ReturnKeeps DEF PivotInv
<1>3. PivotInv'
  BY <1>1, <1>2 DEF PivotInv
<1> QED
  BY <1>1, <1>3, NoWrite DEF PivotStep

LEMMA PartitionsMoved ==
  ASSUME PivotInv, stack # <<>>, stack[1].pf # stack[1].pl, NEW y \in Partitions
  PROVE  /\ PartMoved(stack[1].first, stack[1].last, x, y) /\ (variant = "point" => y = x)
         /\ PartitionedBy(y, stack[1].first, stack[1].last, pivots[MidOf(stack[1]) + 1])
<1> DEFINE f == stack[1]
<1>1. /\ ArgsOK(variant, input, pivots) /\ RangeOK(variant, input, x)
      /\ CallsOK(variant, pivots, x, out, stack) /\ HasInts(x) /\ x \in [1 .. Len(x) -> Values]
  BY Zenon, InvFacts DEF PivotInv
<1>2. /\ f \in CallRecords /\ CallOK(variant, pivots, x, out, f) /\ f.first <= f.last /\ f.last <= Len(x)
      /\ f.first \in Nat /\ f.last \in Nat /\ f.pf \in Nat /\ f.pl \in Nat
  BY Zenon, <1>1, TopFacts
<1>3. Len(x) \in Nat
  BY <1>1 DEF HasInts
<1>4. Pivot = pivots[MidOf(f) + 1] /\ Top = f
  BY MidIs DEF Top
<1>5. MidOf(f) + 1 \in 1 .. Len(pivots)
  <2> HIDE DEF f
  <2>1. f.pf <= f.pl /\ f.pl <= Len(pivots) /\ Len(pivots) \in Nat
    BY <1>1, <1>2 DEF CallOK, CallTypeOK, ArgsOK
  <2>2. f.pf < f.pl
    <3>1. f.pf # f.pl
      BY DEF f
    <3> QED
      BY <1>2, <2>1, <3>1
  <2>3. MidOf(f) \in Nat /\ MidOf(f) < f.pl
    BY <1>2, <2>2, MidFacts
  <2> QED
    BY <1>2, <2>1, <2>3
<1> HIDE DEF f
<1>6. CASE variant = "point"
  <2>1. y = x
    BY <1>6 DEF Partitions
  <2>2. PartMoved(f.first, f.last, x, x)
    BY <1>1, <1>2, <1>3, NothingMoved
  <2>3. x = input /\ PartitionedBy(input, 0, Len(input), pivots[MidOf(f) + 1])
    BY <1>1, <1>5, <1>6 DEF ArgsOK, RangeOK
  <2>4. PartitionedBy(x, f.first, f.last, pivots[MidOf(f) + 1])
    <3>1. \A a \in f.first + 1 .. f.last : a \in 0 + 1 .. Len(x)
      BY <1>2, <1>3
    <3>2. x = input
      BY <2>3
    <3> QED
      BY <2>3, <3>1 DEF PartitionedBy
  <2> QED
    BY <1>6, <2>1, <2>2, <2>4 DEF f
<1>7. CASE variant # "point"
  <2>1. /\ y \in [1 .. Len(x) -> Values]
        /\ \A a \in (1 .. f.first) \cup (f.last + 1 .. Len(x)) : y[a] = x[a]
        /\ Rearranged(x, y) /\ PartitionedBy(y, f.first, f.last, pivots[MidOf(f) + 1])
    BY <1>4, <1>7 DEF Partitions
  <2>2. Len(y) = Len(x)
    BY <1>3, <2>1
  <2>3. ASSUME NEW a \in 1 .. Len(x), ~ (f.first < a /\ a <= f.last) PROVE y[a] = x[a]
    <3>1. a \in (1 .. f.first) \cup (f.last + 1 .. Len(x))
      BY <1>2, <1>3, <2>3
    <3> QED
      BY <2>1, <3>1
  <2>4. PartMoved(f.first, f.last, x, y)
    BY <1>1, <1>3, <2>1, <2>2, <2>3 DEF PartMoved
  <2> QED
    BY <1>7, <2>1, <2>4 DEF f
<1> QED
  BY <1>6, <1>7

LEMMA PartitionEffect ==
  ASSUME PivotInv, Partition, NEW e, NEW m, e = MidOf(stack[1]),
         m = CutPlace(pivots, x, stack[1], e)
  PROVE  /\ stack # <<>> /\ stack[1].pf # stack[1].pl /\ variant # "eq" /\ x' \in Partitions
         /\ out' = [out EXCEPT ![e + 1] = m] /\ stack' = SplitStack(variant, stack, m, e)
         /\ UNCHANGED <<variant, input, pivots, scan>>
<1>1. /\ stack # <<>> /\ stack[1].pf # stack[1].pl /\ variant # "eq" /\ x' \in Partitions
      /\ UNCHANGED <<variant, input, pivots, scan>>
  BY DEF Partition, Returns, Top, argVars
<1>2. Mid = e /\ Pivot = pivots[e + 1] /\ Top = stack[1]
  BY <1>1, MidIs DEF Top
<1>3. CallsOK(variant, pivots, x, out, stack)
  BY Zenon, InvFacts DEF PivotInv
<1>4. stack[1] \in CallRecords /\ stack[1].pf \in Nat /\ stack[1].pl \in Nat /\ stack[1].at = stack[1].pf
  <2>1. /\ stack[1] \in CallRecords /\ stack[1].pf \in Nat /\ stack[1].pl \in Nat
        /\ stack[1].at = IF variant = "eq" THEN 2 * stack[1].pf ELSE stack[1].pf
    BY Zenon, <1>1, <1>3, TopFacts
  <2> QED
    BY <1>1, <2>1
<1>5. e \in Int
  BY <1>4 DEF MidOf
<1>6. At = e
  BY <1>2, <1>4, <1>5 DEF At
<1>7. /\ out' = [out EXCEPT ![At + 1] = m]
      /\ IF variant = "sort" THEN Recurse(m, m, Mid, Top.at, At)
         ELSE Recurse(m, m, Mid + 1, Top.at, At + 1)
  BY <1>2 DEF Partition, Index, CutPlace
<1>8. stack' = SplitStack(variant, stack, m, e)
  BY <1>2, <1>6, <1>7 DEF Recurse, SplitStack
<1> QED
  BY <1>1, <1>6, <1>7, <1>8

LEMMA StepFacts ==
  ASSUME PivotInv, stack # <<>>, stack[1].pf # stack[1].pl
  PROVE  /\ stack[1].pf < stack[1].pl /\ stack[1].at = IF variant = "eq" THEN 2 * stack[1].pf ELSE stack[1].pf
         /\ stack[1].pf \in Nat /\ stack[1].pl \in Nat /\ stack[1] \in CallRecords
<1>1. CallsOK(variant, pivots, x, out, stack)
  BY Zenon, InvFacts DEF PivotInv
<1>2. /\ CallOK(variant, pivots, x, out, stack[1]) /\ stack[1] \in CallRecords
      /\ stack[1].pf \in Nat /\ stack[1].pl \in Nat
      /\ stack[1].at = IF variant = "eq" THEN 2 * stack[1].pf ELSE stack[1].pf
  BY Zenon, <1>1, TopFacts
<1>3. stack[1].pf <= stack[1].pl
  BY <1>2 DEF CallOK, CallTypeOK
<1> QED
  BY <1>2, <1>3

LEMMA OutIs ==
  ASSUME PivotInv PROVE out \in [1 .. OutSize -> Int]
<1>1. OutOK(variant, pivots, x, out)
  BY Zenon, InvFacts DEF PivotInv
<1> QED
  BY <1>1 DEF OutOK, OutSize

LEMMA PartitionStep ==
  ASSUME PivotInv, Partition PROVE PivotStep
<1> DEFINE e == MidOf(stack[1])
           m == CutPlace(pivots, x, stack[1], e)
<1>1. /\ stack # <<>> /\ stack[1].pf # stack[1].pl /\ variant # "eq" /\ x' \in Partitions
      /\ out' = [out EXCEPT ![e + 1] = m] /\ stack' = SplitStack(variant, stack, m, e)
      /\ UNCHANGED <<variant, input, pivots, scan>>
  BY PartitionEffect
<1>2. stack[1].pf < stack[1].pl
  BY <1>1, StepFacts
<1>3. /\ PartMoved(stack[1].first, stack[1].last, x, x') /\ (variant = "point" => x' = x)
      /\ PartitionedBy(x', stack[1].first, stack[1].last, pivots[e + 1])
  <2>1. \A y \in Partitions :
          /\ PartMoved(stack[1].first, stack[1].last, x, y) /\ (variant = "point" => y = x)
          /\ PartitionedBy(y, stack[1].first, stack[1].last, pivots[e + 1])
    BY <1>1, PartitionsMoved
  <2> QED
    BY Zenon, <1>1, <2>1
<1>4. /\ PInv(variant, input, pivots, x', [out EXCEPT ![e + 1] = m], SplitStack(variant, stack, m, e), scan)
      /\ out[e + 1] # -1 => out[e + 1] = m
  <2>1. PInv(variant, input, pivots, x, out, stack, scan)
    BY DEF PivotInv
  <2>2. e = MidOf(stack[1]) /\ m = CutPlace(pivots, x, stack[1], e)
    OBVIOUS
  <2> HIDE DEF e, m
  <2>3. variant # "eq" /\ stack # <<>>
    BY <1>1
  <2> QED
    BY <1>2, <1>3, <2>1, <2>2, <2>3, PivotSplitStep
<1>5. out \in [1 .. OutSize -> Int]
  BY OutIs
<1> HIDE DEF e, m
<1>6. PivotInv'
  BY <1>1, <1>4 DEF PivotInv
<1>7. WrittenIsKept
  BY <1>1, <1>4, <1>5 DEF WrittenIsKept
<1> QED
  BY <1>6, <1>7 DEF PivotStep

LEMMA ScanBeginStep ==
  ASSUME PivotInv, ScanBegin PROVE PivotStep
<1>1. /\ stack # <<>> /\ stack[1].pf # stack[1].pl /\ variant = "eq"
      /\ scan' = [f |-> stack[1].first, n |-> stack[1].first, l |-> stack[1].last]
      /\ UNCHANGED <<variant, input, pivots, x, out, stack>>
  BY DEF ScanBegin, Returns, Top, argVars
<1>2. stack[1].pf < stack[1].pl
  BY <1>1, StepFacts
<1>3. PInv(variant, input, pivots, x, out, stack, scan')
  BY Zenon, <1>1, <1>2, ScanStart DEF PivotInv
<1>4. PivotInv'
  BY <1>1, <1>3 DEF PivotInv
<1> QED
  BY <1>1, <1>4, NoWrite DEF PivotStep

LEMMA ScanTop ==
  ASSUME PivotInv, scan # <<>>
  PROVE  /\ variant = "eq" /\ stack # <<>> /\ stack[1].pf < stack[1].pl
         /\ ScanState(pivots, x, stack[1], scan) /\ Pivot = pivots[MidOf(stack[1]) + 1]
         /\ scan \in [f : Nat, n : Nat, l : Nat] /\ stack[1].pf \in Nat /\ stack[1].pl \in Nat
<1>1. variant = "eq" /\ stack # <<>> /\ stack[1].pf < stack[1].pl /\ ScanState(pivots, x, stack[1], scan)
  BY Zenon, ScanFacts DEF PivotInv
<1>2. scan \in [f : Nat, n : Nat, l : Nat]
  BY <1>1 DEF ScanState, ScanSplit
<1>3. CallsOK(variant, pivots, x, out, stack)
  BY Zenon, InvFacts DEF PivotInv
<1>4. stack[1].pf \in Nat /\ stack[1].pl \in Nat
  BY Zenon, <1>1, <1>3, TopFacts
<1> QED
  BY Zenon, <1>1, <1>2, <1>4, MidIs

\* A step of the scan, from what it does to the range and to the scan.
LEMMA ScanMoveStep ==
  ASSUME PivotInv, scan # <<>>, UNCHANGED <<argVars, out, stack>>,
         PartMoved(stack[1].first, stack[1].last, x, x'), ScanSplit(pivots, x', stack[1], scan')
  PROVE  PivotStep
<1>1. variant = "eq" /\ stack # <<>> /\ stack[1].pf < stack[1].pl
  BY Zenon, ScanTop
<1>2. PInv(variant, input, pivots, x', out, stack, scan')
  BY Zenon, <1>1, ScanMove DEF PivotInv
<1>3. UNCHANGED <<variant, input, pivots, out, stack>>
  BY DEF argVars
<1>4. PivotInv'
  BY <1>2, <1>3 DEF PivotInv
<1> QED
  BY <1>3, <1>4, NoWrite DEF PivotStep

LEMMA ScanBelowStep ==
  ASSUME PivotInv, ScanBelow PROVE PivotStep
<1>1. /\ scan # <<>> /\ scan.n # scan.l /\ x[scan.n + 1] < Pivot
      /\ x' = Exchanged(x, scan.f + 1, scan.n + 1) /\ scan' = [scan EXCEPT !.f = @ + 1, !.n = @ + 1]
      /\ UNCHANGED <<argVars, out, stack>>
  BY DEF ScanBelow, Scanning, Swapped, Exchanged
<1>2. ScanState(pivots, x, stack[1], scan) /\ x[scan.n + 1] < pivots[MidOf(stack[1]) + 1]
  BY <1>1, ScanTop
<1>3. PartMoved(stack[1].first, stack[1].last, x, x') /\ ScanSplit(pivots, x', stack[1], scan')
  BY <1>1, <1>2, BelowSplit
<1> QED
  BY <1>1, <1>3, ScanMoveStep

LEMMA ScanAboveStep ==
  ASSUME PivotInv, ScanAbove PROVE PivotStep
<1>1. /\ scan # <<>> /\ scan.n # scan.l /\ x[scan.n + 1] > Pivot
      /\ x' = Exchanged(x, scan.l - 1 + 1, scan.n + 1) /\ scan' = [scan EXCEPT !.l = @ - 1]
      /\ UNCHANGED <<argVars, out, stack>>
  BY DEF ScanAbove, Scanning, Swapped, Exchanged
<1>2. /\ ScanState(pivots, x, stack[1], scan) /\ Pivot = pivots[MidOf(stack[1]) + 1]
      /\ scan \in [f : Nat, n : Nat, l : Nat]
  BY Zenon, <1>1, ScanTop
<1>3. scan.l - 1 + 1 = scan.l /\ pivots[MidOf(stack[1]) + 1] < x[scan.n + 1]
  BY <1>1, <1>2
<1>4. x' = Exchanged(x, scan.l, scan.n + 1)
  BY Zenon, <1>1, <1>3
<1>5. PartMoved(stack[1].first, stack[1].last, x, x') /\ ScanSplit(pivots, x', stack[1], scan')
  BY <1>1, <1>2, <1>3, <1>4, AboveSplit
<1> QED
  BY <1>1, <1>5, ScanMoveStep

LEMMA ScanEqualStep ==
  ASSUME PivotInv, ScanEqual PROVE PivotStep
<1>1. /\ scan # <<>> /\ scan.n # scan.l /\ x[scan.n + 1] = Pivot
      /\ x' = x /\ scan' = [scan EXCEPT !.n = @ + 1]
      /\ UNCHANGED <<argVars, out, stack>>
  BY DEF ScanEqual, Scanning
<1>2. ScanState(pivots, x, stack[1], scan) /\ x[scan.n + 1] = pivots[MidOf(stack[1]) + 1]
  BY <1>1, ScanTop
<1>3. PartMoved(stack[1].first, stack[1].last, x, x') /\ ScanSplit(pivots, x', stack[1], scan')
  BY <1>1, <1>2, EqualSplit
<1> QED
  BY <1>1, <1>3, ScanMoveStep

\* The end of a scan.
LEMMA ScanEffect ==
  ASSUME PivotInv, ScanEnd, NEW e, e = MidOf(stack[1])
  PROVE  /\ scan # <<>> /\ scan.n = scan.l /\ scan' = <<>>
         /\ out' = [out EXCEPT ![2 * e + 1] = scan.f, ![2 * e + 2] = scan.l]
         /\ stack' = EqStack(stack, scan.f, scan.l, e)
         /\ UNCHANGED <<variant, input, pivots, x>>
<1>1. scan # <<>> /\ scan.n = scan.l /\ scan' = <<>> /\ UNCHANGED <<variant, input, pivots, x>>
  BY DEF ScanEnd, argVars
<1>2. variant = "eq" /\ stack # <<>> /\ stack[1].pf < stack[1].pl
  BY Zenon, <1>1, ScanTop
<1>3. CallsOK(variant, pivots, x, out, stack)
  BY Zenon, InvFacts DEF PivotInv
<1>4. /\ stack[1] \in CallRecords /\ stack[1].pf \in Nat /\ stack[1].pl \in Nat
      /\ stack[1].at = 2 * stack[1].pf
  <2>1. /\ stack[1] \in CallRecords /\ stack[1].pf \in Nat /\ stack[1].pl \in Nat
        /\ stack[1].at = IF variant = "eq" THEN 2 * stack[1].pf ELSE stack[1].pf
    BY Zenon, <1>2, <1>3, TopFacts
  <2> QED
    BY <1>2, <2>1
<1>5. Mid = e /\ Top = stack[1]
  BY <1>2, MidIs DEF Top
<1>6. e \in Int
  BY <1>4 DEF MidOf
<1>7. Top.at + 2 * (Mid - Top.pf) = 2 * e
  BY <1>4, <1>5, <1>6
<1>8. /\ out' = [out EXCEPT ![2 * e + 1] = scan.f, ![2 * e + 2] = scan.l]
      /\ Recurse(scan.f, scan.l, Mid + 1, Top.at, 2 * e + 2)
  BY <1>7 DEF ScanEnd, Index
<1>9. stack' = EqStack(stack, scan.f, scan.l, e)
  <2>1. 2 * e + 2 = 2 * (e + 1)
    BY <1>6
  <2>2. Recurse(scan.f, scan.l, e + 1, Top.at, 2 * (e + 1))
    BY Zenon, <1>5, <1>8, <2>1
  <2> QED
    BY <1>5, <2>2 DEF Recurse, EqStack
<1> QED
  BY <1>1, <1>8, <1>9

LEMMA ScanEndStep ==
  ASSUME PivotInv, ScanEnd PROVE PivotStep
<1> DEFINE e == MidOf(stack[1])
<1>1. /\ scan # <<>> /\ scan.n = scan.l /\ scan' = <<>>
      /\ out' = [out EXCEPT ![2 * e + 1] = scan.f, ![2 * e + 2] = scan.l]
      /\ stack' = EqStack(stack, scan.f, scan.l, e)
      /\ UNCHANGED <<variant, input, pivots, x>>
  BY ScanEffect
<1>2. stack[1].pf \in Nat /\ stack[1].pl \in Nat
  BY Zenon, <1>1, ScanTop
<1>3. e \in Int
  BY <1>2 DEF MidOf
<1>4. /\ PInv(variant, input, pivots, x, out', EqStack(stack, scan.f, scan.l, e), <<>>)
      /\ EqWritten(pivots, out, out', scan.f, scan.l, e) /\ e + 1 \in 1 .. Len(pivots)
      /\ out[2 * (e + 1) - 1] = -1 /\ out[2 * (e + 1)] = -1
  BY <1>1, ScanFinish DEF PivotInv
<1> HIDE DEF e
<1>5. PivotInv'
  BY <1>1, <1>4 DEF PivotInv
<1>6. WrittenIsKept
  <2>1. out \in [1 .. OutSize -> Int]
    BY OutIs
  <2>2. 2 * (e + 1) - 1 = 2 * e + 1 /\ 2 * (e + 1) = 2 * e + 2
    BY <1>3
  <2>3. ASSUME NEW a \in 1 .. OutSize, a # 2 * e + 1, a # 2 * e + 2 PROVE out'[a] = out[a]
    BY <1>1, <2>1, <2>3
  <2> QED
    BY <1>4, <2>2, <2>3 DEF WrittenIsKept
<1> QED
  BY <1>5, <1>6 DEF PivotStep

LEMMA PivotStutter ==
  ASSUME PivotInv, UNCHANGED pivotVars PROVE PivotStep
<1>1. UNCHANGED <<variant, input, pivots, x, out, stack, scan>>
  BY DEF pivotVars, argVars
<1>2. PivotInv'
  BY <1>1 DEF PivotInv
<1> QED
  BY <1>1, <1>2, NoWrite DEF PivotStep

LEMMA PivotSteps ==
  ASSUME PivotInv, [PivotNext]_pivotVars PROVE PivotStep
<1>1. CASE Return
  BY <1>1, ReturnStep
<1>2. CASE Partition
  BY <1>2, PartitionStep
<1>3. CASE ScanBegin
  BY <1>3, ScanBeginStep
<1>4. CASE ScanBelow
  BY <1>4, ScanBelowStep
<1>5. CASE ScanAbove
  BY <1>5, ScanAboveStep
<1>6. CASE ScanEqual
  BY <1>6, ScanEqualStep
<1>7. CASE ScanEnd
  BY <1>7, ScanEndStep
<1>8. CASE UNCHANGED pivotVars
  BY <1>8, PivotStutter
<1> QED
  BY Zenon, <1>1, <1>2, <1>3, <1>4, <1>5, <1>6, <1>7, <1>8 DEF PivotNext

LEMMA PivotInvHolds == PivotSpec => []PivotInv
<1>1. PivotInit => PivotInv
  BY PivotStart
<1>2. PivotInv /\ [PivotNext]_pivotVars => PivotInv'
  BY PivotSteps DEF PivotStep
<1> QED
  BY <1>1, <1>2, PTL DEF PivotSpec

\* A call that is on the stack looks for its pivots where they are.
NarrowCall(va, pv, xs, f) ==
  /\ \A a \in f.first + 1 .. f.last :
       /\ f.pf > 0 => pv[f.pf] < xs[a] \/ (va # "eq" /\ pv[f.pf] = xs[a])
       /\ f.pl < Len(pv) => xs[a] < pv[f.pl + 1]
  /\ \A q \in f.pf + 1 .. f.pl :
       /\ \A a \in 1 .. f.first : xs[a] < pv[q] \/ (va = "eq" /\ xs[a] = pv[q])
       /\ \A a \in f.last + 1 .. Len(xs) : pv[q] <= xs[a]

LEMMA NarrowInside ==
  ASSUME NEW va, NEW pv, NEW xs, NEW os, NEW f, CallOK(va, pv, xs, os, f), PivotsOK(pv), HasInts(xs),
         NEW a \in f.first + 1 .. f.last
  PROVE  /\ f.pf > 0 => pv[f.pf] < xs[a] \/ (va # "eq" /\ pv[f.pf] = xs[a])
         /\ f.pl < Len(pv) => xs[a] < pv[f.pl + 1]
<1>1. /\ f.pf \in Nat /\ f.pl \in Nat /\ f.pf <= f.pl /\ f.pl <= Len(pv) /\ Len(pv) \in Nat
      /\ f.first \in Nat /\ f.last \in Nat /\ f.last <= Len(xs) /\ Len(xs) \in Nat
  BY DEF CallOK, CallTypeOK, PivotsOK, HasInts
<1>2. xs[a] \in Int
  BY <1>1 DEF HasInts
<1>3. \A q \in 1 .. Len(pv) : /\ q <= f.pf => pv[q] <= xs[a] /\ (va = "eq" => pv[q] # xs[a])
                              /\ q > f.pl => xs[a] < pv[q]
  BY DEF CallOK, HoldsBetween
<1>4. ASSUME f.pf > 0 PROVE pv[f.pf] < xs[a] \/ (va # "eq" /\ pv[f.pf] = xs[a])
  <2>1. f.pf \in 1 .. Len(pv) /\ f.pf <= f.pf
    BY <1>1, <1>4
  <2>2. pv[f.pf] \in Int
    BY <2>1 DEF PivotsOK
  <2>3. pv[f.pf] <= xs[a] /\ (va = "eq" => pv[f.pf] # xs[a])
    BY <1>3, <2>1
  <2> QED
    BY <1>2, <2>2, <2>3
<1>5. ASSUME f.pl < Len(pv) PROVE xs[a] < pv[f.pl + 1]
  <2>1. f.pl + 1 \in 1 .. Len(pv) /\ f.pl + 1 > f.pl
    BY <1>1, <1>5
  <2> QED
    BY <1>3, <2>1
<1> QED
  BY <1>4, <1>5

LEMMA NarrowOther ==
  ASSUME NEW va, NEW pv, NEW xs, NEW os, NEW f, CallOK(va, pv, xs, os, f), va # "eq",
         NEW q \in f.pf + 1 .. f.pl
  PROVE  /\ \A a \in 1 .. f.first : xs[a] < pv[q]
         /\ \A a \in f.last + 1 .. Len(xs) : pv[q] <= xs[a]
BY DEF CallOK, NotBetween

\* For eq: what is before the range is up to the pivot before it.
LEMMA NarrowBefore ==
  ASSUME NEW pv, NEW xs, NEW os, NEW f, CallOK("eq", pv, xs, os, f), PivotsOK(pv), HasInts(xs),
         OutOK("eq", pv, xs, os), NEW q \in f.pf + 1 .. f.pl, NEW a \in 1 .. f.first
  PROVE  xs[a] <= pv[q]
<1>1. /\ f.pf \in Nat /\ f.pl \in Nat /\ f.pf <= f.pl /\ f.pl <= Len(pv) /\ Len(pv) \in Nat
      /\ f.first \in Nat /\ f.last \in Nat /\ f.first <= f.last /\ f.last <= Len(xs) /\ Len(xs) \in Nat
  BY DEF CallOK, CallTypeOK, PivotsOK, HasInts
<1>2. f.pf # 0 /\ IsWritten("eq", os, f.pf) /\ f.first = os[2 * f.pf]
  <2>1. EndsAtCuts(pv, xs, os, f)
    BY Zenon DEF CallOK
  <2>2. f.first # 0
    BY <1>1
  <2> QED
    BY Zenon, <2>1, <2>2 DEF EndsAtCuts
<1>3. f.pf \in 1 .. Len(pv) /\ q \in 1 .. Len(pv) /\ f.pf <= q /\ a \in 1 .. Len(xs)
  <2>1. f.pf # 0
    BY <1>2
  <2> QED
    BY <1>1, <2>1
<1>4. CutsAt("eq", pv, xs, os, f.pf)
  BY Zenon, <1>2, <1>3 DEF OutOK
<1>5. PICK o \in 1 .. Len(pv) : OwnedBy(pv, xs, os, f.pf, o)
  BY <1>4 DEF CutsAt
<1>6. /\ IsBelow(xs, pv[f.pf], os[2 * o - 1]) /\ IsUpto(xs, pv[f.pf], os[2 * o])
      /\ f.first = os[2 * o - 1] \/ f.first = os[2 * o]
  BY <1>2, <1>5 DEF OwnedBy
<1>7. pv[f.pf] \in Int /\ pv[q] \in Int /\ pv[f.pf] <= pv[q] /\ xs[a] \in Int
  BY <1>3 DEF PivotsOK, HasInts
<1>8. a <= f.first
  BY <1>1
<1>9. xs[a] < pv[f.pf] \/ xs[a] <= pv[f.pf]
  BY Zenon, <1>3, <1>6, <1>8 DEF IsBelow, IsUpto
<1> QED
  BY <1>7, <1>9

LEMMA NarrowAfter ==
  ASSUME NEW pv, NEW xs, NEW os, NEW f, CallOK("eq", pv, xs, os, f), PivotsOK(pv), HasInts(xs),
         OutOK("eq", pv, xs, os), NEW q \in f.pf + 1 .. f.pl, NEW a \in f.last + 1 .. Len(xs)
  PROVE  pv[q] <= xs[a]
<1>1. /\ f.pf \in Nat /\ f.pl \in Nat /\ f.pf <= f.pl /\ f.pl <= Len(pv) /\ Len(pv) \in Nat
      /\ f.first \in Nat /\ f.last \in Nat /\ f.first <= f.last /\ f.last <= Len(xs) /\ Len(xs) \in Nat
  BY DEF CallOK, CallTypeOK, PivotsOK, HasInts
<1>2. f.pl # Len(pv) /\ IsWritten("eq", os, f.pl + 1) /\ f.last = os[2 * f.pl + 1]
  <2>1. EndsAtCuts(pv, xs, os, f)
    BY Zenon DEF CallOK
  <2>2. f.last # Len(xs)
    BY <1>1
  <2> QED
    BY Zenon, <2>1, <2>2 DEF EndsAtCuts
<1>3. PICK r \in 1 .. Len(pv) : r = f.pl + 1
  <2>1. f.pl # Len(pv)
    BY <1>2
  <2> QED
    BY <1>1, <2>1
<1>4. /\ q \in 1 .. Len(pv) /\ q <= r /\ a \in 1 .. Len(xs) /\ 2 * f.pl + 1 = 2 * r - 1 /\ ~ (a <= f.last)
  <2>1. q \in 1 .. Len(pv) /\ q <= r
    BY <1>1, <1>3
  <2>2. a \in 1 .. Len(xs) /\ ~ (a <= f.last)
    BY <1>1
  <2>3. 2 * f.pl + 1 = 2 * r - 1
    BY <1>1, <1>3
  <2> QED
    BY <2>1, <2>2, <2>3
<1>5. IsWritten("eq", os, r) /\ f.last = os[2 * r - 1]
  BY Zenon, <1>2, <1>3, <1>4
<1>6. CutsAt("eq", pv, xs, os, r)
  BY Zenon, <1>5 DEF OutOK
<1>7. PICK o \in 1 .. Len(pv) : OwnedBy(pv, xs, os, r, o)
  BY <1>6 DEF CutsAt
<1>8. /\ IsBelow(xs, pv[r], os[2 * o - 1]) /\ IsUpto(xs, pv[r], os[2 * o])
      /\ f.last = os[2 * o - 1] \/ f.last = os[2 * o]
  BY <1>5, <1>7 DEF OwnedBy
<1>9. pv[r] \in Int /\ pv[q] \in Int /\ pv[q] <= pv[r] /\ xs[a] \in Int
  BY <1>4 DEF PivotsOK, HasInts
<1>10. ~ (xs[a] < pv[r]) \/ ~ (xs[a] <= pv[r])
  BY Zenon, <1>4, <1>8 DEF IsBelow, IsUpto
<1> QED
  BY <1>9, <1>10

LEMMA NarrowHolds ==
  ASSUME NEW va, NEW pv, NEW xs, NEW os, NEW f, CallOK(va, pv, xs, os, f), PivotsOK(pv), HasInts(xs),
         OutOK(va, pv, xs, os)
  PROVE  NarrowCall(va, pv, xs, f)
<1>1. \A a \in f.first + 1 .. f.last :
        /\ f.pf > 0 => pv[f.pf] < xs[a] \/ (va # "eq" /\ pv[f.pf] = xs[a])
        /\ f.pl < Len(pv) => xs[a] < pv[f.pl + 1]
  BY NarrowInside
<1>2. ASSUME NEW q \in f.pf + 1 .. f.pl
      PROVE  /\ \A a \in 1 .. f.first : xs[a] < pv[q] \/ (va = "eq" /\ xs[a] = pv[q])
             /\ \A a \in f.last + 1 .. Len(xs) : pv[q] <= xs[a]
  <2>1. CASE va = "eq"
    <3>1. CallOK("eq", pv, xs, os, f) /\ OutOK("eq", pv, xs, os)
      BY <2>1
    <3>2. \A a \in f.last + 1 .. Len(xs) : pv[q] <= xs[a]
      BY <3>1, NarrowAfter
    <3>3. ASSUME NEW a \in 1 .. f.first PROVE xs[a] < pv[q] \/ xs[a] = pv[q]
      <4>1. xs[a] <= pv[q]
        BY <3>1, NarrowBefore
      <4>2. a \in 1 .. Len(xs) /\ q \in 1 .. Len(pv)
        BY DEF CallOK, CallTypeOK, PivotsOK, HasInts
      <4>3. xs[a] \in Int /\ pv[q] \in Int
        BY <4>2 DEF PivotsOK, HasInts
      <4> QED
        BY <4>1, <4>3
    <3> QED
      BY <2>1, <3>2, <3>3
  <2>2. CASE va # "eq"
    <3>1. /\ \A a \in 1 .. f.first : xs[a] < pv[q]
          /\ \A a \in f.last + 1 .. Len(xs) : pv[q] <= xs[a]
      BY <2>2, NarrowOther
    <3> QED
      BY <3>1
  <2> QED
    BY <2>1, <2>2
<1> QED
  BY <1>1, <1>2 DEF NarrowCall

LEMMA PivotNarrows ==
  ASSUME PivotInv PROVE RecursionNarrows
<1>1. /\ OutOK(variant, pivots, x, out) /\ CallsOK(variant, pivots, x, out, stack)
      /\ PivotsOK(pivots) /\ HasInts(x)
  BY Zenon, InvFacts DEF PivotInv
<1>2. ASSUME NEW c \in 1 .. Len(stack) PROVE NarrowCall(variant, pivots, x, stack[c])
  <2>1. CallOK(variant, pivots, x, out, stack[c])
    BY <1>1 DEF CallsOK
  <2> QED
    BY Zenon, <1>1, <2>1, NarrowHolds
<1> QED
  BY <1>2 DEF RecursionNarrows, NarrowCall

LEMMA PivotEnd ==
  ASSUME PivotInv PROVE RangeIsPartitioned
<1>1. Rearranged(x, input)
  <2>1. RangeOK(variant, input, x)
    BY Zenon, InvFacts DEF PivotInv
  <2> QED
    BY <2>1 DEF RangeOK
<1>2. ASSUME stack = <<>>, NEW q \in 1 .. Len(pivots) PROVE PartitionedBy(x, 0, Len(x), pivots[q])
  <2>1. CASE variant = "eq"
    <3>1. PInv("eq", input, pivots, x, out, <<>>, scan)
      BY <1>2, <2>1 DEF PivotInv
    <3> QED
      BY Zenon, <3>1, EndEq
  <2>2. CASE variant # "eq"
    <3>1. PInv(variant, input, pivots, x, out, <<>>, scan)
      BY <1>2 DEF PivotInv
    <3> QED
      BY <2>2, <3>1, EndOther
  <2> QED
    BY <2>1, <2>2
<1>3. IndicesAreCounts
  <2> SUFFICES ASSUME stack = <<>>, NEW q \in 1 .. Len(pivots)
               PROVE  LET below == Count(input, LAMBDA e : e < pivots[q])
                          upto == Count(input, LAMBDA e : e <= pivots[q])
                          Same == {r \in 1 .. Len(pivots) : pivots[r] = pivots[q]}
                      IN  IF variant # "eq" THEN out[q] = below
                          ELSE \E owner \in Same :
                                 \A r \in Same : /\ out[2 * r - 1] = IF r <= owner THEN below ELSE upto
                                                 /\ out[2 * r] = IF r < owner THEN below ELSE upto
    BY DEF IndicesAreCounts
  <2>1. CASE variant = "eq"
    <3>1. PInv("eq", input, pivots, x, out, <<>>, scan)
      BY <2>1 DEF PivotInv
    <3>2. IndexedBy(input, pivots, out, q)
      BY Zenon, <3>1, EndEq
    <3> QED
      BY <2>1, <3>2 DEF IndexedBy
  <2>2. CASE variant # "eq"
    <3>1. PInv(variant, input, pivots, x, out, <<>>, scan)
      BY DEF PivotInv
    <3>2. IndexedOne(input, pivots, out, q)
      BY Zenon, <2>2, <3>1, EndOther
    <3> QED
      BY <2>2, <3>2 DEF IndexedOne
  <2> QED
    BY <2>1, <2>2
<1> QED
  BY <1>1, <1>2, <1>3, PivotNarrows DEF RangeIsPartitioned

(* Each of the four partitions by pivots, of any range by any sorted pivots:    *)
(* no element is lost, each pivot is looked for where it is, and when no call   *)
(* is left each pivot partitions the range, at the index that the code writes   *)
(* for it; for pivot_partition_eq, one of several equal pivots has all that is  *)
(* equal to it.                                                                 *)
THEOREM PivotCorrect == PivotSpec => []RangeIsPartitioned
<1>1. PivotInv => RangeIsPartitioned
  BY PivotEnd
<1> QED
  BY <1>1, PivotInvHolds, PTL

(* An index that is written is not written again with another value.            *)
THEOREM IndicesKept == PivotSpec => IndicesAreFinal
<1>1. PivotInv /\ [PivotNext]_pivotVars
        => [WrittenIsKept]_pivotVars
  BY PivotSteps DEF PivotStep
<1> QED
  BY <1>1, PivotInvHolds, PTL DEF PivotSpec, IndicesAreFinal

-----------------------------------------------------------------------------
(* uniform_distribution_range. After c turns of the loop the generator is at    *)
(* the bound c of the distribution, or one step after the last one, and the     *)
(* longer steps that remain are those of the bounds that follow.                *)
StepUp == SpacingRoundDown + 1
NRoundUp == sz % n_elt
BoundAt(c) ==
  IF c <= NRoundUp THEN start + c * StepUp
  ELSE start + NRoundUp * StepUp + (c - NRoundUp) * SpacingRoundDown
RangeInv ==
  /\ start \in Nat /\ sz \in Nat \ {0} /\ n_elt \in Nat \ {0} /\ (FewElements \/ n_elt <= sz)
  /\ Len(visited) \in 0 .. n_elt + 1 /\ visited \in [1 .. Len(visited) -> Int]
  /\ n_round_up = IF Len(visited) < NRoundUp THEN NRoundUp - Len(visited) ELSE 0
  /\ gen = BoundAt(Len(visited))
  /\ \A c \in 1 .. Len(visited) : visited[c] = BoundAt(c - 1)

LEMMA TimesMonotone ==
  ASSUME NEW a \in Int, NEW b \in Int, a <= b, NEW m \in Nat PROVE a * m <= b * m
<1>1. PICK d \in Nat : b = a + d
  BY b - a \in Nat, b = a + (b - a)
<1>2. (a + d) * m = a * m + d * m /\ d * m \in Nat /\ a * m \in Int
  OBVIOUS
<1> QED
  BY <1>1, <1>2

LEMMA TimesStrict ==
  ASSUME NEW a \in Int, NEW b \in Int, a < b, NEW m \in Nat \ {0} PROVE a * m < b * m
<1>1. (a + 1) * m <= b * m
  BY TimesMonotone
<1>2. (a + 1) * m = a * m + m /\ a * m \in Int /\ b * m \in Int
  OBVIOUS
<1> QED
  BY <1>1, <1>2

LEMMA DividedIs ==
  ASSUME NEW s \in Nat, NEW n \in Nat \ {0}
  PROVE  s \div n \in Nat /\ s % n \in 0 .. n - 1 /\ s = n * (s \div n) + (s % n)
<1>1. s \div n \in Int
  OBVIOUS
<1>2. s % n \in 0 .. n - 1
  OBVIOUS
<1>3. s = n * (s \div n) + (s % n)
  OBVIOUS
<1>4. s \div n \in Nat
  OBVIOUS
<1> QED
  BY <1>1, <1>2, <1>3, <1>4

\* The bounds from the quotient and the remainder: the last one is the size.
LEMMA RangeNumbers ==
  ASSUME start \in Nat, sz \in Nat \ {0}, n_elt \in Nat \ {0}
  PROVE  /\ SpacingRoundDown \in Nat /\ NRoundUp \in 0 .. n_elt - 1
         /\ BoundAt(n_elt) = start + sz /\ BoundAt(n_elt + 1) = AfterFinish
         /\ n_elt <= sz => SpacingRoundDown # 0
<1> DEFINE m == SpacingRoundDown
           r == NRoundUp
<1>1. m \in Nat /\ r \in 0 .. n_elt - 1 /\ sz = n_elt * m + r
  BY DividedIs DEF SpacingRoundDown, NRoundUp
<1>2. /\ BoundAt(n_elt) = start + r * (m + 1) + (n_elt - r) * m
      /\ BoundAt(n_elt + 1) = start + r * (m + 1) + (n_elt + 1 - r) * m
      /\ AfterFinish = start + sz + m
  BY <1>1 DEF BoundAt, StepUp, AfterFinish
<1> HIDE DEF m, r
<1>3. /\ r * (m + 1) = r * m + r /\ (n_elt - r) * m = n_elt * m - r * m
      /\ (n_elt + 1 - r) * m = n_elt * m + m - r * m
      /\ r * m \in Int /\ n_elt * m \in Int
  BY <1>1
<1>4. BoundAt(n_elt) = start + sz /\ BoundAt(n_elt + 1) = AfterFinish
  BY <1>1, <1>2, <1>3
<1>5. ASSUME n_elt <= sz, m = 0 PROVE FALSE
  <2>1. n_elt * m = 0
    BY <1>5
  <2> QED
    BY <1>1, <1>5, <2>1
<1> QED
  BY <1>1, <1>4, <1>5 DEF m, r

\* The bounds are those of uniform_distribution.
LEMMA BoundsAreKnots ==
  ASSUME start \in Nat, sz \in Nat \ {0}, n_elt \in Nat \ {0}, NEW c \in 1 .. n_elt + 1
  PROVE  UniformKnots(start, sz, n_elt)[c] = BoundAt(c - 1)
<1> DEFINE m == SpacingRoundDown
           r == NRoundUp
<1>1. m \in Nat /\ r \in 0 .. n_elt - 1
  BY RangeNumbers
<1>2. UniformKnots(start, sz, n_elt)[c]
        = IF c <= r + 1 THEN start + (c - 1) * (m + 1) ELSE start + r * (m + 1) + (c - r - 1) * m
  BY DEF UniformKnots, SpacingRoundDown, NRoundUp
<1>3. BoundAt(c - 1)
        = IF c - 1 <= r THEN start + (c - 1) * (m + 1) ELSE start + r * (m + 1) + (c - 1 - r) * m
  BY DEF BoundAt, StepUp
<1> HIDE DEF m, r
<1>4. (c <= r + 1 <=> c - 1 <= r) /\ c - r - 1 = c - 1 - r
  BY <1>1
<1> QED
  BY <1>2, <1>3, <1>4

\* A step goes to the next bound.
LEMMA NextBound ==
  ASSUME start \in Nat, sz \in Nat \ {0}, n_elt \in Nat \ {0}, NEW c \in Nat
  PROVE  /\ BoundAt(c) \in Int
         /\ BoundAt(c + 1) = BoundAt(c) + SpacingRoundDown + (IF c < NRoundUp THEN 1 ELSE 0)
<1> DEFINE m == SpacingRoundDown
           r == NRoundUp
<1>1. m \in Nat /\ r \in 0 .. n_elt - 1
  BY RangeNumbers
<1>2. \A d \in Nat : BoundAt(d) = IF d <= r THEN start + d * (m + 1) ELSE start + r * (m + 1) + (d - r) * m
  BY DEF BoundAt, StepUp
<1> HIDE DEF m, r
<1>3. c * (m + 1) \in Int /\ r * (m + 1) \in Int /\ (c - r) * m \in Int
  BY <1>1
<1>4. CASE c < r
  <2>1. (c + 1) * (m + 1) = c * (m + 1) + (m + 1)
    BY <1>1
  <2>2. BoundAt(c) = start + c * (m + 1) /\ BoundAt(c + 1) = start + (c + 1) * (m + 1)
    BY <1>1, <1>2, <1>4
  <2> QED
    BY <1>1, <1>3, <1>4, <2>1, <2>2 DEF m, r
<1>5. CASE c = r
  <2>1. (c + 1 - r) * m = m
    BY <1>1, <1>5
  <2>2. BoundAt(c) = start + r * (m + 1) /\ BoundAt(c + 1) = start + r * (m + 1) + (c + 1 - r) * m
    BY <1>1, <1>2, <1>5
  <2> QED
    BY <1>1, <1>3, <1>5, <2>1, <2>2 DEF m, r
<1>6. CASE c > r
  <2>1. (c + 1 - r) * m = (c - r) * m + m
    BY <1>1
  <2>2. /\ BoundAt(c) = start + r * (m + 1) + (c - r) * m
        /\ BoundAt(c + 1) = start + r * (m + 1) + (c + 1 - r) * m
    BY <1>1, <1>2, <1>6
  <2> QED
    BY <1>1, <1>3, <1>6, <2>1, <2>2 DEF m, r
<1> QED
  BY <1>1, <1>4, <1>5, <1>6

\* No bound is after the sentinel; if every step moves, only the last one is at it.
LEMMA BoundsInside ==
  ASSUME start \in Nat, sz \in Nat \ {0}, n_elt \in Nat \ {0}, NEW c \in 0 .. n_elt + 1
  PROVE  /\ BoundAt(c) <= AfterFinish
         /\ SpacingRoundDown # 0 /\ c # n_elt + 1 => BoundAt(c) # AfterFinish
<1> DEFINE m == SpacingRoundDown
           r == NRoundUp
<1>1. m \in Nat /\ r \in 0 .. n_elt - 1 /\ AfterFinish = BoundAt(n_elt + 1)
  BY RangeNumbers
<1>2. \A d \in Nat : BoundAt(d) = IF d <= r THEN start + d * (m + 1) ELSE start + r * (m + 1) + (d - r) * m
  BY DEF BoundAt, StepUp
<1>3. \A d \in Nat : BoundAt(d) \in Int
  BY NextBound
<1> HIDE DEF m, r
<1>4. AfterFinish = start + r * (m + 1) + (n_elt + 1 - r) * m
  BY <1>1, <1>2
<1>5. r * (m + 1) \in Int /\ c * (m + 1) \in Int /\ (n_elt + 1 - r) * m \in Int /\ (c - r) * m \in Int
  BY <1>1
<1>6. CASE c <= r
  <2>1. c * (m + 1) <= r * (m + 1)
    BY <1>1, <1>6, TimesMonotone
  <2>2. 0 * m <= (n_elt + 1 - r) * m
    BY <1>1, TimesMonotone
  <2>3. m # 0 => 0 * m < (n_elt + 1 - r) * m
    <3>1. ASSUME m # 0 PROVE 0 * m < (n_elt + 1 - r) * m
      <4>1. m \in Nat \ {0} /\ 0 < n_elt + 1 - r /\ n_elt + 1 - r \in Int
        BY <1>1, <3>1
      <4> QED
        BY <4>1, TimesStrict
    <3> QED
      BY <3>1
  <2>4. 0 * m = 0 /\ BoundAt(c) = start + c * (m + 1)
    BY <1>1, <1>2, <1>6
  <2> QED
    BY <1>4, <1>5, <2>1, <2>2, <2>3, <2>4 DEF m
<1>7. CASE c > r
  <2>1. (c - r) * m <= (n_elt + 1 - r) * m
    BY <1>1, TimesMonotone
  <2>2. ASSUME m # 0, c # n_elt + 1 PROVE (c - r) * m < (n_elt + 1 - r) * m
    <3>1. m \in Nat \ {0} /\ c - r < n_elt + 1 - r /\ n_elt + 1 - r \in Int /\ c - r \in Int
      BY <1>1, <2>2
    <3> QED
      BY <3>1, TimesStrict
  <2>3. BoundAt(c) = start + r * (m + 1) + (c - r) * m
    BY <1>1, <1>2, <1>7
  <2> QED
    BY <1>4, <1>5, <2>1, <2>2, <2>3 DEF m
<1> QED
  BY <1>1, <1>6, <1>7

LEMMA RangeStart == RangeInit => RangeInv
<1> SUFFICES ASSUME RangeInit PROVE RangeInv
  OBVIOUS
<1>1. /\ start \in Nat /\ sz \in Nat \ {0} /\ n_elt \in Nat \ {0} /\ (FewElements \/ n_elt <= sz)
      /\ gen = start /\ n_round_up = NRoundUp /\ visited = <<>>
  BY RangeAssumption DEF RangeInit, NRoundUp
<1>2. SpacingRoundDown \in Nat /\ NRoundUp \in 0 .. n_elt - 1
  BY <1>1, RangeNumbers
<1>3. BoundAt(0) = start
  BY <1>1, <1>2 DEF BoundAt, StepUp
<1>4. Len(visited) = 0 /\ visited \in [1 .. 0 -> Int]
  BY <1>1
<1> QED
  BY <1>1, <1>2, <1>3, <1>4 DEF RangeInv

LEMMA RangeStep == RangeInv /\ [Increment]_rangeVars => RangeInv'
<1> SUFFICES ASSUME RangeInv, [Increment]_rangeVars PROVE RangeInv'
  OBVIOUS
<1>1. CASE Increment
  <2> DEFINE c == Len(visited)
  <2>1. /\ start \in Nat /\ sz \in Nat \ {0} /\ n_elt \in Nat \ {0} /\ (FewElements \/ n_elt <= sz)
        /\ c \in 0 .. n_elt + 1 /\ visited \in [1 .. c -> Int]
        /\ n_round_up = IF c < NRoundUp THEN NRoundUp - c ELSE 0
        /\ gen = BoundAt(c) /\ \A d \in 1 .. c : visited[d] = BoundAt(d - 1)
    BY DEF RangeInv
  <2>2. SpacingRoundDown \in Nat /\ NRoundUp \in 0 .. n_elt - 1 /\ BoundAt(n_elt + 1) = AfterFinish
    BY <2>1, RangeNumbers
  <2>3. /\ gen # AfterFinish /\ visited' = Append(visited, gen)
        /\ n_round_up' = IF n_round_up > 0 THEN n_round_up - 1 ELSE 0
        /\ gen' = gen + SpacingRoundDown + (IF n_round_up > 0 THEN 1 ELSE 0)
        /\ UNCHANGED <<start, sz, n_elt>>
    BY <1>1 DEF Increment
  <2>4. SpacingRoundDown' = SpacingRoundDown /\ NRoundUp' = NRoundUp /\ StepUp' = StepUp
    BY <2>3 DEF SpacingRoundDown, NRoundUp, StepUp
  <2>5. \A d : BoundAt(d)' = BoundAt(d)
    BY <2>3, <2>4 DEF BoundAt
  <2>6. BoundAt(c) \in Int /\ BoundAt(c + 1) = BoundAt(c) + SpacingRoundDown + (IF c < NRoundUp THEN 1 ELSE 0)
    <3>1. c \in Nat
      BY <2>1
    <3> HIDE DEF c
    <3> QED
      BY <2>1, <3>1, NextBound
  <2>7. c # n_elt + 1
    <3>1. BoundAt(c) # BoundAt(n_elt + 1)
      BY Zenon, <2>1, <2>2, <2>3
    <3> HIDE DEF c
    <3> QED
      BY Zenon, <3>1
  <2>8. /\ Len(visited') = c + 1 /\ visited' \in [1 .. c + 1 -> Int]
        /\ visited'[c + 1] = BoundAt(c) /\ \A d \in 1 .. c : visited'[d] = visited[d]
    <3>1. gen \in Int /\ c \in Nat
      BY <2>1, <2>6
    <3>2. visited \in Seq(Int)
      BY <2>1, <3>1
    <3>3. visited' = Append(visited, gen)
      BY <2>3
    <3>4. Len(visited') = c + 1 /\ visited' \in Seq(Int)
      BY <3>1, <3>2, <3>3
    <3>5. visited'[c + 1] = gen /\ \A d \in 1 .. c : visited'[d] = visited[d]
      BY <3>1, <3>2, <3>3
    <3>6. visited' \in [1 .. c + 1 -> Int]
      BY <3>4
    <3> QED
      BY <2>1, <3>4, <3>5, <3>6
  <2> HIDE DEF c
  <2>9. gen' = BoundAt(c + 1) /\ n_round_up' = IF c + 1 < NRoundUp THEN NRoundUp - (c + 1) ELSE 0
    BY <2>1, <2>2, <2>3, <2>6
  <2>10. ASSUME NEW d \in 1 .. c + 1 PROVE visited'[d] = BoundAt(d - 1)
    <3>1. CASE d = c + 1
      <4>1. d - 1 = c
        BY <2>1, <3>1
      <4> QED
        BY <2>8, <3>1, <4>1
    <3>2. CASE d # c + 1
      <4>1. d \in 1 .. c
        BY <2>1, <3>2
      <4> QED
        BY <2>1, <2>8, <4>1
    <3> QED
      BY <3>1, <3>2
  <2>11. c + 1 \in 0 .. n_elt + 1
    BY <2>1, <2>7
  <2> QED
    BY <2>1, <2>3, <2>4, <2>5, <2>8, <2>9, <2>10, <2>11 DEF RangeInv
<1>2. CASE UNCHANGED rangeVars
  BY <1>2 DEF rangeVars, RangeInv, BoundAt, NRoundUp, StepUp, SpacingRoundDown
<1> QED
  BY <1>1, <1>2

LEMMA RangeVisits == RangeInv => VisitsTheDistribution
<1> SUFFICES ASSUME RangeInv PROVE VisitsTheDistribution
  OBVIOUS
<1> DEFINE c == Len(visited)
           knots == UniformKnots(start, sz, n_elt)
<1>1. /\ start \in Nat /\ sz \in Nat \ {0} /\ n_elt \in Nat \ {0}
      /\ c \in 0 .. n_elt + 1 /\ visited \in [1 .. c -> Int]
      /\ gen = BoundAt(c) /\ \A d \in 1 .. c : visited[d] = BoundAt(d - 1)
  BY DEF RangeInv
<1>2. gen <= AfterFinish
  BY <1>1, BoundsInside
<1>3. DOMAIN knots = 1 .. n_elt + 1 /\ \A d \in 1 .. n_elt + 1 : knots[d] = BoundAt(d - 1)
  <2>1. DOMAIN knots = 1 .. n_elt + 1
    BY DEF UniformKnots
  <2> QED
    BY <1>1, <2>1, BoundsAreKnots
<1> HIDE DEF knots
<1>4. SubSeq(knots, 1, c) = [d \in 1 .. c |-> knots[d]]
  BY <1>1, <1>3
<1>5. visited = SubSeq(knots, 1, c)
  <2>1. \A d \in 1 .. c : d \in 1 .. n_elt + 1 /\ visited[d] = knots[d]
    BY <1>1, <1>3
  <2> HIDE DEF c
  <2>2. visited = [d \in 1 .. c |-> knots[d]]
    BY <1>1, <2>1
  <2> QED
    BY <1>4, <2>2
<1> QED
  BY <1>1, <1>2, <1>5 DEF VisitsTheDistribution, knots

LEMMA RangeFinish ==
  ASSUME RangeInv, ~ FewElements PROVE FinishIsIncluded
<1> SUFFICES ASSUME gen = AfterFinish
             PROVE  /\ visited # <<>> /\ visited[Len(visited)] = start + sz /\ Len(visited) = n_elt + 1
  BY DEF FinishIsIncluded
<1>1. /\ start \in Nat /\ sz \in Nat \ {0} /\ n_elt \in Nat \ {0} /\ n_elt <= sz
      /\ Len(visited) \in 0 .. n_elt + 1 /\ gen = BoundAt(Len(visited))
      /\ \A d \in 1 .. Len(visited) : visited[d] = BoundAt(d - 1)
  BY DEF RangeInv
<1>2. SpacingRoundDown # 0 /\ BoundAt(n_elt) = start + sz
  BY <1>1, RangeNumbers
<1>3. Len(visited) = n_elt + 1
  BY <1>1, <1>2, BoundsInside
<1>4. visited[n_elt + 1] = BoundAt(n_elt)
  <2>1. n_elt + 1 \in 1 .. Len(visited) /\ n_elt + 1 - 1 = n_elt
    BY <1>1, <1>3
  <2> QED
    BY <1>1, <2>1
<1>5. visited # <<>>
  BY <1>1, <1>3
<1> QED
  BY <1>2, <1>3, <1>4, <1>5

(* A range-based loop over a uniform_distribution_range: the generator never    *)
(* passes the sentinel, and sees the bounds that uniform_distribution writes.   *)
THEOREM RangeCorrect == RangeSpec => []VisitsTheDistribution
<1> QED
  BY RangeStart, RangeStep, RangeVisits, PTL DEF RangeSpec

(* It sees finish, as the comment of the code wants, unless there are fewer     *)
(* elements than slots.                                                         *)
THEOREM FinishIsReached ==
  ASSUME ~ FewElements PROVE RangeSpec => []FinishIsIncluded
<1>1. RangeInv => FinishIsIncluded
  BY RangeFinish
<1> QED
  BY <1>1, RangeStart, RangeStep, PTL DEF RangeSpec

=============================================================================
