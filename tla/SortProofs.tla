----------------------------- MODULE SortProofs -----------------------------
(* The ranks of sort_by_rank stay in step, for any number of ranks and of       *)
(* elements, and whatever values the samples take.                              *)
EXTENDS SortByRank, SeqLemmas

\* What a std::vector is, whatever it holds.
IsVector(s) == Len(s) \in Nat /\ s = [n \in 1 .. Len(s) |-> s[n]]

\* What all the ranks must have of the sub-intervals.
Outline(subs) == [n \in 1 .. Len(subs) |-> <<subs[n].n_tick, subs[n].position>>]

Once == {"sample once", "gather once", "partition once", "reduce once", "narrow once"}
Inner == {"sample", "gather", "partition", "reduce", "narrow"}
Stages == Once \cup Inner \cup {"exchange", "thrown", "local sort", "done"}

SubsOK(subs) == IsVector(subs) /\ \A n \in 1 .. Len(subs) : subs[n].n_tick \in Nat
PivotsOK(pivs) == IsVector(pivs) /\ \A n \in 1 .. Len(pivs) : Len(pivs[n]) \in Nat

SortTypeOK ==
  /\ NbRanks \in Nat \ {0}
  /\ DOMAIN pc = AllRanks /\ DOMAIN i = AllRanks /\ DOMAIN n_iter = AllRanks
  /\ DOMAIN sub_ins = AllRanks /\ DOMAIN new_sub_ins = AllRanks
  /\ DOMAIN pivots = AllRanks /\ DOMAIN partition = AllRanks /\ DOMAIN tot = AllRanks

RankTypeOK(r) ==
  /\ pc[r] \in Stages /\ i[r] \in Nat /\ n_iter[r] \in Nat
  /\ SubsOK(sub_ins[r]) /\ SubsOK(new_sub_ins[r]) /\ PivotsOK(pivots[r])

\* Where a rank is among its sub-intervals.
RankLoopOK(r) ==
  /\ pc[r] \in Once => i[r] = 1
  /\ pc[r] \in {"reduce once", "narrow once"} => pivots[r] = <<>>
  /\ pc[r] = "partition once" /\ sz_tot # 0 =>
       Len(pivots[r]) = 1 /\ Len(pivots[r][1]) = NbRanks - 1
  /\ pc[r] \in Inner => i[r] \in 1 .. Len(sub_ins[r])
  /\ pc[r] \in {"sample", "gather"} => Len(pivots[r]) = i[r] - 1
  /\ pc[r] \in {"partition", "reduce", "narrow"} => Len(pivots[r]) = Len(sub_ins[r])
  /\ pc[r] \in {"reduce once", "reduce"} => Len(partition[r]) \in Nat
  /\ pc[r] \in {"narrow once", "narrow"} => Len(tot[r]) \in Nat

----------------------------------------------------------------------------
(* The collective operation that a rank comes to next, and what it then has: *)
(* by itself, a rank decides nothing of it.                                  *)

At(to, i1, n_iter1, pivots1, subs, new_subs, length) ==
  [to |-> to, i |-> i1, n_iter |-> n_iter1, pivots |-> pivots1,
   subs |-> Outline(subs), new_subs |-> Outline(new_subs), length |-> length]

\* After the last sub-interval, with the sub-intervals new.
AtLoopHead(n, new, new_subs) ==
  LET head == LoopHead(new, n)
  IN  At(IF head = "sample" THEN "gather" ELSE head, 1,
         IF new = <<>> THEN n ELSE n + 1, <<>>, new, new_subs, Len(<<>>))

NewOnce(r) == <<>> \o SubIntervals(ObjectiveTicks(0, NbRanks - 1), tot[r], partition[r], 0, FALSE)
NewSub(r) ==
  new_sub_ins[r] \o SubIntervals(ObjectiveTicks(Sub(r).position, Sub(r).n_tick),
                                 tot[r], partition[r], Sub(r).position, TRUE)
NextOf(where) ==
  IF where = "sample once" THEN "gather once" ELSE IF where = "sample" THEN "gather"
  ELSE IF where = "local sort" THEN "done" ELSE where

Coming(r) ==
  IF pc[r] = "partition once"
    THEN At("reduce once", i[r], n_iter[r], <<>>, sub_ins[r], new_sub_ins[r], NbRanks + 1)
  ELSE IF pc[r] = "narrow once" THEN AtLoopHead(n_iter[r], NewOnce(r), new_sub_ins[r])
  ELSE IF pc[r] = "partition"
    THEN At("reduce", i[r], n_iter[r], pivots[r], sub_ins[r], new_sub_ins[r],
            2 * Len(pivots[r][i[r]]) + 2)
  ELSE IF pc[r] = "narrow" /\ IsLast(r) THEN AtLoopHead(n_iter[r], NewSub(r), <<>>)
  ELSE IF pc[r] = "narrow"
    THEN At("reduce", i[r] + 1, n_iter[r], pivots[r], sub_ins[r], NewSub(r),
            2 * Len(pivots[r][i[r] + 1]) + 2)
  ELSE At(NextOf(pc[r]), i[r], n_iter[r], pivots[r], sub_ins[r], new_sub_ins[r], Len(partition[r]))

AgreeInv == \A r, q \in AllRanks : Coming(r) = Coming(q)

SortInv ==
  /\ SortTypeOK
  /\ \A r \in AllRanks : RankTypeOK(r) /\ RankLoopOK(r)
  /\ AgreeInv

----------------------------------------------------------------------------
(* Vectors, and what is computed from them. *)

LEMMA VectorSeq ==
  ASSUME NEW s, IsVector(s), NEW S, \A m \in 1 .. Len(s) : s[m] \in S
  PROVE  s \in Seq(S)
  BY DEF IsVector

LEMMA SeqVector == ASSUME NEW S, NEW s \in Seq(S) PROVE IsVector(s)
<1>1. Len(s) \in Nat /\ s \in [1 .. Len(s) -> S]
  OBVIOUS
<1>2. s = [n \in 1 .. Len(s) |-> s[n]]
  BY <1>1
<1> QED
  BY <1>1, <1>2 DEF IsVector

\* A vector after another one.
LEMMA ConcatVectors ==
  ASSUME NEW s, NEW t, IsVector(s), IsVector(t)
  PROVE  /\ IsVector(s \o t) /\ Len(s \o t) = Len(s) + Len(t)
         /\ \A m \in 1 .. Len(s) + Len(t) :
              (s \o t)[m] = IF m <= Len(s) THEN s[m] ELSE t[m - Len(s)]
<1> DEFINE S == {s[m] : m \in 1 .. Len(s)} \cup {t[m] : m \in 1 .. Len(t)}
<1>1. s \in Seq(S) /\ t \in Seq(S)
  <2>1. \A m \in 1 .. Len(s) : s[m] \in S
    OBVIOUS
  <2>2. \A m \in 1 .. Len(t) : t[m] \in S
    OBVIOUS
  <2> HIDE DEF S
  <2> QED
    BY <2>1, <2>2, VectorSeq
<1> HIDE DEF S
<1>2. s \o t \in Seq(S) /\ Len(s \o t) = Len(s) + Len(t)
  BY <1>1
<1>3. \A m \in 1 .. Len(s) + Len(t) :
        (s \o t)[m] = IF m <= Len(s) THEN s[m] ELSE t[m - Len(s)]
  BY <1>1
<1>4. IsVector(s \o t)
  BY <1>2, SeqVector
<1> QED
  BY <1>2, <1>3, <1>4

LEMMA AppendVector ==
  ASSUME NEW s, NEW e, IsVector(s)
  PROVE  /\ IsVector(Append(s, e)) /\ Len(Append(s, e)) = Len(s) + 1
         /\ \A m \in 1 .. Len(s) : Append(s, e)[m] = s[m]
         /\ Append(s, e)[Len(s) + 1] = e
<1> DEFINE S == {s[m] : m \in 1 .. Len(s)} \cup {e}
<1>1. s \in Seq(S) /\ e \in S
  <2>1. \A m \in 1 .. Len(s) : s[m] \in S
    OBVIOUS
  <2>2. e \in S
    OBVIOUS
  <2> HIDE DEF S
  <2> QED
    BY <2>1, <2>2, VectorSeq
<1> HIDE DEF S
<1>2. Append(s, e) \in Seq(S) /\ Len(Append(s, e)) = Len(s) + 1
  BY <1>1
<1>3. \A m \in 1 .. Len(s) : Append(s, e)[m] = s[m]
  BY <1>1
<1>4. Append(s, e)[Len(s) + 1] = e
  BY <1>1
<1>5. IsVector(Append(s, e))
  BY <1>2, SeqVector
<1> QED
  BY <1>2, <1>3, <1>4, <1>5

LEMMA EmptyVector == IsVector(<<>>) /\ Len(<<>>) = 0 /\ SubsOK(<<>>) /\ PivotsOK(<<>>)
<1>1. IsVector(<<>>) /\ Len(<<>>) = 0
  BY DEF IsVector
<1> QED
  BY <1>1 DEF SubsOK, PivotsOK

\* The sub-intervals that are left have the same outline on all the ranks, wherever
\* their ends are.
LEMMA SubIntervalsFact ==
  ASSUME NEW ticks, Len(ticks) \in Nat, NEW knots, Len(knots) \in Nat,
         NEW local, NEW other, NEW offset, NEW eq
  PROVE  /\ SubsOK(SubIntervals(ticks, knots, local, offset, eq))
         /\ Outline(SubIntervals(ticks, knots, local, offset, eq))
              = Outline(SubIntervals(ticks, knots, other, offset, eq))
<1> DEFINE FarIn(k) == FarTicks(ticks, knots, shift, eq, k)
           K == {k \in 0 .. Len(knots) - 2 : FarIn(k) # {}}
           ks == InOrder(K)
           n == Cardinality(K)
           Subs(l) == SubIntervals(ticks, knots, l, offset, eq)
<1>1. n \in Nat
  <2>1. IsFiniteSet(0 .. Len(knots) - 2)
    BY FS_Interval
  <2>2. K \subseteq 0 .. Len(knots) - 2
    OBVIOUS
  <2> HIDE DEF K
  <2> QED
    BY <2>1, <2>2, FS_Subset, FS_CardinalityType
<1>2. \A k : Cardinality(FarIn(k)) \in Nat
  <2>1. IsFiniteSet(0 .. Len(ticks) - 1)
    BY FS_Interval
  <2>2. \A k : FarIn(k) \subseteq 0 .. Len(ticks) - 1
    BY DEF FarTicks
  <2> HIDE DEF FarIn
  <2> QED
    BY <2>1, <2>2, FS_Subset, FS_CardinalityType
<1>3. Len(ks) = n
  <2> HIDE DEF K
  <2> QED
    BY <1>1 DEF InOrder
<1> DEFINE Tick(k) == offset + CHOOSE t \in FarIn(k) : \A u \in FarIn(k) : t <= u
<1>4. ASSUME NEW l
      PROVE  Subs(l) = [m \in 1 .. Len(ks) |->
                          [inf |-> l[ks[m] + 1], sup |-> l[ks[m] + 2],
                           n_tick |-> Cardinality(FarIn(ks[m])), position |-> Tick(ks[m])]]
  BY DEF SubIntervals
<1> HIDE DEF FarIn, K, ks, n, Subs, Tick
<1>5. ASSUME NEW l
      PROVE  /\ IsVector(Subs(l)) /\ Len(Subs(l)) = n
             /\ \A m \in 1 .. n : Subs(l)[m].n_tick = Cardinality(FarIn(ks[m]))
                                  /\ Subs(l)[m].position = Tick(ks[m])
  BY <1>1, <1>3, <1>4 DEF IsVector
<1>6. SubsOK(Subs(local))
  BY <1>2, <1>5 DEF SubsOK
<1>7. ASSUME NEW l
      PROVE  Outline(Subs(l)) = [m \in 1 .. n |-> <<Cardinality(FarIn(ks[m])), Tick(ks[m])>>]
  BY <1>5 DEF Outline
<1>8. Outline(Subs(local)) = Outline(Subs(other))
  BY <1>7
<1> QED
  BY <1>6, <1>8 DEF Subs

\* Equal outlines are of vectors of the same length.
LEMMA OutlineFact ==
  ASSUME NEW s, NEW t, IsVector(s), IsVector(t), Outline(s) = Outline(t)
  PROVE  /\ Len(s) = Len(t) /\ (s = <<>> <=> t = <<>>)
         /\ \A m \in 1 .. Len(s) : s[m].n_tick = t[m].n_tick /\ s[m].position = t[m].position
<1> DEFINE f == Outline(s)
           g == Outline(t)
<1>0. Len(s) \in Nat /\ Len(t) \in Nat /\ f = g
  BY DEF IsVector
<1>1. /\ Len(f) = Len(s) /\ Len(g) = Len(t)
      /\ \A m \in 1 .. Len(s) : f[m] = <<s[m].n_tick, s[m].position>>
      /\ \A m \in 1 .. Len(t) : g[m] = <<t[m].n_tick, t[m].position>>
  <2>1. /\ f = [m \in 1 .. Len(s) |-> <<s[m].n_tick, s[m].position>>]
        /\ g = [m \in 1 .. Len(t) |-> <<t[m].n_tick, t[m].position>>]
    BY DEF Outline
  <2> DEFINE S == {<<s[m].n_tick, s[m].position>> : m \in 1 .. Len(s)}
             T == {<<t[m].n_tick, t[m].position>> : m \in 1 .. Len(t)}
  <2> HIDE DEF f, g
  <2>2. f \in [1 .. Len(s) -> S] /\ g \in [1 .. Len(t) -> T]
    BY <2>1
  <2>3. DOMAIN f = 1 .. Len(s) /\ DOMAIN g = 1 .. Len(t)
    BY <2>1
  <2> HIDE DEF S, T
  <2>4. f \in Seq(S) /\ g \in Seq(T)
    BY <1>0, <2>2
  <2>5. Len(f) = Len(s) /\ Len(g) = Len(t)
    BY <1>0, <2>3, <2>4
  <2> QED
    BY <2>1, <2>5
<1> HIDE DEF f, g
<1>2. Len(s) = Len(t)
  BY <1>0, <1>1
<1>3. s = <<>> <=> Len(s) = 0
  BY DEF IsVector
<1>4. t = <<>> <=> Len(t) = 0
  BY DEF IsVector
<1>5. \A m \in 1 .. Len(s) : s[m].n_tick = t[m].n_tick /\ s[m].position = t[m].position
  <2> SUFFICES ASSUME NEW m \in 1 .. Len(s)
               PROVE  s[m].n_tick = t[m].n_tick /\ s[m].position = t[m].position
    OBVIOUS
  <2>1. <<s[m].n_tick, s[m].position>> = <<t[m].n_tick, t[m].position>>
    BY <1>0, <1>1, <1>2
  <2> QED
    BY <2>1
<1> QED
  BY <1>2, <1>3, <1>4, <1>5

LEMMA OutlineConcat ==
  ASSUME NEW s, NEW t, NEW u, NEW v, IsVector(s), IsVector(t), IsVector(u), IsVector(v),
         Outline(s) = Outline(u), Outline(t) = Outline(v)
  PROVE  Outline(s \o t) = Outline(u \o v)
<1>1. /\ Len(s) = Len(u) /\ Len(t) = Len(v)
      /\ \A m \in 1 .. Len(s) : s[m].n_tick = u[m].n_tick /\ s[m].position = u[m].position
      /\ \A m \in 1 .. Len(t) : t[m].n_tick = v[m].n_tick /\ t[m].position = v[m].position
  BY OutlineFact
<1>2. /\ Len(s \o t) = Len(s) + Len(t) /\ Len(u \o v) = Len(s) + Len(t)
      /\ Len(s) \in Nat /\ Len(t) \in Nat
      /\ \A m \in 1 .. Len(s) + Len(t) :
           /\ (s \o t)[m] = IF m <= Len(s) THEN s[m] ELSE t[m - Len(s)]
           /\ (u \o v)[m] = IF m <= Len(s) THEN u[m] ELSE v[m - Len(s)]
  BY <1>1, ConcatVectors DEF IsVector
<1>3. ASSUME NEW m \in 1 .. Len(s) + Len(t)
      PROVE  (s \o t)[m].n_tick = (u \o v)[m].n_tick /\ (s \o t)[m].position = (u \o v)[m].position
  <2>1. CASE m <= Len(s)
    BY <1>1, <1>2, <2>1
  <2>2. CASE ~ (m <= Len(s))
    <3>1. m - Len(s) \in 1 .. Len(t)
      BY <1>2, <2>2
    <3> QED
      BY <1>1, <1>2, <2>2, <3>1
  <2> QED
    BY <2>1, <2>2
<1> QED
  BY <1>2, <1>3 DEF Outline

LEMMA SubsConcat ==
  ASSUME NEW s, NEW t, SubsOK(s), SubsOK(t)
  PROVE  SubsOK(s \o t)
<1>1. IsVector(s) /\ IsVector(t) /\ Len(s) \in Nat /\ Len(t) \in Nat
  BY DEF SubsOK, IsVector
<1>2. ASSUME NEW m \in 1 .. Len(s) + Len(t)
      PROVE  (s \o t)[m].n_tick \in Nat
  <2>1. CASE m <= Len(s)
    BY <1>1, <2>1, ConcatVectors DEF SubsOK
  <2>2. CASE ~ (m <= Len(s))
    <3>1. m - Len(s) \in 1 .. Len(t)
      BY <1>1, <2>2
    <3> QED
      BY <1>1, <2>2, <3>1, ConcatVectors DEF SubsOK
  <2> QED
    BY <2>1, <2>2
<1> QED
  BY <1>1, <1>2, ConcatVectors DEF SubsOK

----------------------------------------------------------------------------
(* How long what is exchanged is. *)

\* The number of pivots and of the ends of the parts do not depend on the rank.
LEMMA LengthsFact ==
  /\ \A all : \A n \in Nat : Len(PivotsOf(all, n)) = n
  /\ \A position : \A n \in Nat : Len(ObjectiveTicks(position, n)) = n
  /\ \A local : Len(local[1]) \in Nat => Len(AllReduce(local)) = Len(local[1])
<1>1. ASSUME NEW all, NEW n \in Nat PROVE Len(PivotsOf(all, n)) = n
  BY DEF PivotsOf
<1>2. ASSUME NEW position, NEW n \in Nat PROVE Len(ObjectiveTicks(position, n)) = n
  BY DEF ObjectiveTicks
<1>3. ASSUME NEW local, Len(local[1]) \in Nat PROVE Len(AllReduce(local)) = Len(local[1])
  BY <1>3 DEF AllReduce
<1> QED
  BY <1>1, <1>2, <1>3

LEMMA ThreeParts ==
  ASSUME NEW a, NEW b, NEW t, NEW n \in Nat, Len(t) = n, IsVector(t)
  PROVE  Len(<<a>> \o t \o <<b>>) = n + 2
<1>1. IsVector(<<a>>) /\ Len(<<a>>) = 1 /\ IsVector(<<b>>) /\ Len(<<b>>) = 1
  BY DEF IsVector
<1>2. IsVector(<<a>> \o t) /\ Len(<<a>> \o t) = 1 + n
  BY <1>1, ConcatVectors
<1>3. Len(<<a>> \o t \o <<b>>) = 1 + n + 1
  BY <1>1, <1>2, ConcatVectors
<1> QED
  BY <1>3

LEMMA IndicesFact ==
  ASSUME NEW r, NEW piv, Len(piv) \in Nat
  PROVE  /\ Len(LessIndices(r, piv)) = Len(piv) + 2
         /\ \A inf, sup : Len(EqIndices(r, inf, sup, piv)) = 2 * Len(piv) + 2
<1>1. Len(LessIndices(r, piv)) = Len(piv) + 2
  <2> DEFINE t == [p \in 1 .. Len(piv) |-> Below(r, 0, Len(x[r]), piv[p])]
  <2>1. Len(t) = Len(piv) /\ IsVector(t)
    BY DEF IsVector
  <2>2. LessIndices(r, piv) = <<0>> \o t \o <<Len(x[r])>>
    BY DEF LessIndices
  <2> HIDE DEF t
  <2> QED
    BY <2>1, <2>2, ThreeParts
<1>2. ASSUME NEW inf, NEW sup
      PROVE  Len(EqIndices(r, inf, sup, piv)) = 2 * Len(piv) + 2
  <2> DEFINE k == Len(piv)
             Owner(p) == FirstReached({q \in 1 .. k : piv[q] = piv[p]}, k)
             LessThan(v) == Below(r, inf, sup, v)
             Inf(p) == IF p <= Owner(p) THEN LessThan(piv[p]) ELSE LessThan(piv[p] + 1)
             Sup(p) == IF p < Owner(p) THEN LessThan(piv[p]) ELSE LessThan(piv[p] + 1)
             t == [n \in 1 .. 2 * k |-> IF n % 2 = 1 THEN Inf((n + 1) \div 2) ELSE Sup(n \div 2)]
  <2>1. EqIndices(r, inf, sup, piv) = <<inf>> \o t \o <<sup>>
    BY DEF EqIndices
  <2> HIDE DEF Inf, Sup
  <2>2. Len(t) = 2 * k /\ IsVector(t) /\ 2 * k \in Nat
    BY DEF IsVector
  <2> HIDE DEF t
  <2> QED
    BY <2>1, <2>2, ThreeParts
<1> QED
  BY <1>1, <1>2

----------------------------------------------------------------------------
(* The local steps: what a rank is coming to is decided. *)

SameOf(q) ==
  /\ pc'[q] = pc[q] /\ i'[q] = i[q] /\ n_iter'[q] = n_iter[q]
  /\ sub_ins'[q] = sub_ins[q] /\ new_sub_ins'[q] = new_sub_ins[q]
  /\ pivots'[q] = pivots[q] /\ partition'[q] = partition[q] /\ tot'[q] = tot[q]

LEMMA Unmoved ==
  ASSUME UNCHANGED inVars, NEW q, SameOf(q)
  PROVE  /\ Coming(q)' = Coming(q)
         /\ RankTypeOK(q)' = RankTypeOK(q)
         /\ RankLoopOK(q)' = RankLoopOK(q)
<1>1. UNCHANGED <<shape, x, shift, sz_tot>>
  BY DEF inVars
<1>2. NewOnce(q)' = NewOnce(q) /\ NewSub(q)' = NewSub(q) /\ IsLast(q)' = IsLast(q)
  BY <1>1 DEF SameOf, NewOnce, NewSub, IsLast, Sub, SubIntervals, ObjectiveTicks, NbRanks
<1>3. \A n, new, new_subs : AtLoopHead(n, new, new_subs)' = AtLoopHead(n, new, new_subs)
  BY <1>1 DEF SameOf, AtLoopHead, LoopHead, At
<1>4. Coming(q)' = Coming(q)
  BY <1>1, <1>2, <1>3 DEF SameOf, Coming, NbRanks, At
<1>5. RankTypeOK(q)' = RankTypeOK(q)
  BY <1>1 DEF SameOf, RankTypeOK, SubsOK, PivotsOK
<1>6. RankLoopOK(q)' = RankLoopOK(q)
  BY <1>1 DEF SameOf, RankLoopOK, NbRanks
<1> QED
  BY <1>4, <1>5, <1>6

LEMMA LocalStep ==
  ASSUME SortInv, NEW r \in AllRanks, UNCHANGED inVars, SortTypeOK',
         \A q \in AllRanks : q # r => SameOf(q),
         RankTypeOK(r)', RankLoopOK(r)', Coming(r)' = Coming(r)
  PROVE  SortInv'
<1>1. AllRanks' = AllRanks
  BY DEF AllRanks, NbRanks, inVars
<1>2. ASSUME NEW q \in AllRanks
      PROVE  RankTypeOK(q)' /\ RankLoopOK(q)' /\ Coming(q)' = Coming(q)
  <2>1. CASE q = r
    BY <2>1
  <2>2. CASE q # r
    <3>1. SameOf(q)
      BY <2>2
    <3>2. RankTypeOK(q) /\ RankLoopOK(q)
      BY DEF SortInv
    <3> QED
      BY <3>1, <3>2, Unmoved
  <2> QED
    BY <2>1, <2>2
<1>3. \A p, q \in AllRanks : Coming(p) = Coming(q)
  BY DEF SortInv, AgreeInv
<1>4. AgreeInv'
  BY <1>1, <1>2, <1>3 DEF AgreeInv
<1> QED
  BY <1>1, <1>2, <1>4 DEF SortInv

\* At the next state, a rank that is at a collective operation, or at the step before.
LEMMA StopNext ==
  ASSUME NEW r, pc'[r] # "partition once", pc'[r] # "narrow once", pc'[r] # "partition",
         pc'[r] # "narrow"
  PROVE  Coming(r)' = At(NextOf(pc'[r]), i'[r], n_iter'[r], pivots'[r], sub_ins'[r], new_sub_ins'[r],
                         Len(partition'[r]))
  BY DEF Coming, At, NextOf

\* A step that goes to the next collective operation at once, without changing
\* anything that is shared.
LEMMA SortSample ==
  ASSUME SortInv, NEW r \in AllRanks, SampleOnce(r) \/ SampleSub(r) \/ LocalSort(r)
  PROVE  SortInv'
<1>1. /\ UNCHANGED <<inVars, i, n_iter, sub_ins, new_sub_ins, pivots, partition, tot>>
      /\ pc[r] \in {"sample once", "sample", "local sort"}
      /\ pc' = [pc EXCEPT ![r] = IF pc[r] = "sample once" THEN "gather once"
                                 ELSE IF pc[r] = "sample" THEN "gather" ELSE "done"]
  BY DEF SampleOnce, SampleSub, LocalSort, loopVars, Turn
<1>2. SortTypeOK /\ RankTypeOK(r) /\ RankLoopOK(r)
  BY DEF SortInv
<1>3. SortTypeOK' /\ \A q \in AllRanks : q # r => SameOf(q)
  BY <1>1, <1>2 DEF SortTypeOK, AllRanks, NbRanks, inVars, SameOf
<1>7. \/ pc[r] = "sample once" /\ pc'[r] = "gather once"
      \/ pc[r] = "sample" /\ pc'[r] = "gather"
      \/ pc[r] = "local sort" /\ pc'[r] = "done"
  <2>1. r \in DOMAIN pc
    BY <1>2 DEF SortTypeOK
  <2> QED
    BY <1>1, <2>1
<1>8. NextOf(pc[r]) = pc'[r] /\ NextOf(pc'[r]) = pc'[r]
  BY <1>7 DEF NextOf
<1>4. RankTypeOK(r)'
  <2>1. pc'[r] \in Stages
    BY <1>7 DEF Stages, Once, Inner
  <2> QED
    BY <1>1, <1>2, <2>1 DEF RankTypeOK
<1>5. RankLoopOK(r)'
  <2>1. NbRanks' = NbRanks /\ sz_tot' = sz_tot
    BY <1>1 DEF NbRanks, inVars
  <2> QED
    BY <1>1, <1>2, <1>7, <2>1 DEF RankLoopOK, Once, Inner
<1>6. Coming(r)' = Coming(r)
  <2>1. Coming(r) = At(NextOf(pc[r]), i[r], n_iter[r], pivots[r], sub_ins[r], new_sub_ins[r],
                       Len(partition[r]))
    BY <1>1 DEF Coming
  <2>2. /\ i'[r] = i[r] /\ n_iter'[r] = n_iter[r] /\ pivots'[r] = pivots[r]
        /\ sub_ins'[r] = sub_ins[r] /\ new_sub_ins'[r] = new_sub_ins[r]
        /\ partition'[r] = partition[r]
    BY <1>1
  <2>3. Coming(r)' = At(NextOf(pc[r]), i[r], n_iter[r], pivots[r], sub_ins[r], new_sub_ins[r],
                        Len(partition[r]))
    <3>1. /\ pc'[r] # "partition once" /\ pc'[r] # "narrow once" /\ pc'[r] # "partition"
          /\ pc'[r] # "narrow"
      BY <1>7
    <3>2. Coming(r)' = At(NextOf(pc'[r]), i'[r], n_iter'[r], pivots'[r], sub_ins'[r],
                          new_sub_ins'[r], Len(partition'[r]))
      BY <3>1, StopNext
    <3> QED
      BY <1>8, <2>2, <3>2
  <2> QED
    BY <2>1, <2>3
<1> QED
  BY <1>1, <1>3, <1>4, <1>5, <1>6, LocalStep

LEMMA SortPartitionOnce == ASSUME SortInv, NEW r \in AllRanks, PartitionOnce(r) PROVE SortInv'
<1> DEFINE indices == IF sz_tot = 0 THEN [n \in 1 .. NbRanks + 1 |-> 0]
                      ELSE LessIndices(r, pivots[r][1])
<1>1. /\ UNCHANGED <<inVars, i, n_iter, sub_ins, new_sub_ins, tot>>
      /\ pc[r] = "partition once" /\ pc' = [pc EXCEPT ![r] = "reduce once"]
      /\ partition' = [partition EXCEPT ![r] = indices]
      /\ pivots' = [pivots EXCEPT ![r] = <<>>]
  BY DEF PartitionOnce, loopVars, Turn
<1>2. SortTypeOK /\ RankTypeOK(r) /\ RankLoopOK(r)
  BY DEF SortInv
<1>3. NbRanks' = NbRanks /\ sz_tot' = sz_tot /\ AllRanks' = AllRanks /\ NbRanks \in Nat \ {0}
  BY <1>1, <1>2 DEF NbRanks, inVars, SortTypeOK, AllRanks
<1>4. Len(indices) = NbRanks + 1
  <2>1. CASE sz_tot = 0
    BY <1>3, <2>1
  <2>2. CASE sz_tot # 0
    <3>1. Len(pivots[r][1]) = NbRanks - 1
      BY <1>1, <1>2, <2>2 DEF RankLoopOK
    <3>2. Len(LessIndices(r, pivots[r][1])) = NbRanks - 1 + 2
      BY <1>3, <3>1, IndicesFact
    <3> QED
      BY <1>3, <2>2, <3>2
  <2> QED
    BY <2>1, <2>2
<1> HIDE DEF indices
<1>5. SortTypeOK' /\ \A q \in AllRanks : q # r => SameOf(q)
  BY <1>1, <1>2, <1>3 DEF SortTypeOK, SameOf
<1>6. /\ pc'[r] = "reduce once" /\ pivots'[r] = <<>> /\ partition'[r] = indices
      /\ i'[r] = i[r] /\ n_iter'[r] = n_iter[r]
      /\ sub_ins'[r] = sub_ins[r] /\ new_sub_ins'[r] = new_sub_ins[r]
  BY <1>1, <1>2 DEF SortTypeOK
<1>7. RankTypeOK(r)'
  BY <1>2, <1>6, EmptyVector DEF RankTypeOK, Stages, Once
<1>8. RankLoopOK(r)'
  <2>1. i'[r] = 1
    BY <1>1, <1>2, <1>6 DEF RankLoopOK, Once
  <2>2. Len(partition'[r]) \in Nat
    <3>1. NbRanks + 1 \in Nat
      BY <1>3
    <3> QED
      BY <1>4, <1>6, <3>1
  <2>3. /\ pc'[r] \notin Inner /\ pc'[r] # "partition once"
        /\ pc'[r] \notin {"sample", "gather"}
        /\ pc'[r] \notin {"partition", "reduce", "narrow"}
        /\ pc'[r] \notin {"narrow once", "narrow"}
    BY <1>6 DEF Inner
  <2> QED
    BY <1>6, <2>1, <2>2, <2>3 DEF RankLoopOK
<1>9. Coming(r)' = Coming(r)
  <2>1. Coming(r) = At("reduce once", i[r], n_iter[r], <<>>, sub_ins[r], new_sub_ins[r], NbRanks + 1)
    BY <1>1 DEF Coming
  <2>2. /\ pc'[r] # "partition once" /\ pc'[r] # "narrow once" /\ pc'[r] # "partition"
        /\ pc'[r] # "narrow" /\ NextOf(pc'[r]) = "reduce once"
    BY <1>6 DEF NextOf
  <2>3. Coming(r)' = At(NextOf(pc'[r]), i'[r], n_iter'[r], pivots'[r], sub_ins'[r], new_sub_ins'[r],
                        Len(partition'[r]))
    BY <2>2, StopNext
  <2> QED
    BY <1>4, <1>6, <2>1, <2>2, <2>3
<1> QED
  BY <1>1, <1>5, <1>7, <1>8, <1>9, LocalStep

\* The sub-intervals that a rank is left with.
LEMMA NewFact ==
  ASSUME SortInv, NEW r \in AllRanks
  PROVE  /\ pc[r] = "narrow once" => SubsOK(NewOnce(r))
         /\ pc[r] = "narrow" => SubsOK(NewSub(r))
<1>1. SortTypeOK /\ RankTypeOK(r) /\ RankLoopOK(r)
  BY DEF SortInv
<1>2. ASSUME pc[r] = "narrow once" PROVE SubsOK(NewOnce(r))
  <2>0. NbRanks - 1 \in Nat
    BY <1>1 DEF SortTypeOK
  <2>1. NbRanks - 1 \in Nat /\ Len(tot[r]) \in Nat
    BY <1>1, <1>2, <2>0 DEF RankLoopOK
  <2>2. Len(ObjectiveTicks(0, NbRanks - 1)) \in Nat
    BY <2>1, LengthsFact
  <2>3. SubsOK(SubIntervals(ObjectiveTicks(0, NbRanks - 1), tot[r], partition[r], 0, FALSE))
    BY <2>1, <2>2, SubIntervalsFact
  <2> QED
    BY <2>3, EmptyVector, SubsConcat DEF NewOnce
<1>3. ASSUME pc[r] = "narrow" PROVE SubsOK(NewSub(r))
  <2>1. Len(tot[r]) \in Nat /\ i[r] \in 1 .. Len(sub_ins[r])
    BY <1>1, <1>3 DEF RankLoopOK, Inner
  <2>2. SubsOK(new_sub_ins[r]) /\ Sub(r).n_tick \in Nat
    BY <1>1, <2>1 DEF RankTypeOK, SubsOK, Sub
  <2>3. Len(ObjectiveTicks(Sub(r).position, Sub(r).n_tick)) \in Nat
    BY <2>2, LengthsFact
  <2>4. SubsOK(SubIntervals(ObjectiveTicks(Sub(r).position, Sub(r).n_tick), tot[r], partition[r],
                            Sub(r).position, TRUE))
    BY <2>1, <2>3, SubIntervalsFact
  <2> QED
    BY <2>2, <2>4, SubsConcat DEF NewSub
<1> QED
  BY <1>2, <1>3

\* The head of the loop, with new sub-intervals.
LEMMA SortLoopHead ==
  ASSUME SortInv, NEW r \in AllRanks, NEW new, NEW new_subs, SubsOK(new), SubsOK(new_subs),
         UNCHANGED inVars, SortTypeOK', \A q \in AllRanks : q # r => SameOf(q),
         Coming(r) = AtLoopHead(n_iter[r], new, new_subs),
         pc'[r] = LoopHead(new, n_iter[r]), sub_ins'[r] = new, new_sub_ins'[r] = new_subs,
         i'[r] = 1, n_iter'[r] = IF new = <<>> THEN n_iter[r] ELSE n_iter[r] + 1,
         pivots'[r] = <<>>, partition'[r] = <<>>
  PROVE  SortInv'
<1>1. \/ pc'[r] = "exchange" /\ new = <<>>
      \/ pc'[r] = "thrown"
      \/ pc'[r] = "sample" /\ new # <<>>
  BY DEF LoopHead
<1>2. n_iter'[r] \in Nat
  <2>1. n_iter[r] \in Nat
    BY DEF SortInv, RankTypeOK
  <2> QED
    BY <2>1
<1>3. RankTypeOK(r)'
  <2>1. pc'[r] \in Stages
    BY <1>1 DEF Stages, Inner
  <2>2. i'[r] \in Nat /\ PivotsOK(pivots'[r])
    BY EmptyVector
  <2>3. SubsOK(sub_ins'[r]) /\ SubsOK(new_sub_ins'[r])
    OBVIOUS
  <2> QED
    BY <1>2, <2>1, <2>2, <2>3 DEF RankTypeOK
<1>4. new # <<>> => 1 \in 1 .. Len(new)
  <2>1. IsVector(new)
    BY DEF SubsOK
  <2>2. Len(new) \in Nat /\ (Len(new) = 0 => new = <<>>)
    BY <2>1 DEF IsVector
  <2> QED
    BY <2>2
<1>5. RankLoopOK(r)'
  <2>1. /\ pc'[r] \notin Once
        /\ pc'[r] \notin {"partition", "reduce", "narrow", "reduce once", "narrow once"}
        /\ pc'[r] # "partition once"
    BY <1>1 DEF Once
  <2>2. pc'[r] \in Inner => i'[r] \in 1 .. Len(sub_ins'[r])
    BY <1>1, <1>4 DEF Inner
  <2>3. Len(pivots'[r]) = i'[r] - 1
    BY EmptyVector
  <2> QED
    BY <2>1, <2>2, <2>3 DEF RankLoopOK
<1>6. Coming(r)' = Coming(r)
  <2>1. /\ pc'[r] # "partition once" /\ pc'[r] # "narrow once" /\ pc'[r] # "partition"
        /\ pc'[r] # "narrow"
    BY <1>1
  <2>2. NextOf(pc'[r]) = IF pc'[r] = "sample" THEN "gather" ELSE pc'[r]
    BY <1>1 DEF NextOf
  <2>3. Coming(r)' = At(NextOf(pc'[r]), i'[r], n_iter'[r], pivots'[r], sub_ins'[r], new_sub_ins'[r],
                        Len(partition'[r]))
    BY <2>1, StopNext
  <2> QED
    BY <2>2, <2>3 DEF AtLoopHead
<1> QED
  BY <1>3, <1>5, <1>6, LocalStep

LEMMA SortNarrowOnce == ASSUME SortInv, NEW r \in AllRanks, NarrowOnce(r) PROVE SortInv'
<1>1. /\ UNCHANGED <<inVars, i, new_sub_ins, pivots>>
      /\ pc[r] = "narrow once" /\ pc' = [pc EXCEPT ![r] = LoopHead(NewOnce(r), n_iter[r])]
      /\ sub_ins' = [sub_ins EXCEPT ![r] = NewOnce(r)]
      /\ n_iter' = [n_iter EXCEPT ![r] = IF NewOnce(r) = <<>> THEN @ ELSE @ + 1]
      /\ partition' = [partition EXCEPT ![r] = <<>>] /\ tot' = [tot EXCEPT ![r] = <<>>]
  BY DEF NarrowOnce, NewOnce, Turn
<1>2. SortTypeOK /\ RankTypeOK(r) /\ RankLoopOK(r)
  BY DEF SortInv
<1>3. SubsOK(NewOnce(r)) /\ SubsOK(new_sub_ins[r])
  BY <1>1, <1>2, NewFact DEF RankTypeOK
<1>4. NbRanks' = NbRanks /\ AllRanks' = AllRanks
  BY <1>1 DEF NbRanks, inVars, AllRanks
<1>5. SortTypeOK' /\ \A q \in AllRanks : q # r => SameOf(q)
  BY <1>1, <1>2, <1>4 DEF SortTypeOK, SameOf
<1>6. /\ pc'[r] = LoopHead(NewOnce(r), n_iter[r]) /\ sub_ins'[r] = NewOnce(r)
      /\ n_iter'[r] = (IF NewOnce(r) = <<>> THEN n_iter[r] ELSE n_iter[r] + 1)
      /\ partition'[r] = <<>> /\ new_sub_ins'[r] = new_sub_ins[r]
  BY <1>1, <1>2 DEF SortTypeOK
<1>7. i'[r] = 1 /\ pivots'[r] = <<>>
  BY <1>1, <1>2 DEF RankLoopOK, Once
<1>8. Coming(r) = AtLoopHead(n_iter[r], NewOnce(r), new_sub_ins[r])
  BY <1>1 DEF Coming
<1> QED
  BY <1>1, <1>3, <1>5, <1>6, <1>7, <1>8, SortLoopHead

LEMMA SortPartitionSub == ASSUME SortInv, NEW r \in AllRanks, PartitionSub(r) PROVE SortInv'
<1> DEFINE indices == EqIndices(r, Sub(r).inf, Sub(r).sup, pivots[r][i[r]])
<1>1. /\ UNCHANGED <<inVars, i, n_iter, sub_ins, new_sub_ins, pivots, tot>>
      /\ pc[r] = "partition" /\ pc' = [pc EXCEPT ![r] = "reduce"]
      /\ partition' = [partition EXCEPT ![r] = indices]
  BY DEF PartitionSub, loopVars, Turn
<1>2. SortTypeOK /\ RankTypeOK(r) /\ RankLoopOK(r)
  BY DEF SortInv
<1>3. NbRanks' = NbRanks /\ AllRanks' = AllRanks
  BY <1>1 DEF NbRanks, inVars, AllRanks
<1>4. Len(pivots[r][i[r]]) \in Nat
  <2>1. i[r] \in 1 .. Len(sub_ins[r]) /\ Len(pivots[r]) = Len(sub_ins[r])
    BY <1>1, <1>2 DEF RankLoopOK, Inner
  <2> QED
    BY <1>2, <2>1 DEF RankTypeOK, PivotsOK
<1>5. Len(indices) = 2 * Len(pivots[r][i[r]]) + 2
  BY <1>4, IndicesFact
<1>6. Len(indices) \in Nat
  BY <1>4, <1>5
<1> HIDE DEF indices
<1>7. SortTypeOK' /\ \A q \in AllRanks : q # r => SameOf(q)
  BY <1>1, <1>2, <1>3 DEF SortTypeOK, SameOf
<1>8. /\ pc'[r] = "reduce" /\ pivots'[r] = pivots[r] /\ partition'[r] = indices
      /\ i'[r] = i[r] /\ n_iter'[r] = n_iter[r]
      /\ sub_ins'[r] = sub_ins[r] /\ new_sub_ins'[r] = new_sub_ins[r]
  BY <1>1, <1>2 DEF SortTypeOK
<1>9. RankTypeOK(r)'
  BY <1>2, <1>8 DEF RankTypeOK, Stages, Inner
<1>10. RankLoopOK(r)'
  <2>1. pc[r] \in Inner /\ pc[r] \in {"partition", "reduce", "narrow"}
    BY <1>1 DEF Inner
  <2>2. i'[r] \in 1 .. Len(sub_ins'[r]) /\ Len(pivots'[r]) = Len(sub_ins'[r])
    BY <1>2, <1>8, <2>1 DEF RankLoopOK
  <2>3. /\ pc'[r] \notin Once /\ pc'[r] # "partition once"
        /\ pc'[r] \notin {"sample", "gather"}
        /\ pc'[r] \notin {"reduce once", "narrow once"}
        /\ pc'[r] \notin {"narrow once", "narrow"}
    BY <1>8 DEF Once
  <2> QED
    BY <1>6, <1>8, <2>2, <2>3 DEF RankLoopOK
<1>11. Coming(r)' = Coming(r)
  <2>1. Coming(r) = At("reduce", i[r], n_iter[r], pivots[r], sub_ins[r], new_sub_ins[r],
                       2 * Len(pivots[r][i[r]]) + 2)
    BY <1>1 DEF Coming
  <2>2. /\ pc'[r] # "partition once" /\ pc'[r] # "narrow once" /\ pc'[r] # "partition"
        /\ pc'[r] # "narrow" /\ NextOf(pc'[r]) = "reduce"
    BY <1>8 DEF NextOf
  <2>3. Coming(r)' = At(NextOf(pc'[r]), i'[r], n_iter'[r], pivots'[r], sub_ins'[r], new_sub_ins'[r],
                        Len(partition'[r]))
    BY <2>2, StopNext
  <2> QED
    BY <1>5, <1>8, <2>1, <2>2, <2>3
<1> QED
  BY <1>1, <1>7, <1>9, <1>10, <1>11, LocalStep

\* The last sub-interval, and the other ones.
LEMMA SortNarrowLast ==
  ASSUME SortInv, NEW r \in AllRanks, NarrowSub(r), IsLast(r)
  PROVE  SortInv'
<1>1. /\ UNCHANGED inVars
      /\ pc[r] = "narrow" /\ pc' = [pc EXCEPT ![r] = LoopHead(NewSub(r), n_iter[r])]
      /\ sub_ins' = [sub_ins EXCEPT ![r] = NewSub(r)]
      /\ new_sub_ins' = [new_sub_ins EXCEPT ![r] = <<>>]
      /\ pivots' = [pivots EXCEPT ![r] = <<>>] /\ i' = [i EXCEPT ![r] = 1]
      /\ n_iter' = [n_iter EXCEPT ![r] = IF NewSub(r) = <<>> THEN @ ELSE @ + 1]
      /\ partition' = [partition EXCEPT ![r] = <<>>] /\ tot' = [tot EXCEPT ![r] = <<>>]
  BY DEF NarrowSub, NewSub, Turn
<1>2. SortTypeOK /\ RankTypeOK(r) /\ RankLoopOK(r)
  BY DEF SortInv
<1>3. SubsOK(NewSub(r)) /\ SubsOK(<<>>)
  BY <1>1, NewFact, EmptyVector
<1>4. NbRanks' = NbRanks /\ AllRanks' = AllRanks
  BY <1>1 DEF NbRanks, inVars, AllRanks
<1>5. SortTypeOK' /\ \A q \in AllRanks : q # r => SameOf(q)
  BY <1>1, <1>2, <1>4 DEF SortTypeOK, SameOf
<1>6. /\ pc'[r] = LoopHead(NewSub(r), n_iter[r]) /\ sub_ins'[r] = NewSub(r)
      /\ n_iter'[r] = (IF NewSub(r) = <<>> THEN n_iter[r] ELSE n_iter[r] + 1)
      /\ partition'[r] = <<>> /\ new_sub_ins'[r] = <<>> /\ i'[r] = 1 /\ pivots'[r] = <<>>
  BY <1>1, <1>2 DEF SortTypeOK
<1>7. Coming(r) = AtLoopHead(n_iter[r], NewSub(r), <<>>)
  BY <1>1 DEF Coming
<1> QED
  BY <1>1, <1>3, <1>5, <1>6, <1>7, SortLoopHead

LEMMA SortNarrowNext ==
  ASSUME SortInv, NEW r \in AllRanks, NarrowSub(r), ~ IsLast(r)
  PROVE  SortInv'
<1>1. /\ UNCHANGED <<inVars, sub_ins, pivots, n_iter>>
      /\ pc[r] = "narrow" /\ pc' = [pc EXCEPT ![r] = "partition"]
      /\ new_sub_ins' = [new_sub_ins EXCEPT ![r] = NewSub(r)]
      /\ i' = [i EXCEPT ![r] = @ + 1]
      /\ partition' = [partition EXCEPT ![r] = <<>>] /\ tot' = [tot EXCEPT ![r] = <<>>]
  BY DEF NarrowSub, NewSub, Turn
<1>2. SortTypeOK /\ RankTypeOK(r) /\ RankLoopOK(r)
  BY DEF SortInv
<1>3. SubsOK(NewSub(r))
  BY <1>1, NewFact
<1>4. NbRanks' = NbRanks /\ AllRanks' = AllRanks
  BY <1>1 DEF NbRanks, inVars, AllRanks
<1>5. SortTypeOK' /\ \A q \in AllRanks : q # r => SameOf(q)
  BY <1>1, <1>2, <1>4 DEF SortTypeOK, SameOf
<1>6. /\ pc'[r] = "partition" /\ sub_ins'[r] = sub_ins[r] /\ new_sub_ins'[r] = NewSub(r)
      /\ n_iter'[r] = n_iter[r] /\ pivots'[r] = pivots[r] /\ i'[r] = i[r] + 1
  BY <1>1, <1>2 DEF SortTypeOK
<1>7. /\ i[r] \in 1 .. Len(sub_ins[r]) /\ i[r] # Len(sub_ins[r])
      /\ Len(pivots[r]) = Len(sub_ins[r]) /\ Len(sub_ins[r]) \in Nat
  <2>1. pc[r] \in Inner /\ pc[r] \in {"partition", "reduce", "narrow"}
    BY <1>1 DEF Inner
  <2>2. Len(sub_ins[r]) \in Nat
    BY <1>2 DEF RankTypeOK, SubsOK, IsVector
  <2> QED
    BY <1>2, <2>1, <2>2 DEF RankLoopOK, IsLast
<1>8. i'[r] \in 1 .. Len(sub_ins[r]) /\ i'[r] \in Nat
  BY <1>6, <1>7
<1>9. RankTypeOK(r)'
  <2>1. pc'[r] \in Stages
    BY <1>6 DEF Stages, Inner
  <2> QED
    BY <1>2, <1>3, <1>6, <1>8, <2>1 DEF RankTypeOK
<1>10. RankLoopOK(r)'
  <2>1. /\ pc'[r] \notin Once /\ pc'[r] # "partition once"
        /\ pc'[r] \notin {"sample", "gather"}
        /\ pc'[r] \notin {"reduce once", "narrow once"}
        /\ pc'[r] \notin {"narrow once", "narrow"}
        /\ pc'[r] \notin {"reduce once", "reduce"}
    BY <1>6 DEF Once
  <2> QED
    BY <1>6, <1>7, <1>8, <2>1 DEF RankLoopOK
<1>11. Coming(r)' = Coming(r)
  <2>1. Coming(r) = At("reduce", i[r] + 1, n_iter[r], pivots[r], sub_ins[r], NewSub(r),
                       2 * Len(pivots[r][i[r] + 1]) + 2)
    BY <1>1 DEF Coming
  <2>2. pc'[r] # "partition once" /\ pc'[r] # "narrow once" /\ pc'[r] = "partition"
    BY <1>6
  <2>3. Coming(r)' = At("reduce", i'[r], n_iter'[r], pivots'[r], sub_ins'[r], new_sub_ins'[r],
                        2 * Len(pivots'[r][i'[r]]) + 2)
    BY <2>2 DEF Coming, At
  <2> QED
    BY <1>6, <2>1, <2>3
<1> QED
  BY <1>1, <1>5, <1>9, <1>10, <1>11, LocalStep

----------------------------------------------------------------------------
(* The collective operations: what they give to all the ranks is the same. *)

Collective == {"gather once", "reduce once", "gather", "reduce", "exchange", "thrown"}

LEMMA AgreeFact ==
  ASSUME SortInv, NEW r \in AllRanks, NEW q \in AllRanks, pc[r] \in Collective, pc[q] \in Collective
  PROVE  /\ pc[r] = pc[q] /\ i[r] = i[q] /\ n_iter[r] = n_iter[q] /\ pivots[r] = pivots[q]
         /\ Len(partition[r]) = Len(partition[q])
         /\ Outline(sub_ins[r]) = Outline(sub_ins[q])
         /\ Outline(new_sub_ins[r]) = Outline(new_sub_ins[q])
         /\ Len(sub_ins[r]) = Len(sub_ins[q])
         /\ \A s \in 1 .. Len(sub_ins[r]) :
              /\ sub_ins[r][s].n_tick = sub_ins[q][s].n_tick
              /\ sub_ins[r][s].position = sub_ins[q][s].position
<1>1. ASSUME NEW p \in AllRanks, pc[p] \in Collective
      PROVE  Coming(p) = At(pc[p], i[p], n_iter[p], pivots[p], sub_ins[p], new_sub_ins[p],
                            Len(partition[p]))
  <2>1. /\ pc[p] # "partition once" /\ pc[p] # "narrow once" /\ pc[p] # "partition"
        /\ pc[p] # "narrow" /\ pc[p] # "sample once" /\ pc[p] # "sample" /\ pc[p] # "local sort"
    BY <1>1 DEF Collective
  <2>2. NextOf(pc[p]) = pc[p]
    BY <2>1 DEF NextOf
  <2> QED
    BY <2>1, <2>2 DEF Coming
<1>2. Coming(r) = Coming(q)
  BY DEF SortInv, AgreeInv
<1>3. At(pc[r], i[r], n_iter[r], pivots[r], sub_ins[r], new_sub_ins[r], Len(partition[r]))
        = At(pc[q], i[q], n_iter[q], pivots[q], sub_ins[q], new_sub_ins[q], Len(partition[q]))
  BY <1>1, <1>2
<1>4. /\ pc[r] = pc[q] /\ i[r] = i[q] /\ n_iter[r] = n_iter[q] /\ pivots[r] = pivots[q]
      /\ Len(partition[r]) = Len(partition[q])
      /\ Outline(sub_ins[r]) = Outline(sub_ins[q])
      /\ Outline(new_sub_ins[r]) = Outline(new_sub_ins[q])
  BY <1>3 DEF At
<1>5. IsVector(sub_ins[r]) /\ IsVector(sub_ins[q])
  BY DEF SortInv, RankTypeOK, SubsOK
<1> QED
  BY <1>4, <1>5, OutlineFact

\* All the ranks have made the same collective operation.
LEMMA CollectiveStep ==
  ASSUME SortInv, UNCHANGED inVars, SortTypeOK',
         \A r \in AllRanks : RankTypeOK(r)' /\ RankLoopOK(r)',
         \A r, q \in AllRanks : Coming(r)' = Coming(q)'
  PROVE  SortInv'
<1>1. AllRanks' = AllRanks
  BY DEF AllRanks, NbRanks, inVars
<1> QED
  BY <1>1 DEF SortInv, AgreeInv

LEMMA SortGatherOnce == ASSUME SortInv, GatherOnce PROVE SortInv'
<1> DEFINE piv == PivotsOf(Gathered(1), NbRanks - 1)
           pivs == IF sz_tot = 0 THEN <<>> ELSE <<piv>>
<1>1. /\ UNCHANGED <<inVars, i, n_iter, sub_ins, new_sub_ins, partition, tot>>
      /\ \A r \in AllRanks : pc[r] = "gather once"
      /\ pc' = [r \in AllRanks |-> "partition once"]
  BY DEF GatherOnce, loopVars, AllAt, OnEach
<1>2. \A r : Gathered(r) = Gathered(1)
  BY DEF Gathered
<1>3. pivots' = [r \in AllRanks |-> pivs]
  <2>1. pivots' = [r \in AllRanks |-> IF sz_tot = 0 THEN <<>> ELSE <<PivotsOf(Gathered(r), NbRanks - 1)>>]
    BY DEF GatherOnce
  <2> QED
    BY <1>2, <2>1
<1>4. NbRanks \in Nat \ {0} /\ NbRanks' = NbRanks /\ AllRanks' = AllRanks /\ sz_tot' = sz_tot
  BY <1>1 DEF SortInv, SortTypeOK, NbRanks, AllRanks, inVars
<1>5. Len(piv) = NbRanks - 1 /\ Len(piv) \in Nat
  <2>1. NbRanks - 1 \in Nat
    BY <1>4
  <2> QED
    BY <2>1, LengthsFact
<1>6. PivotsOK(pivs) /\ (sz_tot # 0 => Len(pivs) = 1 /\ Len(pivs[1]) = NbRanks - 1)
  <2>1. CASE sz_tot = 0
    BY <2>1, EmptyVector
  <2>2. CASE sz_tot # 0
    <3> HIDE DEF piv
    <3>1. IsVector(<<piv>>) /\ Len(<<piv>>) = 1 /\ <<piv>>[1] = piv
      BY DEF IsVector
    <3> QED
      BY <1>5, <2>2, <3>1 DEF PivotsOK
  <2> QED
    BY <2>1, <2>2
<1> HIDE DEF piv, pivs
<1>7. SortTypeOK'
  BY <1>1, <1>3, <1>4 DEF SortInv, SortTypeOK
<1>8. ASSUME NEW r \in AllRanks
      PROVE  RankTypeOK(r)' /\ RankLoopOK(r)'
  <2>1. RankTypeOK(r) /\ RankLoopOK(r)
    BY DEF SortInv
  <2>2. pc'[r] = "partition once" /\ pivots'[r] = pivs
    BY <1>1, <1>3
  <2>3. RankTypeOK(r)'
    <3>1. pc'[r] \in Stages
      BY <2>2 DEF Stages, Once
    <3> QED
      BY <1>1, <1>6, <2>1, <2>2, <3>1 DEF RankTypeOK
  <2>4. RankLoopOK(r)'
    <3>1. i'[r] = 1
      BY <1>1, <2>1 DEF RankLoopOK, Once
    <3>2. /\ pc'[r] \notin Inner
          /\ pc'[r] \notin {"sample", "gather"}
          /\ pc'[r] \notin {"partition", "reduce", "narrow"}
          /\ pc'[r] \notin {"reduce once", "narrow once"}
          /\ pc'[r] \notin {"narrow once", "narrow"}
          /\ pc'[r] \notin {"reduce once", "reduce"}
      BY <2>2 DEF Inner
    <3> QED
      BY <1>4, <1>6, <2>2, <3>1, <3>2 DEF RankLoopOK
  <2> QED
    BY <2>3, <2>4
<1>9. ASSUME NEW r \in AllRanks, NEW q \in AllRanks
      PROVE  Coming(r)' = Coming(q)'
  <2>1. pc[r] \in Collective /\ pc[q] \in Collective
    BY <1>1 DEF Collective
  <2>2. /\ i[r] = i[q] /\ n_iter[r] = n_iter[q]
        /\ Outline(sub_ins[r]) = Outline(sub_ins[q])
        /\ Outline(new_sub_ins[r]) = Outline(new_sub_ins[q])
    BY <2>1, AgreeFact
  <2>3. ASSUME NEW p \in AllRanks
        PROVE  Coming(p)' = At("reduce once", i[p], n_iter[p], <<>>, sub_ins[p], new_sub_ins[p], NbRanks + 1)
    <3>1. pc'[p] = "partition once"
      BY <1>1
    <3>2. Coming(p)' = At("reduce once", i'[p], n_iter'[p], <<>>, sub_ins'[p], new_sub_ins'[p], NbRanks' + 1)
      BY <3>1 DEF Coming, At
    <3> QED
      BY <1>1, <1>4, <3>2
  <2> QED
    BY <2>2, <2>3 DEF At
<1> QED
  BY <1>1, <1>7, <1>8, <1>9, CollectiveStep

ReduceOnce == Reduce("reduce once", "narrow once")
ReduceSub == Reduce("reduce", "narrow")
Reducing == {"reduce once", "reduce"}

LEMMA HeadFact ==
  ASSUME NEW n, NEW new, NEW other, NEW ns, NEW os, IsVector(new), IsVector(other),
         Outline(new) = Outline(other), Outline(ns) = Outline(os)
  PROVE  AtLoopHead(n, new, ns) = AtLoopHead(n, other, os)
<1>1. new = <<>> <=> other = <<>>
  BY OutlineFact
<1> QED
  BY <1>1 DEF AtLoopHead, LoopHead, At

\* all_reduce, before the first narrowing and before the other ones.
LEMMA ReduceFact ==
  ASSUME SortInv, \A q \in AllRanks : pc[q] \in Reducing
  PROVE  Len(AllReduce(partition)) \in Nat
<1>1. NbRanks \in Nat \ {0} /\ 1 \in AllRanks
  BY DEF SortInv, SortTypeOK, AllRanks
<1>2. Len(partition[1]) \in Nat
  BY <1>1 DEF SortInv, RankLoopOK, Reducing
<1> QED
  BY <1>2, LengthsFact

\* What a rank is left with, from the sums it gets.
LEMMA NewNext ==
  ASSUME UNCHANGED inVars, NEW p, NEW T, tot'[p] = T, partition'[p] = partition[p],
         i'[p] = i[p], sub_ins'[p] = sub_ins[p], new_sub_ins'[p] = new_sub_ins[p]
  PROVE  /\ NewOnce(p)' = <<>> \o SubIntervals(ObjectiveTicks(0, NbRanks - 1), T, partition[p], 0, FALSE)
         /\ NewSub(p)' = new_sub_ins[p] \o
              SubIntervals(ObjectiveTicks(Sub(p).position, Sub(p).n_tick), T, partition[p],
                           Sub(p).position, TRUE)
         /\ IsLast(p)' = IsLast(p)
<1>1. UNCHANGED <<shape, x, shift, sz_tot>>
  BY DEF inVars
<1> QED
  BY <1>1 DEF NewOnce, NewSub, IsLast, Sub, SubIntervals, ObjectiveTicks, NbRanks

\* The outlines of what the ranks are left with are the same.
LEMMA NewOutline ==
  ASSUME NEW before, NEW after, NEW one, NEW two,
         IsVector(before), IsVector(after), Outline(before) = Outline(after),
         SubsOK(one), SubsOK(two), Outline(one) = Outline(two)
  PROVE  /\ IsVector(before \o one) /\ IsVector(after \o two)
         /\ Outline(before \o one) = Outline(after \o two)
<1>1. IsVector(one) /\ IsVector(two)
  BY DEF SubsOK
<1>2. IsVector(before \o one) /\ IsVector(after \o two)
  BY <1>1, ConcatVectors
<1>3. Outline(before \o one) = Outline(after \o two)
  BY <1>1, OutlineConcat
<1> QED
  BY <1>2, <1>3

LEMMA SortReduceOnce == ASSUME SortInv, ReduceOnce PROVE SortInv'
<1> DEFINE T == AllReduce(partition)
           Ticks == ObjectiveTicks(0, NbRanks - 1)
           New(p) == <<>> \o SubIntervals(Ticks, T, partition[p], 0, FALSE)
<1>1. /\ UNCHANGED <<inVars, i, n_iter, sub_ins, new_sub_ins, partition, pivots>>
      /\ \A r \in AllRanks : pc[r] = "reduce once"
      /\ pc' = [r \in AllRanks |-> "narrow once"]
      /\ tot' = [r \in AllRanks |-> T]
  BY DEF ReduceOnce, Reduce, loopVars, AllAt, OnEach
<1> HIDE DEF T, Ticks, New
<1>2. NbRanks \in Nat \ {0} /\ NbRanks' = NbRanks /\ AllRanks' = AllRanks /\ sz_tot' = sz_tot
  BY <1>1 DEF SortInv, SortTypeOK, NbRanks, AllRanks, inVars
<1>3. Len(T) \in Nat
  <2>1. \A q \in AllRanks : pc[q] \in Reducing
    BY <1>1 DEF Reducing
  <2> QED
    BY <2>1, ReduceFact DEF T
<1>4. Len(Ticks) \in Nat
  <2>1. NbRanks - 1 \in Nat
    BY <1>2
  <2> QED
    BY <2>1, LengthsFact DEF Ticks
<1>5. SortTypeOK'
  BY <1>1, <1>2 DEF SortInv, SortTypeOK
<1>6. ASSUME NEW r \in AllRanks
      PROVE  RankTypeOK(r)' /\ RankLoopOK(r)'
  <2>1. RankTypeOK(r) /\ RankLoopOK(r) /\ pc[r] = "reduce once"
    BY <1>1 DEF SortInv
  <2>2. pc'[r] = "narrow once" /\ tot'[r] = T
    BY <1>1
  <2>3. RankTypeOK(r)'
    <3>1. pc'[r] \in Stages
      BY <2>2 DEF Stages, Once
    <3> QED
      BY <1>1, <2>1, <3>1 DEF RankTypeOK
  <2>4. RankLoopOK(r)'
    <3>1. i'[r] = 1 /\ pivots'[r] = <<>>
      BY <1>1, <2>1 DEF RankLoopOK, Once
    <3>2. /\ pc'[r] \notin Inner /\ pc'[r] # "partition once"
          /\ pc'[r] \notin {"sample", "gather"}
          /\ pc'[r] \notin {"partition", "reduce", "narrow"}
          /\ pc'[r] \notin {"reduce once", "reduce"}
      BY <2>2 DEF Inner
    <3> QED
      BY <1>3, <2>2, <3>1, <3>2 DEF RankLoopOK
  <2> QED
    BY <2>3, <2>4
<1>7. ASSUME NEW p \in AllRanks
      PROVE  Coming(p)' = AtLoopHead(n_iter[p], New(p), new_sub_ins[p])
  <2>1. pc'[p] = "narrow once" /\ tot'[p] = T
    BY <1>1
  <2>2. NewOnce(p)' = New(p)
    <3>1. UNCHANGED inVars /\ partition'[p] = partition[p] /\ i'[p] = i[p]
          /\ sub_ins'[p] = sub_ins[p] /\ new_sub_ins'[p] = new_sub_ins[p]
      BY <1>1
    <3>2. NewOnce(p)' = <<>> \o SubIntervals(ObjectiveTicks(0, NbRanks - 1), T, partition[p], 0, FALSE)
      BY <2>1, <3>1, NewNext
    <3> QED
      BY <3>2 DEF New, Ticks
  <2>3. Coming(p)' = AtLoopHead(n_iter[p], NewOnce(p), new_sub_ins[p])'
    BY <2>1 DEF Coming
  <2>4. AtLoopHead(n_iter[p], NewOnce(p), new_sub_ins[p])'
          = AtLoopHead(n_iter[p], New(p), new_sub_ins[p])
    BY <1>1, <2>2 DEF AtLoopHead, LoopHead, At, inVars
  <2> QED
    BY <2>3, <2>4
<1>8. ASSUME NEW r \in AllRanks, NEW q \in AllRanks
      PROVE  IsVector(New(r)) /\ IsVector(New(q)) /\ Outline(New(r)) = Outline(New(q))
  <2> DEFINE e == <<>>
             S(p) == SubIntervals(Ticks, T, partition[p], 0, FALSE)
  <2>1. IsVector(e) /\ Outline(e) = Outline(e)
    BY EmptyVector
  <2>2. New(r) = e \o S(r) /\ New(q) = e \o S(q)
    BY DEF New
  <2>3. SubsOK(S(r)) /\ SubsOK(S(q)) /\ Outline(S(r)) = Outline(S(q))
    BY <1>3, <1>4, SubIntervalsFact
  <2> HIDE DEF e, S
  <2> QED
    BY <2>1, <2>2, <2>3, NewOutline
<1>9. ASSUME NEW r \in AllRanks, NEW q \in AllRanks
      PROVE  Coming(r)' = Coming(q)'
  <2>1. pc[r] \in Collective /\ pc[q] \in Collective
    BY <1>1 DEF Collective
  <2>2. n_iter[r] = n_iter[q] /\ Outline(new_sub_ins[r]) = Outline(new_sub_ins[q])
    BY <2>1, AgreeFact
  <2>3. IsVector(New(r)) /\ IsVector(New(q)) /\ Outline(New(r)) = Outline(New(q))
    BY <1>8
  <2>4. AtLoopHead(n_iter[r], New(r), new_sub_ins[r]) = AtLoopHead(n_iter[r], New(q), new_sub_ins[q])
    BY <2>2, <2>3, HeadFact
  <2> QED
    BY <1>7, <2>2, <2>4
<1> QED
  BY <1>1, <1>5, <1>6, <1>9, CollectiveStep

\* The ranks are at sub-intervals of the same ticks.
LEMMA SubFact ==
  ASSUME SortInv, NEW r \in AllRanks, NEW q \in AllRanks, pc[r] = pc[q],
         pc[r] = "gather" \/ pc[r] = "reduce"
  PROVE  /\ Sub(r).n_tick = Sub(q).n_tick /\ Sub(r).position = Sub(q).position
         /\ Sub(r).n_tick \in Nat /\ (IsLast(r) <=> IsLast(q))
         /\ i[r] \in 1 .. Len(sub_ins[r]) /\ Len(sub_ins[r]) \in Nat
<1>1. pc[r] \in Collective /\ pc[q] \in Collective /\ pc[r] \in Inner
  BY DEF Collective, Inner
<1>2. /\ i[r] = i[q] /\ Len(sub_ins[r]) = Len(sub_ins[q])
      /\ \A s \in 1 .. Len(sub_ins[r]) :
           /\ sub_ins[r][s].n_tick = sub_ins[q][s].n_tick
           /\ sub_ins[r][s].position = sub_ins[q][s].position
  BY <1>1, AgreeFact
<1>3. i[r] \in 1 .. Len(sub_ins[r])
  BY <1>1 DEF SortInv, RankLoopOK
<1>4. sub_ins[r][i[r]].n_tick \in Nat /\ Len(sub_ins[r]) \in Nat
  BY <1>3 DEF SortInv, RankTypeOK, SubsOK, IsVector
<1> QED
  BY <1>2, <1>3, <1>4 DEF Sub, IsLast

LEMMA SortReduceSub == ASSUME SortInv, ReduceSub PROVE SortInv'
<1> DEFINE T == AllReduce(partition)
           Ticks(p) == ObjectiveTicks(Sub(p).position, Sub(p).n_tick)
           New(p) == new_sub_ins[p] \o SubIntervals(Ticks(p), T, partition[p], Sub(p).position, TRUE)
<1>1. /\ UNCHANGED <<inVars, i, n_iter, sub_ins, new_sub_ins, partition, pivots>>
      /\ \A r \in AllRanks : pc[r] = "reduce"
      /\ pc' = [r \in AllRanks |-> "narrow"]
      /\ tot' = [r \in AllRanks |-> T]
  BY DEF ReduceSub, Reduce, loopVars, AllAt, OnEach
<1> HIDE DEF T, Ticks, New
<1>2. NbRanks \in Nat \ {0} /\ NbRanks' = NbRanks /\ AllRanks' = AllRanks
  BY <1>1 DEF SortInv, SortTypeOK, NbRanks, AllRanks, inVars
<1>3. Len(T) \in Nat
  <2>1. \A q \in AllRanks : pc[q] \in Reducing
    BY <1>1 DEF Reducing
  <2> QED
    BY <2>1, ReduceFact DEF T
<1>4. \A r \in AllRanks, q \in AllRanks :
        /\ Sub(r).n_tick = Sub(q).n_tick /\ Sub(r).position = Sub(q).position
        /\ Sub(r).n_tick \in Nat /\ (IsLast(r) <=> IsLast(q))
        /\ i[r] \in 1 .. Len(sub_ins[r]) /\ Len(sub_ins[r]) \in Nat
  BY <1>1, SubFact
<1>5. SortTypeOK'
  BY <1>1, <1>2 DEF SortInv, SortTypeOK
<1>6. ASSUME NEW r \in AllRanks
      PROVE  RankTypeOK(r)' /\ RankLoopOK(r)'
  <2>1. RankTypeOK(r) /\ RankLoopOK(r) /\ pc[r] = "reduce"
    BY <1>1 DEF SortInv
  <2>2. pc'[r] = "narrow" /\ tot'[r] = T
    BY <1>1
  <2>3. RankTypeOK(r)'
    <3>1. pc'[r] \in Stages
      BY <2>2 DEF Stages, Inner
    <3> QED
      BY <1>1, <2>1, <3>1 DEF RankTypeOK
  <2>4. RankLoopOK(r)'
    <3>1. i'[r] \in 1 .. Len(sub_ins'[r])
      BY <1>1, <1>4
    <3>2. Len(pivots'[r]) = Len(sub_ins'[r])
      BY <1>1, <2>1 DEF RankLoopOK
    <3>3. /\ pc'[r] \notin Once /\ pc'[r] # "partition once"
          /\ pc'[r] \notin {"sample", "gather"}
          /\ pc'[r] \notin {"reduce once", "narrow once"}
          /\ pc'[r] \notin {"reduce once", "reduce"}
      BY <2>2 DEF Once
    <3> QED
      BY <1>3, <2>2, <3>1, <3>2, <3>3 DEF RankLoopOK
  <2> QED
    BY <2>3, <2>4
<1>7. ASSUME NEW p \in AllRanks
      PROVE  Coming(p)' = IF IsLast(p) THEN AtLoopHead(n_iter[p], New(p), <<>>)
                          ELSE At("reduce", i[p] + 1, n_iter[p], pivots[p], sub_ins[p], New(p),
                                  2 * Len(pivots[p][i[p] + 1]) + 2)
  <2>1. pc'[p] = "narrow" /\ tot'[p] = T
    BY <1>1
  <2>2. /\ UNCHANGED inVars /\ partition'[p] = partition[p] /\ i'[p] = i[p]
        /\ sub_ins'[p] = sub_ins[p] /\ new_sub_ins'[p] = new_sub_ins[p]
        /\ n_iter'[p] = n_iter[p] /\ pivots'[p] = pivots[p]
    BY <1>1
  <2>3. NewSub(p)' = New(p) /\ IsLast(p)' = IsLast(p)
    <3>1. /\ NewSub(p)' = new_sub_ins[p] \o
               SubIntervals(ObjectiveTicks(Sub(p).position, Sub(p).n_tick), T, partition[p],
                            Sub(p).position, TRUE)
          /\ IsLast(p)' = IsLast(p)
      BY <2>1, <2>2, NewNext
    <3> QED
      BY <3>1 DEF New, Ticks
  <2>4. Coming(p)' = (IF IsLast(p) THEN AtLoopHead(n_iter[p], NewSub(p), <<>>)
                      ELSE At("reduce", i[p] + 1, n_iter[p], pivots[p], sub_ins[p], NewSub(p),
                              2 * Len(pivots[p][i[p] + 1]) + 2))'
    BY <2>1 DEF Coming
  <2>5. CASE IsLast(p)
    BY <2>2, <2>3, <2>4, <2>5 DEF AtLoopHead, LoopHead, At, inVars
  <2>6. CASE ~ IsLast(p)
    BY <2>2, <2>3, <2>4, <2>6 DEF At
  <2> QED
    BY <2>5, <2>6
<1>8. ASSUME NEW r \in AllRanks, NEW q \in AllRanks
      PROVE  IsVector(New(r)) /\ IsVector(New(q)) /\ Outline(New(r)) = Outline(New(q))
  <2> DEFINE position == Sub(r).position
             ticks == Ticks(r)
             S(p) == SubIntervals(ticks, T, partition[p], position, TRUE)
  <2>1. New(r) = new_sub_ins[r] \o S(r) /\ New(q) = new_sub_ins[q] \o S(q)
    BY <1>4 DEF New, Ticks
  <2>2. Len(ticks) \in Nat
    BY <1>4, LengthsFact DEF Ticks
  <2>3. SubsOK(S(r)) /\ SubsOK(S(q)) /\ Outline(S(r)) = Outline(S(q))
    <3> HIDE DEF ticks, position
    <3> QED
      BY <1>3, <2>2, SubIntervalsFact
  <2> HIDE DEF S
  <2>4. IsVector(new_sub_ins[r]) /\ IsVector(new_sub_ins[q])
    BY DEF SortInv, RankTypeOK, SubsOK
  <2>5. Outline(new_sub_ins[r]) = Outline(new_sub_ins[q])
    <3>1. pc[r] \in Collective /\ pc[q] \in Collective
      BY <1>1 DEF Collective
    <3> QED
      BY <3>1, AgreeFact
  <2> QED
    BY <2>1, <2>3, <2>4, <2>5, NewOutline
<1>9. ASSUME NEW r \in AllRanks, NEW q \in AllRanks
      PROVE  Coming(r)' = Coming(q)'
  <2>1. pc[r] \in Collective /\ pc[q] \in Collective
    BY <1>1 DEF Collective
  <2>2. /\ n_iter[r] = n_iter[q] /\ i[r] = i[q] /\ pivots[r] = pivots[q]
        /\ Outline(sub_ins[r]) = Outline(sub_ins[q])
    BY <2>1, AgreeFact
  <2>3. IsVector(New(r)) /\ IsVector(New(q)) /\ Outline(New(r)) = Outline(New(q))
    BY <1>8
  <2>4. IsLast(r) <=> IsLast(q)
    BY <1>4
  <2>5. CASE IsLast(r)
    <3>1. AtLoopHead(n_iter[r], New(r), <<>>) = AtLoopHead(n_iter[r], New(q), <<>>)
      BY <2>3, HeadFact
    <3> QED
      BY <1>7, <2>2, <2>4, <2>5, <3>1
  <2>6. CASE ~ IsLast(r)
    <3>1. /\ Coming(r)' = At("reduce", i[r] + 1, n_iter[r], pivots[r], sub_ins[r], New(r),
                             2 * Len(pivots[r][i[r] + 1]) + 2)
          /\ Coming(q)' = At("reduce", i[q] + 1, n_iter[q], pivots[q], sub_ins[q], New(q),
                             2 * Len(pivots[q][i[q] + 1]) + 2)
      BY <1>7, <2>4, <2>6
    <3> QED
      BY <2>2, <2>3, <3>1 DEF At
  <2> QED
    BY <2>5, <2>6
<1> QED
  BY <1>1, <1>5, <1>6, <1>9, CollectiveStep

LEMMA SortGatherSub == ASSUME SortInv, GatherSub PROVE SortInv'
<1> DEFINE piv(p) == PivotsOf(Gathered(1), Sub(p).n_tick)
           pivs(p) == Append(pivots[p], piv(p))
<1>1. /\ UNCHANGED <<inVars, n_iter, sub_ins, new_sub_ins, partition, tot>>
      /\ \A r \in AllRanks : pc[r] = "gather"
      /\ pc' = [r \in AllRanks |-> IF IsLast(r) THEN "partition" ELSE "sample"]
      /\ i' = [r \in AllRanks |-> IF IsLast(r) THEN 1 ELSE i[r] + 1]
  BY DEF GatherSub, AllAt
<1>2. \A r : Gathered(r) = Gathered(1)
  BY DEF Gathered
<1>3. pivots' = [r \in AllRanks |-> pivs(r)]
  <2>1. pivots' = [r \in AllRanks |-> Append(pivots[r], PivotsOf(Gathered(r), Sub(r).n_tick))]
    BY DEF GatherSub
  <2> QED
    BY <1>2, <2>1
<1> HIDE DEF piv, pivs
<1>4. NbRanks \in Nat \ {0} /\ NbRanks' = NbRanks /\ AllRanks' = AllRanks /\ sz_tot' = sz_tot
  BY <1>1 DEF SortInv, SortTypeOK, NbRanks, AllRanks, inVars
<1>5. \A r \in AllRanks, q \in AllRanks :
        /\ Sub(r).n_tick = Sub(q).n_tick /\ Sub(r).position = Sub(q).position
        /\ Sub(r).n_tick \in Nat /\ (IsLast(r) <=> IsLast(q))
        /\ i[r] \in 1 .. Len(sub_ins[r]) /\ Len(sub_ins[r]) \in Nat
  BY <1>1, SubFact
<1>6. ASSUME NEW r \in AllRanks
      PROVE  PivotsOK(pivs(r)) /\ Len(pivs(r)) = i[r]
  <2>1. Len(piv(r)) \in Nat
    BY <1>5, LengthsFact DEF piv
  <2>2. PivotsOK(pivots[r]) /\ Len(pivots[r]) = i[r] - 1
    BY <1>1 DEF SortInv, RankTypeOK, RankLoopOK
  <2>3. IsVector(pivots[r])
    BY <2>2 DEF PivotsOK
  <2>4. /\ IsVector(pivs(r)) /\ Len(pivs(r)) = Len(pivots[r]) + 1
        /\ \A m \in 1 .. Len(pivots[r]) : pivs(r)[m] = pivots[r][m]
        /\ pivs(r)[Len(pivots[r]) + 1] = piv(r)
    BY <2>3, AppendVector DEF pivs
  <2>5. i[r] \in Nat
    BY <1>5
  <2>6. ASSUME NEW m \in 1 .. Len(pivs(r)) PROVE Len(pivs(r)[m]) \in Nat
    <3>1. Len(pivs(r)) = i[r]
      BY <2>2, <2>4, <2>5
    <3>2. m \in 1 .. Len(pivots[r]) \/ m = Len(pivots[r]) + 1
      BY <2>2, <2>5, <3>1
    <3>3. CASE m \in 1 .. Len(pivots[r])
      BY <2>2, <2>4, <3>3 DEF PivotsOK
    <3>4. CASE m = Len(pivots[r]) + 1
      BY <2>1, <2>4, <3>4
    <3> QED
      BY <3>2, <3>3, <3>4
  <2> QED
    BY <2>2, <2>4, <2>5, <2>6 DEF PivotsOK
<1>7. SortTypeOK'
  BY <1>1, <1>3, <1>4 DEF SortInv, SortTypeOK
<1>8. ASSUME NEW r \in AllRanks
      PROVE  \/ IsLast(r) /\ pc'[r] = "partition" /\ i'[r] = 1
             \/ ~ IsLast(r) /\ pc'[r] = "sample" /\ i'[r] = i[r] + 1
  BY <1>1
<1>9. ASSUME NEW r \in AllRanks
      PROVE  i'[r] \in 1 .. Len(sub_ins[r]) /\ (~ IsLast(r) => Len(pivs(r)) = i'[r] - 1)
             /\ (IsLast(r) => Len(pivs(r)) = Len(sub_ins[r]))
  <2>1. i[r] \in 1 .. Len(sub_ins[r]) /\ Len(sub_ins[r]) \in Nat /\ Len(pivs(r)) = i[r]
    BY <1>5, <1>6
  <2>2. CASE IsLast(r)
    BY <1>8, <2>1, <2>2 DEF IsLast
  <2>3. CASE ~ IsLast(r)
    BY <1>8, <2>1, <2>3 DEF IsLast
  <2> QED
    BY <2>2, <2>3
<1>10. ASSUME NEW r \in AllRanks
       PROVE  RankTypeOK(r)' /\ RankLoopOK(r)'
  <2>1. RankTypeOK(r)
    BY DEF SortInv
  <2>2. /\ pivots'[r] = pivs(r) /\ sub_ins'[r] = sub_ins[r]
        /\ new_sub_ins'[r] = new_sub_ins[r] /\ n_iter'[r] = n_iter[r]
    BY <1>1, <1>3
  <2>3. RankTypeOK(r)'
    <3>1. pc'[r] \in Stages
      BY <1>8 DEF Stages, Inner
    <3>2. i'[r] \in Nat
      BY <1>5, <1>9
    <3> QED
      BY <1>6, <2>1, <2>2, <3>1, <3>2 DEF RankTypeOK
  <2>4. RankLoopOK(r)'
    <3>1. /\ pc'[r] \notin Once /\ pc'[r] # "partition once"
          /\ pc'[r] \notin {"reduce once", "narrow once"}
          /\ pc'[r] \notin {"narrow once", "narrow"}
          /\ pc'[r] \notin {"reduce once", "reduce"}
      BY <1>8 DEF Once
    <3>2. CASE IsLast(r)
      <4>1. pc'[r] \notin {"sample", "gather"}
        BY <1>8, <3>2
      <4> QED
        BY <1>9, <2>2, <3>1, <3>2, <4>1 DEF RankLoopOK
    <3>3. CASE ~ IsLast(r)
      <4>1. pc'[r] \notin {"partition", "reduce", "narrow"}
        BY <1>8, <3>3
      <4> QED
        BY <1>9, <2>2, <3>1, <3>3, <4>1 DEF RankLoopOK
    <3> QED
      BY <3>2, <3>3
  <2> QED
    BY <2>3, <2>4
<1>11. ASSUME NEW p \in AllRanks
       PROVE  Coming(p)' = IF IsLast(p)
                THEN At("reduce", 1, n_iter[p], pivs(p), sub_ins[p], new_sub_ins[p],
                        2 * Len(pivs(p)[1]) + 2)
                ELSE At("gather", i[p] + 1, n_iter[p], pivs(p), sub_ins[p], new_sub_ins[p],
                        Len(partition[p]))
  <2>1. /\ pivots'[p] = pivs(p) /\ sub_ins'[p] = sub_ins[p] /\ partition'[p] = partition[p]
        /\ new_sub_ins'[p] = new_sub_ins[p] /\ n_iter'[p] = n_iter[p]
    BY <1>1, <1>3
  <2>2. CASE IsLast(p)
    <3>1. pc'[p] = "partition" /\ i'[p] = 1
      BY <1>8, <2>2
    <3>2. Coming(p)' = At("reduce", i'[p], n_iter'[p], pivots'[p], sub_ins'[p], new_sub_ins'[p],
                          2 * Len(pivots'[p][i'[p]]) + 2)
      BY <3>1 DEF Coming, At
    <3> QED
      BY <2>1, <2>2, <3>1, <3>2
  <2>3. CASE ~ IsLast(p)
    <3>1. pc'[p] = "sample" /\ i'[p] = i[p] + 1
      BY <1>8, <2>3
    <3>2. /\ pc'[p] # "partition once" /\ pc'[p] # "narrow once" /\ pc'[p] # "partition"
          /\ pc'[p] # "narrow" /\ NextOf(pc'[p]) = "gather"
      BY <3>1 DEF NextOf
    <3>3. Coming(p)' = At(NextOf(pc'[p]), i'[p], n_iter'[p], pivots'[p], sub_ins'[p],
                          new_sub_ins'[p], Len(partition'[p]))
      BY <3>2, StopNext
    <3> QED
      BY <2>1, <2>3, <3>1, <3>2, <3>3
  <2> QED
    BY <2>2, <2>3
<1>12. ASSUME NEW r \in AllRanks, NEW q \in AllRanks
       PROVE  Coming(r)' = Coming(q)'
  <2>1. pc[r] \in Collective /\ pc[q] \in Collective
    BY <1>1 DEF Collective
  <2>2. /\ n_iter[r] = n_iter[q] /\ i[r] = i[q] /\ pivots[r] = pivots[q]
        /\ Outline(sub_ins[r]) = Outline(sub_ins[q])
        /\ Outline(new_sub_ins[r]) = Outline(new_sub_ins[q])
        /\ Len(partition[r]) = Len(partition[q])
    BY <2>1, AgreeFact
  <2>3. pivs(r) = pivs(q) /\ (IsLast(r) <=> IsLast(q))
    BY <1>5, <2>2 DEF piv, pivs
  <2>4. CASE IsLast(r)
    <3>1. /\ Coming(r)' = At("reduce", 1, n_iter[r], pivs(r), sub_ins[r], new_sub_ins[r],
                             2 * Len(pivs(r)[1]) + 2)
          /\ Coming(q)' = At("reduce", 1, n_iter[q], pivs(q), sub_ins[q], new_sub_ins[q],
                             2 * Len(pivs(q)[1]) + 2)
      BY <1>11, <2>3, <2>4
    <3> QED
      BY <2>2, <2>3, <3>1 DEF At
  <2>5. CASE ~ IsLast(r)
    <3>1. /\ Coming(r)' = At("gather", i[r] + 1, n_iter[r], pivs(r), sub_ins[r], new_sub_ins[r],
                             Len(partition[r]))
          /\ Coming(q)' = At("gather", i[q] + 1, n_iter[q], pivs(q), sub_ins[q], new_sub_ins[q],
                             Len(partition[q]))
      BY <1>11, <2>3, <2>5
    <3> QED
      BY <2>2, <2>3, <3>1 DEF At
  <2> QED
    BY <2>4, <2>5
<1> QED
  BY <1>1, <1>7, <1>10, <1>12, CollectiveStep

LEMMA SortExchange == ASSUME SortInv, Exchange PROVE SortInv'
<1>1. /\ UNCHANGED <<inVars, i, n_iter, sub_ins, new_sub_ins, partition, pivots, tot>>
      /\ \A r \in AllRanks : pc[r] = "exchange"
      /\ pc' = [r \in AllRanks |-> "local sort"]
  BY DEF Exchange, loopVars, AllAt
<1>2. NbRanks' = NbRanks /\ AllRanks' = AllRanks
  BY <1>1 DEF NbRanks, AllRanks, inVars
<1>3. SortTypeOK'
  BY <1>1, <1>2 DEF SortInv, SortTypeOK
<1>4. ASSUME NEW r \in AllRanks
      PROVE  RankTypeOK(r)' /\ RankLoopOK(r)'
  <2>1. RankTypeOK(r) /\ RankLoopOK(r)
    BY DEF SortInv
  <2>2. pc'[r] = "local sort"
    BY <1>1
  <2>3. RankTypeOK(r)'
    <3>1. pc'[r] \in Stages
      BY <2>2 DEF Stages
    <3> QED
      BY <1>1, <2>1, <3>1 DEF RankTypeOK
  <2>4. RankLoopOK(r)'
    BY <2>2 DEF RankLoopOK, Once, Inner
  <2> QED
    BY <2>3, <2>4
<1>5. ASSUME NEW r \in AllRanks, NEW q \in AllRanks
      PROVE  Coming(r)' = Coming(q)'
  <2>1. pc[r] \in Collective /\ pc[q] \in Collective
    BY <1>1 DEF Collective
  <2>2. /\ i[r] = i[q] /\ n_iter[r] = n_iter[q] /\ pivots[r] = pivots[q]
        /\ Len(partition[r]) = Len(partition[q])
        /\ Outline(sub_ins[r]) = Outline(sub_ins[q])
        /\ Outline(new_sub_ins[r]) = Outline(new_sub_ins[q])
    BY <2>1, AgreeFact
  <2>3. ASSUME NEW p \in AllRanks
        PROVE  Coming(p)' = At("done", i[p], n_iter[p], pivots[p], sub_ins[p], new_sub_ins[p],
                               Len(partition[p]))
    <3>1. /\ pc'[p] # "partition once" /\ pc'[p] # "narrow once" /\ pc'[p] # "partition"
          /\ pc'[p] # "narrow" /\ NextOf(pc'[p]) = "done"
      BY <1>1 DEF NextOf
    <3>2. Coming(p)' = At(NextOf(pc'[p]), i'[p], n_iter'[p], pivots'[p], sub_ins'[p], new_sub_ins'[p],
                          Len(partition'[p]))
      BY <3>1, StopNext
    <3> QED
      BY <1>1, <3>1, <3>2
  <2> QED
    BY <2>2, <2>3 DEF At
<1> QED
  BY <1>1, <1>3, <1>4, <1>5, CollectiveStep

----------------------------------------------------------------------------
LEMMA SortStarts == SortInit => SortInv
<1> SUFFICES ASSUME SortInit PROVE SortInv
  OBVIOUS
<1>1. NbRanks \in Nat \ {0}
  BY SortAssumption DEF SortInit, NbRanks
<1>2. /\ pc = [r \in AllRanks |-> "sample once"] /\ n_iter = [r \in AllRanks |-> 0]
      /\ i = [r \in AllRanks |-> 1] /\ sub_ins = [r \in AllRanks |-> <<>>]
      /\ new_sub_ins = [r \in AllRanks |-> <<>>] /\ pivots = [r \in AllRanks |-> <<>>]
      /\ partition = [r \in AllRanks |-> <<>>] /\ tot = [r \in AllRanks |-> <<>>]
  BY DEF SortInit, OnEach
<1>3. SortTypeOK
  BY <1>1, <1>2 DEF SortTypeOK
<1>4. ASSUME NEW r \in AllRanks
      PROVE  RankTypeOK(r) /\ RankLoopOK(r)
  <2>1. /\ pc[r] = "sample once" /\ n_iter[r] = 0 /\ i[r] = 1 /\ sub_ins[r] = <<>>
        /\ new_sub_ins[r] = <<>> /\ pivots[r] = <<>>
    BY <1>2
  <2>2. RankTypeOK(r)
    <3>1. pc[r] \in Stages
      BY <2>1 DEF Stages, Once
    <3>2. i[r] \in Nat /\ n_iter[r] \in Nat
      <4>1. i[r] = 1 /\ n_iter[r] = 0
        BY <2>1
      <4> QED
        BY <4>1
    <3>3. SubsOK(sub_ins[r]) /\ SubsOK(new_sub_ins[r]) /\ PivotsOK(pivots[r])
      BY <2>1, EmptyVector
    <3> QED
      BY <3>1, <3>2, <3>3 DEF RankTypeOK
  <2>3. RankLoopOK(r)
    BY <2>1 DEF RankLoopOK, Inner
  <2> QED
    BY <2>2, <2>3
<1>5. ASSUME NEW r \in AllRanks
      PROVE  Coming(r) = At("gather once", 1, 0, <<>>, <<>>, <<>>, Len(<<>>))
  <2>1. /\ pc[r] = "sample once" /\ n_iter[r] = 0 /\ i[r] = 1 /\ sub_ins[r] = <<>>
        /\ new_sub_ins[r] = <<>> /\ pivots[r] = <<>> /\ partition[r] = <<>>
    BY <1>2
  <2>2. /\ pc[r] # "partition once" /\ pc[r] # "narrow once" /\ pc[r] # "partition"
        /\ pc[r] # "narrow" /\ NextOf(pc[r]) = "gather once"
    BY <2>1 DEF NextOf
  <2>3. Coming(r) = At(NextOf(pc[r]), i[r], n_iter[r], pivots[r], sub_ins[r], new_sub_ins[r],
                       Len(partition[r]))
    BY <2>2 DEF Coming
  <2> QED
    BY <2>1, <2>2, <2>3
<1>6. AgreeInv
  BY <1>5 DEF AgreeInv
<1> QED
  BY <1>3, <1>4, <1>6 DEF SortInv

LEMMA SortStutters == ASSUME SortInv, UNCHANGED sortVars PROVE SortInv'
<1>1. UNCHANGED <<inVars, pc, i, n_iter, sub_ins, new_sub_ins, pivots, partition, tot>>
  BY DEF sortVars, loopVars
<1>2. AllRanks' = AllRanks /\ SortTypeOK'
  BY <1>1 DEF AllRanks, NbRanks, inVars, SortInv, SortTypeOK
<1>3. ASSUME NEW q \in AllRanks
      PROVE  RankTypeOK(q)' /\ RankLoopOK(q)' /\ Coming(q)' = Coming(q)
  <2>1. SameOf(q)
    BY <1>1 DEF SameOf
  <2>2. RankTypeOK(q) /\ RankLoopOK(q)
    BY DEF SortInv
  <2> QED
    BY <1>1, <2>1, <2>2, Unmoved
<1>4. \A r, q \in AllRanks : Coming(r)' = Coming(q)'
  BY <1>3 DEF SortInv, AgreeInv
<1> QED
  BY <1>1, <1>2, <1>3, <1>4, CollectiveStep

\* Every step of a rank by itself, and every collective operation.
LEMMA SortSteps == SortInv /\ [SortNext]_sortVars => SortInv'
<1> SUFFICES ASSUME SortInv, [SortNext]_sortVars PROVE SortInv'
  OBVIOUS
<1>1. ASSUME NEW r \in AllRanks, SampleOnce(r) \/ SampleSub(r) \/ LocalSort(r) PROVE SortInv'
  BY <1>1, SortSample
<1>2. ASSUME NEW r \in AllRanks, PartitionOnce(r) PROVE SortInv'
  BY <1>2, SortPartitionOnce
<1>3. ASSUME NEW r \in AllRanks, NarrowOnce(r) PROVE SortInv'
  BY <1>3, SortNarrowOnce
<1>4. ASSUME NEW r \in AllRanks, PartitionSub(r) PROVE SortInv'
  BY <1>4, SortPartitionSub
<1>5. ASSUME NEW r \in AllRanks, NarrowSub(r) PROVE SortInv'
  BY <1>5, SortNarrowLast, SortNarrowNext
<1>6. CASE GatherOnce
  BY <1>6, SortGatherOnce
<1>7. CASE Reduce("reduce once", "narrow once")
  BY <1>7, SortReduceOnce DEF ReduceOnce
<1>8. CASE GatherSub
  BY <1>8, SortGatherSub
<1>9. CASE Reduce("reduce", "narrow")
  BY <1>9, SortReduceSub DEF ReduceSub
<1>10. CASE Exchange
  BY <1>10, SortExchange
<1>11. CASE Stop
  BY <1>11, SortStutters DEF Stop
<1>12. CASE UNCHANGED sortVars
  BY <1>12, SortStutters
<1> QED
  BY <1>1, <1>2, <1>3, <1>4, <1>5, <1>6, <1>7, <1>8, <1>9, <1>10, <1>11, <1>12 DEF SortNext

LEMMA SortAgrees == SortInv => RanksAgree
<1> SUFFICES ASSUME SortInv, NEW r \in AllRanks, NEW q \in AllRanks,
                    {pc[r], pc[q]} \subseteq Collective
             PROVE  /\ pc[r] = pc[q]
                    /\ i[r] = i[q] /\ n_iter[r] = n_iter[q] /\ pivots[r] = pivots[q]
                    /\ Len(partition[r]) = Len(partition[q])
                    /\ Len(sub_ins[r]) = Len(sub_ins[q])
                    /\ \A s \in 1 .. Len(sub_ins[r]) :
                         /\ sub_ins[r][s].n_tick = sub_ins[q][s].n_tick
                         /\ sub_ins[r][s].position = sub_ins[q][s].position
  BY DEF RanksAgree, Collective
<1>1. pc[r] \in Collective /\ pc[q] \in Collective
  OBVIOUS
<1> QED
  BY <1>1, AgreeFact

(* The inductive invariant of sort_by_rank and sort: where each rank is in the *)
(* vectors of the loop (one list of pivots per sub-interval that it has come   *)
(* to), and that the ranks are coming to the same collective operation.        *)
THEOREM SortCorrect == SortSpec => []SortInv
  BY SortStarts, SortSteps, PTL DEF SortSpec

(* The ranks of sort_by_rank come to the same collective operation, for the    *)
(* same sub-interval, with as many indices, and they throw together: a rank    *)
(* goes on by itself, but what it comes to next is decided by what the         *)
(* collective operations have given it, and that is the same for all the       *)
(* ranks. Nothing is assumed of the values that are sampled or of the cuts.    *)
THEOREM SortInStep == SortSpec => []RanksAgree
  BY SortCorrect, SortAgrees, PTL

=============================================================================
