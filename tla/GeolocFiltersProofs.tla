------------------------- MODULE GeolocFiltersProofs -------------------------
(***************************************************************************)
(* Lemmas about the pure helpers of GeolocFilters, for every input: what   *)
(* the append loop AppendWhere returns, and from it what                   *)
(* filterOnFineTimestamp keeps and how it treats a frame appended to the   *)
(* buffer.  The loops are recursive functions over 0..Len(s); each is      *)
(* first shown to satisfy its defining equation, then its properties are   *)
(* shown by induction on the loop index through the least-number principle *)
(* (a set of naturals with a violation has a least one), which needs no    *)
(* operator parameter.                                                     *)
(***************************************************************************)
EXTENDS GeolocFilters, SequenceTheorems, WellFoundedInduction, TLAPS

-----------------------------------------------------------------------------
(* The least-number principle on Nat, from the well-foundedness of <.      *)

LEMMA LessIsNatLessThan ==
  ASSUME NEW y \in Nat, NEW x \in Nat, y < x
  PROVE  <<y, x>> \in OpToRel(<, Nat)
BY Zenon DEF OpToRel

LEMMA LeastNat ==
  ASSUME NEW T \in SUBSET Nat, T # {}
  PROVE  \E m \in T : \A k \in T : m <= k
<1>1. PICK x \in T : \A y \in T : ~(<<y, x>> \in OpToRel(<, Nat))
  BY WFMin, NatLessThanWellFounded
<1>2. \A y \in T : ~(y < x)  BY <1>1, LessIsNatLessThan
<1>3. QED  BY <1>2

-----------------------------------------------------------------------------
(* The append loop satisfies its defining equation.                        *)

\* The loop's equation for a candidate g over the first k elements of s.
AWLoop(s, keep, k, g) ==
  [i \in 0..k |-> IF i = 0 THEN <<>>
                  ELSE IF i \in keep THEN Append(g[i - 1], s[i]) ELSE g[i - 1]]

LEMMA AWPrefixIsChoose ==
  ASSUME NEW s, NEW keep
  PROVE  AppendWherePrefix(s, keep) = CHOOSE g : g = AWLoop(s, keep, Len(s), g)
BY DEF AppendWherePrefix, AWLoop

LEMMA AWLoopExists ==
  ASSUME NEW S, NEW s \in Seq(S), NEW keep
  PROVE  \A k \in 0..Len(s) : \E g : g = AWLoop(s, keep, k, g)
<1> DEFINE T == {k \in 0..Len(s) : ~\E g : g = AWLoop(s, keep, k, g)}
<1> SUFFICES ASSUME T # {} PROVE FALSE  OBVIOUS
<1>1. T \in SUBSET Nat  OBVIOUS
<1>2. PICK m \in T : \A k \in T : m <= k  BY <1>1, LeastNat
<1>3. CASE m = 0
  <2>1. [i \in 0..0 |-> <<>>] = AWLoop(s, keep, 0, [i \in 0..0 |-> <<>>])
    BY DEF AWLoop
  <2>2. QED  BY <2>1, <1>2, <1>3
<1>4. CASE m # 0
  <2>1. PICK g : g = AWLoop(s, keep, m - 1, g)  BY <1>2, <1>4
  <2> DEFINE h == [i \in 0..m |-> IF i < m THEN g[i]
                                 ELSE IF m \in keep THEN Append(g[m - 1], s[m])
                                 ELSE g[m - 1]]
  <2>2. ASSUME NEW i \in 0..m PROVE h[i] = AWLoop(s, keep, m, h)[i]
    <3>1. CASE i < m
      <4>1. h[i] = g[i] /\ (i # 0 => h[i - 1] = g[i - 1])  BY <3>1
      <4>2. g[i] = AWLoop(s, keep, m - 1, g)[i]  BY <2>1, <3>1, <1>4, <1>2
      <4>3. QED  BY <4>1, <4>2, <3>1 DEF AWLoop
    <3>2. CASE i = m
      <4>1. h[m - 1] = g[m - 1]  BY <1>4, <1>2
      <4>2. QED  BY <4>1, <3>2, <1>4 DEF AWLoop
    <3>3. QED  BY <3>1, <3>2
  <2>3. h = AWLoop(s, keep, m, h)  BY <2>2 DEF AWLoop
  <2>4. QED  BY <2>3, <1>2
<1>5. QED  BY <1>3, <1>4

\* AppendWherePrefix is the loop: the defining equation holds.
LEMMA AWPrefixDef ==
  ASSUME NEW S, NEW s \in Seq(S), NEW keep
  PROVE  AppendWherePrefix(s, keep) = AWLoop(s, keep, Len(s), AppendWherePrefix(s, keep))
<1>1. Len(s) \in 0..Len(s)  OBVIOUS
<1>2. \E g : g = AWLoop(s, keep, Len(s), g)  BY <1>1, AWLoopExists
<1> DEFINE c == CHOOSE g : g = AWLoop(s, keep, Len(s), g)
<1>3. c = AWLoop(s, keep, Len(s), c)  BY <1>2, Zenon
<1>4. QED  BY <1>3, AWPrefixIsChoose

\* The loop after i elements: a sequence over S of at most i elements, each
\* one an element of s at a kept index among the first i.
AWKept(S, s, keep, i, o) ==
  /\ o \in Seq(S)
  /\ Len(o) <= i
  /\ \A k \in 1..Len(o) : \E j \in 1..i : j \in keep /\ o[k] = s[j]

LEMMA AWPrefixKept ==
  ASSUME NEW S, NEW s \in Seq(S), NEW keep
  PROVE  \A i \in 0..Len(s) : AWKept(S, s, keep, i, AppendWherePrefix(s, keep)[i])
<1> DEFINE out == AppendWherePrefix(s, keep)
<1> DEFINE T == {i \in 0..Len(s) : ~AWKept(S, s, keep, i, out[i])}
<1>0. out = AWLoop(s, keep, Len(s), out)  BY AWPrefixDef
<1> SUFFICES ASSUME T # {} PROVE FALSE  OBVIOUS
<1>1. T \in SUBSET Nat  OBVIOUS
<1>2. PICK m \in T : \A k \in T : m <= k  BY <1>1, LeastNat
<1>3. CASE m = 0
  <2>1. out[0] = <<>>  BY <1>0 DEF AWLoop
  <2>2. AWKept(S, s, keep, 0, <<>>)  BY EmptySeq DEF AWKept
  <2>3. QED  BY <2>1, <2>2, <1>2, <1>3
<1>4. CASE m # 0
  <2>1. AWKept(S, s, keep, m - 1, out[m - 1])  BY <1>2, <1>4
  <2>2. out[m] = IF m \in keep THEN Append(out[m - 1], s[m]) ELSE out[m - 1]
    BY <1>0, <1>2, <1>4 DEF AWLoop
  <2>3. s[m] \in S  BY <1>2, <1>4
  <2>4. AWKept(S, s, keep, m, out[m])
    <3>1. CASE m \in keep
      <4>1. out[m] = Append(out[m - 1], s[m])  BY <2>2, <3>1
      <4>2. QED  BY <4>1, <2>1, <2>3, <3>1, <1>2, <1>4 DEF AWKept
    <3>2. CASE m \notin keep
      <4>1. out[m] = out[m - 1]  BY <2>2, <3>2
      <4>2. QED  BY <4>1, <2>1, <1>2, <1>4 DEF AWKept
    <3>3. QED  BY <3>1, <3>2
  <2>5. QED  BY <2>4, <1>2
<1>5. QED  BY <1>3, <1>4

\* The loop's result holds elements of s at kept indices only.
LEMMA AppendWhereKept ==
  ASSUME NEW S, NEW s \in Seq(S), NEW keep
  PROVE  AWKept(S, s, keep, Len(s), AppendWhere(s, keep))
BY AWPrefixKept DEF AppendWhere

\* The loop over no element appends nothing.
LEMMA AppendWhereEmpty ==
  ASSUME NEW keep
  PROVE  AppendWhere(<<>>, keep) = <<>>
<1>1. AppendWherePrefix(<<>>, keep) = AWLoop(<<>>, keep, 0, AppendWherePrefix(<<>>, keep))
  BY AWPrefixDef, EmptySeq
<1>2. QED  BY <1>1 DEF AppendWhere, AWLoop

(***************************************************************************)
(* Running the loop over s with one more element x: it agrees with the     *)
(* loop over s on the first Len(s) elements (with any set of kept indices  *)
(* that agrees on them) and appends x at the end when its index is kept.   *)
(***************************************************************************)
LEMMA AppendWhereAppend ==
  ASSUME NEW S, NEW s \in Seq(S), NEW x \in S, NEW keep1, NEW keep2,
         \A i \in 1..Len(s) : i \in keep1 <=> i \in keep2
  PROVE  AppendWhere(Append(s, x), keep2) =
           IF Len(s) + 1 \in keep2 THEN Append(AppendWhere(s, keep1), x)
           ELSE AppendWhere(s, keep1)
<1> DEFINE s2 == Append(s, x)
<1> DEFINE o1 == AppendWherePrefix(s, keep1)
<1> DEFINE o2 == AppendWherePrefix(s2, keep2)
<1>0. s2 \in Seq(S) /\ Len(s2) = Len(s) + 1  BY AppendProperties
<1>1. o1 = AWLoop(s, keep1, Len(s), o1)  BY AWPrefixDef
<1>2. o2 = AWLoop(s2, keep2, Len(s) + 1, o2)  BY <1>0, AWPrefixDef
<1>7. \A i \in 1..Len(s) : s2[i] = s[i]  BY AppendProperties
<1>8. s2[Len(s) + 1] = x  BY AppendProperties
<1> HIDE DEF s2, o1, o2
<1>3. \A i \in 0..Len(s) : o2[i] = o1[i]
  <2> DEFINE T == {i \in 0..Len(s) : o2[i] # o1[i]}
  <2> SUFFICES ASSUME T # {} PROVE FALSE  OBVIOUS
  <2>1. T \in SUBSET Nat  OBVIOUS
  <2>2. PICK m \in T : \A k \in T : m <= k  BY <2>1, LeastNat
  <2>3. CASE m = 0  BY <2>2, <2>3, <1>0, <1>1, <1>2 DEF AWLoop
  <2>4. CASE m # 0
    <3>1. o2[m - 1] = o1[m - 1]  BY <2>2, <2>4
    <3>2. s2[m] = s[m]  BY <2>2, <2>4, <1>7
    <3>3. o2[m] = IF m \in keep2 THEN Append(o2[m - 1], s2[m]) ELSE o2[m - 1]
      <4>1. m \in 1..Len(s) + 1  BY <2>2, <2>4
      <4>2. AWLoop(s2, keep2, Len(s) + 1, o2)[m]
              = IF m \in keep2 THEN Append(o2[m - 1], s2[m]) ELSE o2[m - 1]
        BY <4>1 DEF AWLoop
      <4>3. QED  BY <4>2, <1>2
    <3>4. o1[m] = IF m \in keep1 THEN Append(o1[m - 1], s[m]) ELSE o1[m - 1]
      BY <1>1, <2>2, <2>4 DEF AWLoop
    <3>5. QED  BY <3>1, <3>2, <3>3, <3>4, <2>2, <2>4
  <2>5. QED  BY <2>3, <2>4
<1>4. o2[Len(s) + 1] = IF Len(s) + 1 \in keep2 THEN Append(o2[Len(s)], x) ELSE o2[Len(s)]
  <2>1. AWLoop(s2, keep2, Len(s) + 1, o2)[Len(s) + 1]
          = IF Len(s) + 1 \in keep2 THEN Append(o2[Len(s)], s2[Len(s) + 1]) ELSE o2[Len(s)]
    BY DEF AWLoop
  <2>2. QED  BY <2>1, <1>2, <1>8
<1>5. o2[Len(s)] = o1[Len(s)]  BY <1>3
<1>6. QED  BY <1>0, <1>4, <1>5 DEF AppendWhere, s2, o1, o2

-----------------------------------------------------------------------------
(* filterOnFineTimestamp.                                                  *)

\* The inner loop keeps receptions of the frame that carry a fine timestamp.
LEMMA TimedReceptionsType ==
  ASSUME NEW R, NEW f \in Seq(R)
  PROVE  TimedReceptions(f) \in Seq(R) /\ Len(TimedReceptions(f)) <= Len(f)
<1> DEFINE keep == {j \in 1..Len(f) : HasFineTimestamp(f[j])}
<1>1. AWKept(R, f, keep, Len(f), AppendWhere(f, keep))  BY AppendWhereKept
<1>2. QED  BY <1>1 DEF AWKept, TimedReceptions

LEMMA TimedReceptionsKept ==
  ASSUME NEW R, NEW f \in Seq(R)
  PROVE  \A k \in 1..Len(TimedReceptions(f)) :
           /\ TimedReceptions(f)[k].fineTimestamp
           /\ \E j \in 1..Len(f) : TimedReceptions(f)[k] = f[j]
<1> DEFINE keep == {j \in 1..Len(f) : HasFineTimestamp(f[j])}
<1>1. AWKept(R, f, keep, Len(f), AppendWhere(f, keep))  BY AppendWhereKept
<1>2. QED  BY <1>1 DEF AWKept, TimedReceptions, HasFineTimestamp

\* The frames after the inner loop, before the outer one drops any.
Timed(b) == [i \in 1..Len(b) |-> TimedReceptions(b[i])]

LEMMA TimedType ==
  ASSUME NEW R, NEW b \in Seq(Seq(R))
  PROVE  Timed(b) \in Seq(Seq(R)) /\ Len(Timed(b)) = Len(b)
<1>1. \A i \in 1..Len(b) : TimedReceptions(b[i]) \in Seq(R)  BY TimedReceptionsType
<1>2. QED  BY <1>1 DEF Timed

LEMMA FilterIsAppendWhere ==
  ASSUME NEW b, NEW m
  PROVE  FilterOnFineTimestamp(b, m) =
           AppendWhere(Timed(b), {i \in 1..Len(Timed(b)) : Len(Timed(b)[i]) >= m})
BY DEF FilterOnFineTimestamp, Timed

(***************************************************************************)
(* Every frame filterOnFineTimestamp returns is the timed part of a frame  *)
(* of the buffer and has at least minPerFrame receptions.                  *)
(***************************************************************************)
LEMMA FilterType ==
  ASSUME NEW R, NEW b \in Seq(Seq(R)), NEW m
  PROVE  FilterOnFineTimestamp(b, m) \in Seq(Seq(R))
<1> DEFINE keep == {i \in 1..Len(Timed(b)) : Len(Timed(b)[i]) >= m}
<1>1. Timed(b) \in Seq(Seq(R)) /\ Len(Timed(b)) = Len(b)  BY TimedType
<1>2. AWKept(Seq(R), Timed(b), keep, Len(Timed(b)), AppendWhere(Timed(b), keep))
  BY <1>1, AppendWhereKept
<1>3. FilterOnFineTimestamp(b, m) = AppendWhere(Timed(b), keep)  BY FilterIsAppendWhere
<1> HIDE DEF keep
<1>4. QED  BY <1>2, <1>3 DEF AWKept

LEMMA FilterKept ==
  ASSUME NEW R, NEW b \in Seq(Seq(R)), NEW m
  PROVE  \A k \in 1..Len(FilterOnFineTimestamp(b, m)) :
           /\ Len(FilterOnFineTimestamp(b, m)[k]) >= m
           /\ \E i \in 1..Len(b) : FilterOnFineTimestamp(b, m)[k] = TimedReceptions(b[i])
<1> DEFINE keep == {i \in 1..Len(Timed(b)) : Len(Timed(b)[i]) >= m}
<1>1. Timed(b) \in Seq(Seq(R)) /\ Len(Timed(b)) = Len(b)  BY TimedType
<1>2. AWKept(Seq(R), Timed(b), keep, Len(Timed(b)), AppendWhere(Timed(b), keep))
  BY <1>1, AppendWhereKept
<1>3. FilterOnFineTimestamp(b, m) = AppendWhere(Timed(b), keep)  BY FilterIsAppendWhere
<1> HIDE DEF keep
<1>4. QED  BY <1>1, <1>2, <1>3 DEF AWKept, Timed, keep

\* An empty buffer filters to nothing.
LEMMA FilterEmpty ==
  ASSUME NEW m
  PROVE  FilterOnFineTimestamp(<<>>, m) = <<>>
<1>1. Timed(<<>>) = <<>>  BY DEF Timed
<1>2. QED  BY <1>1, FilterIsAppendWhere, AppendWhereEmpty

(***************************************************************************)
(* Filtering a buffer with a frame appended: the filtered buffer, followed *)
(* by the frame's timed receptions when there are at least minPerFrame.    *)
(***************************************************************************)
LEMMA FilterAppend ==
  ASSUME NEW R, NEW b \in Seq(Seq(R)), NEW f \in Seq(R), NEW m
  PROVE  FilterOnFineTimestamp(Append(b, f), m) =
           IF Len(TimedReceptions(f)) >= m
           THEN Append(FilterOnFineTimestamp(b, m), TimedReceptions(f))
           ELSE FilterOnFineTimestamp(b, m)
<1> DEFINE b2 == Append(b, f)
<1> DEFINE keep1 == {i \in 1..Len(Timed(b)) : Len(Timed(b)[i]) >= m}
<1> DEFINE keep2 == {i \in 1..Len(Timed(b2)) : Len(Timed(b2)[i]) >= m}
<1>1. b2 \in Seq(Seq(R)) /\ Len(b2) = Len(b) + 1  BY AppendProperties
<1>2. Timed(b) \in Seq(Seq(R)) /\ Len(Timed(b)) = Len(b)  BY TimedType
<1>3. TimedReceptions(f) \in Seq(R)  BY TimedReceptionsType
<1>4. Timed(b2) = Append(Timed(b), TimedReceptions(f))
  <2>1. \A i \in 1..Len(b) : b2[i] = b[i]  BY AppendProperties
  <2>2. b2[Len(b) + 1] = f  BY AppendProperties
  <2>3. Append(Timed(b), TimedReceptions(f)) \in Seq(Seq(R))
        /\ Len(Append(Timed(b), TimedReceptions(f))) = Len(b) + 1
    BY <1>2, <1>3, AppendProperties
  <2>4. ASSUME NEW i \in 1..Len(b) + 1
        PROVE  Append(Timed(b), TimedReceptions(f))[i] = TimedReceptions(b2[i])
    <3>1. CASE i <= Len(b)
      <4>1. Append(Timed(b), TimedReceptions(f))[i] = Timed(b)[i]
        BY <1>2, <1>3, <3>1, AppendProperties
      <4>2. QED  BY <4>1, <2>1, <3>1 DEF Timed
    <3>2. CASE i = Len(b) + 1
      <4>1. Append(Timed(b), TimedReceptions(f))[i] = TimedReceptions(f)
        BY <1>2, <1>3, <3>2, AppendProperties
      <4>2. QED  BY <4>1, <2>2, <3>2
    <3>3. i <= Len(b) \/ i = Len(b) + 1  BY <1>2
    <3>4. QED  BY <3>1, <3>2, <3>3
  <2>5. QED  BY <1>1, <2>3, <2>4 DEF Timed
<1>5. \A i \in 1..Len(Timed(b)) : i \in keep1 <=> i \in keep2
  BY <1>1, <1>2, <1>3, <1>4, AppendProperties
<1>6. Len(Timed(b)) + 1 \in keep2 <=> Len(TimedReceptions(f)) >= m
  <2>1. Len(Timed(b2)) = Len(b) + 1 /\ Timed(b2)[Len(b) + 1] = TimedReceptions(f)
    BY <1>2, <1>3, <1>4, AppendProperties
  <2>2. QED  BY <2>1, <1>2
<1> HIDE DEF keep1, keep2
<1>7. AppendWhere(Timed(b2), keep2) =
        IF Len(Timed(b)) + 1 \in keep2
        THEN Append(AppendWhere(Timed(b), keep1), TimedReceptions(f))
        ELSE AppendWhere(Timed(b), keep1)
  <2>1. AppendWhere(Append(Timed(b), TimedReceptions(f)), keep2) =
          IF Len(Timed(b)) + 1 \in keep2
          THEN Append(AppendWhere(Timed(b), keep1), TimedReceptions(f))
          ELSE AppendWhere(Timed(b), keep1)
    BY <1>2, <1>3, <1>5, AppendWhereAppend
  <2>2. QED  BY <2>1, <1>4
<1>8. QED  BY <1>6, <1>7, FilterIsAppendWhere DEF keep1, keep2

-----------------------------------------------------------------------------
(* The uplink-id loop: FlattenSeq of the per-frame uplink ids.             *)

\* FlattenSeq's loop for a candidate g over the first k sequences of ss.
FlattenLoop(ss, k, g) ==
  [i \in 1..k |-> IF i = 1 THEN ss[i] ELSE g[i - 1] \o ss[i]]

\* The loop of FlattenSeq as a function: the concatenation of the first i.
FlattenPrefix(ss) == CHOOSE g : g = FlattenLoop(ss, Len(ss), g)

LEMMA FlattenIsPrefix ==
  ASSUME NEW ss, Len(ss) # 0
  PROVE  FlattenSeq(ss) = FlattenPrefix(ss)[Len(ss)]
BY DEF FlattenSeq, FlattenPrefix, FlattenLoop

\* Past the first, the loop concatenates the previous value and the next sequence.
LEMMA FlattenLoopAt ==
  ASSUME NEW ss, NEW k \in Nat, NEW g, NEW i \in 2..k
  PROVE  FlattenLoop(ss, k, g)[i] = g[i - 1] \o ss[i]
<1>1. i \in 1..k /\ i # 1  OBVIOUS
<1>2. QED  BY <1>1, Zenon DEF FlattenLoop

LEMMA FlattenLoopExists ==
  ASSUME NEW U, NEW ss \in Seq(Seq(U))
  PROVE  \A k \in 1..Len(ss) : \E g \in [1..k -> Seq(U)] : g = FlattenLoop(ss, k, g)
<1> DEFINE T == {k \in 1..Len(ss) : ~\E g \in [1..k -> Seq(U)] : g = FlattenLoop(ss, k, g)}
<1> SUFFICES ASSUME T # {} PROVE FALSE  OBVIOUS
<1>1. T \in SUBSET Nat  OBVIOUS
<1>2. PICK m \in T : \A k \in T : m <= k  BY <1>1, LeastNat
<1>6. m \in 1..Len(ss)  BY <1>2
<1> HIDE DEF T
<1>3. CASE m = 1
  <2>1. [i \in 1..1 |-> ss[1]] = FlattenLoop(ss, 1, [i \in 1..1 |-> ss[1]])
    BY DEF FlattenLoop
  <2>2. [i \in 1..1 |-> ss[1]] \in [1..1 -> Seq(U)]  BY <1>6, <1>3
  <2>3. QED  BY <2>1, <2>2, <1>2, <1>3, Zenon DEF T
<1>4. CASE m # 1
  <2>0. m - 1 \in 1..Len(ss) /\ m - 1 \notin T  BY <1>6, <1>2, <1>4
  <2>1. PICK g \in [1..m - 1 -> Seq(U)] : g = FlattenLoop(ss, m - 1, g)
    BY <2>0, Zenon DEF T
  <2> DEFINE c == g[m - 1] \o ss[m]
  <2>2. c \in Seq(U)  BY <2>0, <1>6, ConcatProperties
  <2> HIDE DEF c
  <2> DEFINE h == [i \in 1..m |-> IF i < m THEN g[i] ELSE c]
  <2>3. h \in [1..m -> Seq(U)]  BY <2>2, <2>0, <1>6
  <2>4. ASSUME NEW i \in 1..m PROVE h[i] = FlattenLoop(ss, m, h)[i]
    <3>1. CASE i < m
      <4>1. h[i] = g[i] /\ (i # 1 => h[i - 1] = g[i - 1])  BY <3>1, <2>0, <1>6
      <4>2. g[i] = FlattenLoop(ss, m - 1, g)[i]  BY <2>1, <3>1, <2>0, <1>6
      <4>3. QED  BY <4>1, <4>2, <3>1, <2>0, <1>6 DEF FlattenLoop
    <3>2. CASE i = m
      <4>1. h[m - 1] = g[m - 1] /\ h[m] = c  BY <2>0, <1>6
      <4>0. m \in Nat /\ m \in 2..m  BY <1>4, <1>6
      <4>2. FlattenLoop(ss, m, h)[m] = h[m - 1] \o ss[m]
        BY <4>0, FlattenLoopAt
      <4>3. QED  BY <4>1, <4>2, <3>2, Zenon DEF c
    <3>3. QED  BY <3>1, <3>2, <1>6
  <2>5. h = FlattenLoop(ss, m, h)  BY <2>4, <1>6 DEF FlattenLoop
  <2>6. QED  BY <2>3, <2>5, <1>2, Zenon DEF T
<1>5. QED  BY <1>3, <1>4

\* FlattenPrefix satisfies the loop's equation.
LEMMA FlattenPrefixDef ==
  ASSUME NEW U, NEW ss \in Seq(Seq(U)), Len(ss) # 0
  PROVE  FlattenPrefix(ss) = FlattenLoop(ss, Len(ss), FlattenPrefix(ss))
<1>1. Len(ss) \in 1..Len(ss)  OBVIOUS
<1>2. \E g \in [1..Len(ss) -> Seq(U)] : g = FlattenLoop(ss, Len(ss), g)
  BY <1>1, FlattenLoopExists
<1>3. QED  BY <1>2, Zenon DEF FlattenPrefix

(***************************************************************************)
(* The loop after k sequences is a sequence over U at least as long as the *)
(* k-th sequence.                                                          *)
(***************************************************************************)
LEMMA FlattenPrefixType ==
  ASSUME NEW U, NEW ss \in Seq(Seq(U)), Len(ss) # 0
  PROVE  \A k \in 1..Len(ss) :
           FlattenPrefix(ss)[k] \in Seq(U) /\ Len(FlattenPrefix(ss)[k]) >= Len(ss[k])
<1> DEFINE fp == FlattenPrefix(ss)
<1> DEFINE Ok(k) == fp[k] \in Seq(U) /\ Len(fp[k]) >= Len(ss[k])
<1> DEFINE T == {k \in 1..Len(ss) : ~Ok(k)}
<1>0. fp = FlattenLoop(ss, Len(ss), fp)  BY FlattenPrefixDef
<1> SUFFICES ASSUME T # {} PROVE FALSE  OBVIOUS
<1>1. T \in SUBSET Nat  OBVIOUS
<1>2. PICK m \in T : \A k \in T : m <= k  BY <1>1, LeastNat
<1>6. m \in 1..Len(ss) /\ ~Ok(m)  BY <1>2
<1>7. \A k \in 1..Len(ss) : k < m => Ok(k)  BY <1>2
<1> HIDE DEF T, Ok, fp
<1>3. CASE m = 1
  <2>1. fp[1] = ss[1]  BY <1>0, <1>6, <1>3 DEF FlattenLoop
  <2>2. ss[1] \in Seq(U)  BY <1>6, <1>3
  <2>3. QED  BY <2>1, <2>2, <1>6, <1>3 DEF Ok
<1>4. CASE m # 1
  <2>1. fp[m - 1] \in Seq(U)  BY <1>6, <1>7, <1>4 DEF Ok
  <2>2. fp[m] = fp[m - 1] \o ss[m]
    <3>0. Len(ss) \in Nat /\ m \in 2..Len(ss)  BY <1>6, <1>4
    <3>1. FlattenLoop(ss, Len(ss), fp)[m] = fp[m - 1] \o ss[m]
      BY <3>0, FlattenLoopAt
    <3>2. QED  BY <3>1, <1>0
  <2>3. ss[m] \in Seq(U)  BY <1>6
  <2>4. fp[m] \in Seq(U) /\ Len(fp[m]) = Len(fp[m - 1]) + Len(ss[m])
    BY <2>1, <2>2, <2>3, ConcatProperties
  <2>5. Len(fp[m - 1]) \in Nat /\ Len(ss[m]) \in Nat  BY <2>1, <2>3, LenProperties
  <2>6. Len(fp[m]) >= Len(ss[m])
    <3> DEFINE a == Len(fp[m])  b == Len(fp[m - 1])  c == Len(ss[m])
    <3>1. a = b + c /\ b \in Nat /\ c \in Nat  BY <2>4, <2>5
    <3> HIDE DEF a, b, c
    <3>2. a >= c  BY <3>1
    <3>3. QED  BY <3>2 DEF a, c
  <2>7. Ok(m)  BY <2>4, <2>6 DEF Ok
  <2>8. QED  BY <2>7, <1>6
<1>5. QED  BY <1>3, <1>4

\* The uplink ids of each frame, frame by frame.
FrameIds(b) == [i \in 1..Len(b) |-> [j \in 1..Len(b[i]) |-> b[i][j].uplinkId]]

LEMMA FrameIdsType ==
  ASSUME NEW Ids, NEW b \in Seq(Seq(Reception(Ids)))
  PROVE  FrameIds(b) \in Seq(Seq(Ids)) /\ Len(FrameIds(b)) = Len(b)
         /\ \A i \in 1..Len(b) : Len(FrameIds(b)[i]) = Len(b[i])
<1>1. \A i \in 1..Len(b) : [j \in 1..Len(b[i]) |-> b[i][j].uplinkId] \in Seq(Ids)
  <2> SUFFICES ASSUME NEW i \in 1..Len(b)
               PROVE  [j \in 1..Len(b[i]) |-> b[i][j].uplinkId] \in Seq(Ids)
    OBVIOUS
  <2>1. b[i] \in Seq(Reception(Ids))  OBVIOUS
  <2>2. \A j \in 1..Len(b[i]) : b[i][j] \in Reception(Ids)  BY <2>1, ElementOfSeq
  <2>3. \A j \in 1..Len(b[i]) : b[i][j].uplinkId \in Ids  BY <2>2 DEF Reception
  <2>4. QED  BY <2>3
<1>2. QED  BY <1>1 DEF FrameIds

(***************************************************************************)
(* The uplink-id loop of geolocation() over frames of receptions of Ids:   *)
(* a sequence of Ids, not empty when the last frame has a reception.       *)
(***************************************************************************)
LEMMA UplinkIDsType ==
  ASSUME NEW Ids, NEW b \in Seq(Seq(Reception(Ids)))
  PROVE  /\ UplinkIDs(b) \in Seq(Ids)
         /\ Len(b) # 0 /\ Len(b[Len(b)]) # 0 => UplinkIDs(b) # <<>>
<1>1. UplinkIDs(b) = FlattenSeq(FrameIds(b))  BY DEF UplinkIDs, FrameIds
<1>2. FrameIds(b) \in Seq(Seq(Ids)) /\ Len(FrameIds(b)) = Len(b)
      /\ \A i \in 1..Len(b) : Len(FrameIds(b)[i]) = Len(b[i])
  BY FrameIdsType
<1>3. CASE Len(b) = 0
  <2>1. FrameIds(b) = <<>>  BY <1>3, <1>2
  <2>2. QED  BY <1>1, <2>1, <1>3, EmptySeq DEF FlattenSeq
<1>4. CASE Len(b) # 0
  <2>1. FlattenSeq(FrameIds(b)) = FlattenPrefix(FrameIds(b))[Len(b)]
    BY <1>2, <1>4, FlattenIsPrefix
  <2>2. FlattenPrefix(FrameIds(b))[Len(b)] \in Seq(Ids)
        /\ Len(FlattenPrefix(FrameIds(b))[Len(b)]) >= Len(b[Len(b)])
    <3>1. Len(b) \in 1..Len(FrameIds(b))  BY <1>2, <1>4
    <3>2. QED  BY <1>2, <1>4, <3>1, FlattenPrefixType
  <2>3. QED  BY <1>1, <2>1, <2>2
<1>5. QED  BY <1>3, <1>4

=============================================================================
