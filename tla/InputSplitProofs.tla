-------------------------- MODULE InputSplitProofs --------------------------
(***************************************************************************)
(* Theorems about InputSplit for files of every length, any number of      *)
(* machines and all weights: next_line_start cuts a file between lines, a  *)
(* sliced input is loaded exactly once, the window staged to a worker      *)
(* holds just the lines of its slice, and the chunks of a chunked input    *)
(* follow one another without losing, doubling or tearing a line.          *)
(***************************************************************************)
EXTENDS InputSplit, WellFoundedInduction, TLAPS

-----------------------------------------------------------------------------
(* Arithmetic                                                              *)

\* The order of the integers.
LEMMA InOrder == \A u, v, w \in Int : /\ u < v \/ v <= u
                                     /\ ~ (u <= v /\ v <= w /\ w < u)
  BY SMT

\* A product grows with its first factor (the offset lo * len of a slice).
LEMMA MulMono ==
    ASSUME NEW a \in Nat, NEW b \in Nat, NEW l \in Nat, a <= b
    PROVE  a * l <= b * l
  <1>1. PICK d \in Nat : b = a + d
    BY SMT
  <1>2. b * l = a * l + d * l
    BY <1>1, SMT
  <1>3. d * l \in Nat
    BY SMT
  <1> QED BY <1>2, <1>3, SMT

\* Rounding down keeps the order of offsets (floor in frac_to_byte).
LEMMA DivMono ==
    ASSUME NEW x \in Nat, NEW y \in Nat, NEW w \in Nat \ {0}, x <= y
    PROVE  x \div w \in Nat /\ x \div w <= y \div w
  BY Z3

\* The fractions 0 and 1 are the two ends of the file.
LEMMA DivEnds ==
    ASSUME NEW l \in Nat, NEW w \in Nat \ {0}
    PROVE  (w * l) \div w = l /\ (0 * l) \div w = 0
  BY Z3

\* A set of offsets has a least element (the position() of next_line_start).
LEMMA MinIsLeast ==
    ASSUME NEW S, S \subseteq Nat, S # {}
    PROVE  Min(S) \in S /\ \A y \in S : Min(S) <= y
  <1>1. PICK x \in S : \A y \in S : ~(<<y, x>> \in OpToRel(<, Nat))
    BY NatLessThanWellFounded, WFMin, Zenon
  <1>2. ASSUME NEW y \in S, y < x  PROVE FALSE
    <2>1. y \in Nat /\ x \in Nat
      BY Zenon
    <2>2. <<y, x>> \in OpToRel(<, Nat)
      BY <1>2, <2>1, Zenon DEF OpToRel
    <2> QED BY <1>1, <2>2, Zenon
  <1>3. \A y \in S : x <= y
    BY <1>2, SMT
  <1> QED BY <1>3, Zenon DEF Min

\* A bounded set of offsets has a greatest element (rposition of load_chunk).
LEMMA MaxIsGreatest ==
    ASSUME NEW b \in Nat, NEW S, S \subseteq 0 .. b, S # {}
    PROVE  Max(S) \in S /\ \A y \in S : Max(S) >= y
  <1> DEFINE T == {b - x : x \in S}
  <1>1. T \subseteq Nat
    BY SMT
  <1>a. T # {}
    BY Zenon
  <1>2. Min(T) \in T /\ \A t \in T : Min(T) <= t
    BY <1>1, <1>a, MinIsLeast, Zenon
  <1>3. PICK x \in S : Min(T) = b - x
    BY <1>2, Zenon
  <1>4. \A y \in S : x >= y
    BY <1>2, <1>3, SMT
  <1> QED BY <1>4, Zenon DEF Max

-----------------------------------------------------------------------------
(* Cuts                                                                    *)

\* A cut between two bytes of a file that tears no line.
LineCut(f, p) ==
    /\ p \in 0 .. Len(f)
    /\ p = 0 \/ p = Len(f) \/ Byte(f, p - 1) = Newline

\* next_line_start returns such a cut, at or after the offset it is given.
LEMMA NextLineStartCuts ==
    ASSUME NEW B, NEW f \in Seq(B), NEW p \in 0 .. Len(f)
    PROVE  /\ LineCut(f, NextLineStart(f, p))
           /\ p <= NextLineStart(f, p)
           /\ p # 0 => \A x \in p .. NextLineStart(f, p) - 2 : Byte(f, x) # Newline
  <1> DEFINE S == Newlines(f, p, Len(f))
  <1>0. Len(f) \in Nat /\ S \subseteq Nat /\ S \subseteq p .. Len(f) - 1
    BY SMT DEF Newlines
  <1>1. CASE p = 0 \/ p >= Len(f) \/ S = {}
    BY <1>0, <1>1, SMT DEF NextLineStart, LineCut, Newlines
  <1>2. CASE p # 0 /\ p < Len(f) /\ S # {}
    <2>1. Min(S) \in S /\ \A y \in S : Min(S) <= y
      BY <1>0, <1>2, MinIsLeast, Zenon
    <2>2. NextLineStart(f, p) = Min(S) + 1
      BY <1>0, <1>2, SMT DEF NextLineStart
    <2>3. Min(S) \in p .. Len(f) - 1 /\ Byte(f, Min(S)) = Newline
      BY <2>1, Zenon DEF Newlines
    <2>4. \A x \in p .. Min(S) - 1 : Byte(f, x) # Newline
      BY <1>0, <2>1, <2>3, SMT DEF Newlines
    <2>5. Min(S) + 1 - 1 = Min(S) /\ Min(S) + 1 - 2 = Min(S) - 1
      BY <1>0, <2>3, SMT
    <2> HIDE DEF S
    <2> QED BY <1>0, <2>2, <2>3, <2>4, <2>5, SMT DEF LineCut
  <1> QED BY <1>0, <1>1, <1>2, SMT

\* A later offset never has an earlier line start.
LEMMA NextLineStartMono ==
    ASSUME NEW B, NEW f \in Seq(B), NEW p \in 0 .. Len(f), NEW q \in 0 .. Len(f), p <= q
    PROVE  NextLineStart(f, p) <= NextLineStart(f, q)
  <1> DEFINE s == NextLineStart(f, p)
             t == NextLineStart(f, q)
  <1>1. /\ LineCut(f, s) /\ LineCut(f, t) /\ q <= t
        /\ p # 0 => \A x \in p .. s - 2 : Byte(f, x) # Newline
    BY NextLineStartCuts, Zenon
  <1>2. Len(f) \in Nat /\ s \in 0 .. Len(f) /\ t \in 0 .. Len(f)
    BY <1>1 DEF LineCut
  <1>3. p = 0 => s = 0
    BY Zenon DEF NextLineStart
  <1>4. q = 0 => p = 0
    BY SMT
  <1>5. ASSUME p # 0, t < s  PROVE FALSE
    <2>1. t - 1 \in p .. s - 2
      BY <1>1, <1>2, <1>5, SMTT(30) DEF NextLineStart
    <2>2. Byte(f, t - 1) # Newline
      BY <1>1, <1>5, <2>1, Zenon
    <2>3. t # 0 /\ t # Len(f)
      BY <1>1, <1>2, <1>4, <1>5, SMT
    <2> QED BY <1>1, <2>2, <2>3, Zenon DEF LineCut
  <1> HIDE DEF s, t
  <1>6. s <= t
    BY <1>2, <1>3, <1>5, SMT
  <1> QED BY <1>6, Zenon DEF s, t

-----------------------------------------------------------------------------
(* Slices                                                                  *)

\* The byte offset of the fraction x / w of a file.
Offset(f, x, w) == (x * Len(f)) \div w

\* Offsets lie in the file and keep the order of the fractions.
LEMMA OffsetMono ==
    ASSUME NEW B, NEW f \in Seq(B), NEW w \in Nat \ {0},
           NEW x \in 0 .. w, NEW y \in 0 .. w, x <= y
    PROVE  /\ Offset(f, x, w) \in 0 .. Len(f)
           /\ Offset(f, x, w) <= Offset(f, y, w)
           /\ Offset(f, 0, w) = 0 /\ Offset(f, w, w) = Len(f)
  <1> DEFINE l == Len(f)
  <1>1. l \in Nat /\ x \in Nat /\ y \in Nat /\ w \in Nat /\ x <= w
    BY SMT
  <1> HIDE DEF l
  <1>2. x * l \in Nat /\ y * l \in Nat /\ w * l \in Nat
    BY <1>1, SMT
  <1>3. x * l <= y * l /\ x * l <= w * l
    BY <1>1, MulMono, Zenon
  <1>4. /\ (x * l) \div w \in Nat
        /\ (x * l) \div w <= (y * l) \div w
        /\ (x * l) \div w <= (w * l) \div w
    BY <1>2, <1>3, DivMono, Zenon
  <1>5. (w * l) \div w = l /\ (0 * l) \div w = 0
    BY <1>1, DivEnds, Zenon
  <1>6. (x * l) \div w \in 0 .. l
    BY <1>1, <1>4, <1>5, SMT
  <1> QED BY <1>4, <1>5, <1>6, Zenon DEF Offset, l

\* The window of a slice runs from the line start of its first fraction to
\* that of its second (load_slice), so neighbours share a boundary.
LEMMA WindowIs ==
    ASSUME NEW B, NEW f \in Seq(B), NEW w \in Nat \ {0},
           NEW x \in 0 .. w, NEW y \in 0 .. w
    PROVE  Window(f, <<x, y, w>>) =
             <<NextLineStart(f, Offset(f, x, w)), NextLineStart(f, Offset(f, y, w))>>
  <1> DEFINE to == Offset(f, y, w)
  <1>1. to \in 0 .. Len(f) /\ Len(f) \in Nat
    BY OffsetMono, y <= y, SMT
  <1>2. Window(f, <<x, y, w>>) =
          <<NextLineStart(f, Offset(f, x, w)), IF to >= Len(f) THEN Len(f) ELSE NextLineStart(f, to)>>
    BY Zenon DEF Window, Offset
  <1> HIDE DEF to
  <1>3. ASSUME to >= Len(f)  PROVE NextLineStart(f, to) = Len(f)
    <2>1. LineCut(f, NextLineStart(f, to)) /\ to <= NextLineStart(f, to)
      BY <1>1, NextLineStartCuts, Zenon
    <2> QED BY <1>1, <1>3, <2>1, SMT DEF LineCut
  <1> QED BY <1>2, <1>3, Zenon DEF to

\* The records between two line cuts are records of the whole file.
LEMMA RecordsBetweenCuts ==
    ASSUME NEW B, NEW f \in Seq(B), NEW a, NEW b, LineCut(f, a), LineCut(f, b)
    PROVE  Records(f, a, b) = {r \in Records(f, 0, Len(f)) : a <= r[1] /\ r[1] < b}
  <1>1. Len(f) \in Nat /\ a \in 0 .. Len(f) /\ b \in 0 .. Len(f)
    BY DEF LineCut
  <1>2. ASSUME NEW r \in Records(f, a, b)
        PROVE  r \in Records(f, 0, Len(f)) /\ a <= r[1] /\ r[1] < b
    <2>1. /\ r \in (a .. b) \X (a .. b)
          /\ r[1] < r[2]
          /\ \A p \in r[1] .. r[2] - 1 : Byte(f, p) # Newline
          /\ r[1] = a \/ Byte(f, r[1] - 1) = Newline
          /\ r[2] = b \/ Byte(f, r[2]) = Newline
      BY <1>2, Zenon DEF Records
    <2>2. r[1] \in a .. b /\ r[2] \in a .. b /\ r = <<r[1], r[2]>>
      BY <2>1
    <2>3. r[1] = 0 \/ Byte(f, r[1] - 1) = Newline
      BY <1>1, <2>1, <2>2, SMT DEF LineCut
    <2>4. r[2] = Len(f) \/ Byte(f, r[2]) = Newline
      <3>1. CASE r[2] = b /\ b # Len(f)
        <4>1. b # 0 /\ Byte(f, b - 1) = Newline
          BY <1>1, <2>1, <2>2, <3>1, SMT DEF LineCut
        <4>2. b - 1 \in r[1] .. r[2] - 1
          BY <1>1, <2>1, <2>2, <3>1, SMT
        <4> QED BY <2>1, <4>1, <4>2, Zenon
      <3> QED BY <2>1, <3>1, Zenon
    <2>5. r \in (0 .. Len(f)) \X (0 .. Len(f))
      BY <1>1, <2>2, SMT
    <2>6. a <= r[1] /\ r[1] < b
      BY <1>1, <2>1, <2>2, SMT
    <2> QED BY <2>1, <2>3, <2>4, <2>5, <2>6, Zenon DEF Records
  <1>3. ASSUME NEW r \in Records(f, 0, Len(f)), a <= r[1], r[1] < b
        PROVE  r \in Records(f, a, b)
    <2>1. /\ r \in (0 .. Len(f)) \X (0 .. Len(f))
          /\ r[1] < r[2]
          /\ \A p \in r[1] .. r[2] - 1 : Byte(f, p) # Newline
          /\ r[1] = 0 \/ Byte(f, r[1] - 1) = Newline
          /\ r[2] = Len(f) \/ Byte(f, r[2]) = Newline
      BY <1>3, Zenon DEF Records
    <2>2. r[1] \in 0 .. Len(f) /\ r[2] \in 0 .. Len(f) /\ r = <<r[1], r[2]>>
      BY <2>1
    <2>3. r[2] <= b
      <3>1. SUFFICES ASSUME b < r[2]  PROVE FALSE
        BY <1>1, <2>2, SMT
      <3>2. b # 0 /\ b # Len(f) /\ b - 1 \in r[1] .. r[2] - 1
        BY <1>1, <1>3, <2>2, <3>1, SMT
      <3> QED BY <2>1, <3>2, Zenon DEF LineCut
    <2>4. r[1] = a \/ Byte(f, r[1] - 1) = Newline
      BY <1>1, <1>3, <2>1, <2>2, SMT
    <2>5. r[2] = b \/ Byte(f, r[2]) = Newline
      BY <1>1, <2>1, <2>2, <2>3, SMT
    <2>6. r \in (a .. b) \X (a .. b)
      BY <1>1, <1>3, <2>1, <2>2, <2>3, SMT
    <2> QED BY <2>1, <2>4, <2>5, <2>6, Zenon DEF Records
  <1> QED BY <1>2, <1>3, Zenon

\* A machine loads the lines that begin in its window (load_slice).
LEMMA LoadSliceIs ==
    ASSUME NEW B, NEW f \in Seq(B), NEW w \in Nat \ {0},
           NEW x \in 0 .. w, NEW y \in 0 .. w
    PROVE  LoadSlice(f, <<x, y, w>>) =
             {r \in Records(f, 0, Len(f)) : /\ NextLineStart(f, Offset(f, x, w)) <= r[1]
                                            /\ r[1] < NextLineStart(f, Offset(f, y, w))}
  <1> DEFINE a == NextLineStart(f, Offset(f, x, w))
             b == NextLineStart(f, Offset(f, y, w))
  <1>1. Offset(f, x, w) \in 0 .. Len(f) /\ Offset(f, y, w) \in 0 .. Len(f)
    BY OffsetMono, x <= x, y <= y, SMT
  <1>2. LineCut(f, a) /\ LineCut(f, b)
    BY <1>1, NextLineStartCuts, Zenon
  <1>3. Len(f) \in Nat /\ a \in 0 .. Len(f) /\ b \in 0 .. Len(f)
    BY <1>2 DEF LineCut
  <1>4. Window(f, <<x, y, w>>) = <<a, b>>
    BY WindowIs, Zenon
  <1> HIDE DEF a, b
  <1>5. LoadSlice(f, <<x, y, w>>) = IF a >= b THEN {} ELSE Records(f, a, b)
    BY <1>4 DEF LoadSlice
  <1>6. Records(f, a, b) = {r \in Records(f, 0, Len(f)) : a <= r[1] /\ r[1] < b}
    BY <1>2, RecordsBetweenCuts
  <1>7. ASSUME a >= b, NEW r \in Records(f, 0, Len(f)), a <= r[1], r[1] < b  PROVE FALSE
    <2>1. r[1] \in 0 .. Len(f)
      BY <1>7, Zenon DEF Records
    <2> QED BY <1>3, <1>7, <2>1, SMT
  <1>8. LoadSlice(f, <<x, y, w>>) = {r \in Records(f, 0, Len(f)) : a <= r[1] /\ r[1] < b}
    BY <1>5, <1>6, <1>7, Zenon
  <1> QED BY <1>8, Zenon DEF a, b

\* load_slice with the boundaries of assign_input_slices: however the cut
\* points 0 = cut[0] <= cut[1] <= ... <= cut[N] = w divide the file among N
\* machines, every line is loaded by exactly one of them, and no machine
\* loads anything but whole lines.
THEOREM EveryLineLoadedOnce ==
    ASSUME NEW B, NEW f \in Seq(B), NEW w \in Nat \ {0}, NEW N \in Nat \ {0},
           NEW cut \in [0 .. N -> 0 .. w],
           cut[0] = 0, cut[N] = w,
           \A i, j \in 0 .. N : i <= j => cut[i] <= cut[j]
    PROVE  LET load(m) == LoadSlice(f, <<cut[m], cut[m + 1], w>>)
           IN  /\ \A m \in 0 .. N - 1 : load(m) \subseteq Records(f, 0, Len(f))
               /\ \A r \in Records(f, 0, Len(f)) :
                    \E m \in 0 .. N - 1 : /\ r \in load(m)
                                          /\ \A k \in 0 .. N - 1 : r \in load(k) => k = m
  <1> DEFINE load(m) == LoadSlice(f, <<cut[m], cut[m + 1], w>>)
             edge(i) == NextLineStart(f, Offset(f, cut[i], w))
  <1>1. Len(f) \in Nat
    OBVIOUS
  <1>2. \A i \in 0 .. N : Offset(f, cut[i], w) \in 0 .. Len(f)
    <2>1. TAKE i \in 0 .. N
    <2>2. cut[i] \in 0 .. w /\ cut[i] <= cut[i]
      BY SMT
    <2> QED BY <2>2, OffsetMono, Zenon
  <1>3. \A i \in 0 .. N : edge(i) \in 0 .. Len(f)
    BY <1>2, NextLineStartCuts, Zenon DEF LineCut
  <1>4. \A i, j \in 0 .. N : i <= j => edge(i) <= edge(j)
    <2>1. SUFFICES ASSUME NEW i \in 0 .. N, NEW j \in 0 .. N, i <= j
                   PROVE  edge(i) <= edge(j)
      BY Zenon
    <2>2. cut[i] \in 0 .. w /\ cut[j] \in 0 .. w /\ cut[i] <= cut[j]
      BY <2>1, Zenon
    <2>3. Offset(f, cut[i], w) <= Offset(f, cut[j], w)
      BY <2>2, OffsetMono, Zenon
    <2> QED BY <1>2, <2>3, NextLineStartMono, Zenon
  <1>5. edge(0) = 0 /\ edge(N) = Len(f)
    <2>1. Offset(f, 0, w) = 0 /\ Offset(f, w, w) = Len(f)
      BY OffsetMono, 0 <= 0, 0 \in 0 .. w, Zenon
    <2>2. NextLineStart(f, 0) = 0
      BY Zenon DEF NextLineStart
    <2>3. NextLineStart(f, Len(f)) = Len(f)
      <3>1. LineCut(f, NextLineStart(f, Len(f))) /\ Len(f) <= NextLineStart(f, Len(f))
        BY <1>1, NextLineStartCuts, Len(f) \in 0 .. Len(f), Zenon
      <3> QED BY <1>1, <3>1, SMT DEF LineCut
    <2> QED BY <2>1, <2>2, <2>3, Zenon
  <1>6. ASSUME NEW m \in 0 .. N - 1
        PROVE  load(m) = {r \in Records(f, 0, Len(f)) : edge(m) <= r[1] /\ r[1] < edge(m + 1)}
    <2>1. m \in 0 .. N /\ m + 1 \in 0 .. N
      BY SMT
    <2>2. cut[m] \in 0 .. w /\ cut[m + 1] \in 0 .. w
      BY <2>1, Zenon
    <2> QED BY <2>2, LoadSliceIs
  <1> HIDE DEF load, edge
  <1>7. ASSUME NEW r \in Records(f, 0, Len(f))
        PROVE  \E m \in 0 .. N - 1 : /\ r \in load(m)
                                     /\ \A k \in 0 .. N - 1 : r \in load(k) => k = m
    <2> DEFINE S == {i \in 0 .. N : r[1] < edge(i)}
    <2>1. r[1] \in 0 .. Len(f) /\ r[2] \in 0 .. Len(f) /\ r[1] < r[2]
      BY <1>7, Zenon DEF Records
    <2>2. N \in S /\ S \subseteq Nat
      BY <1>1, <1>5, <2>1, SMT
    <2>3. Min(S) \in S /\ \A y \in S : Min(S) <= y
      BY <2>2, MinIsLeast, Zenon
    <2>4. Min(S) \in 0 .. N /\ r[1] < edge(Min(S))
      BY <2>3, Zenon
    <2>12. \A y \in S : y \in Int
      BY <2>2
    <2> HIDE DEF S
    <2>5. PICK m \in Int : m = Min(S) - 1
      <3>1. Min(S) \in Int
        BY <2>4
      <3> QED BY <3>1
    <2>6. Min(S) # 0
      BY <1>5, <2>1, <2>4, SMT
    <2>7. m \in 0 .. N - 1 /\ m \in 0 .. N /\ m + 1 = Min(S)
      BY <2>4, <2>5, <2>6, SMT
    <2>8. m \notin S
      BY <2>3, <2>4, <2>5, <2>12, SMT
    <2>9. edge(m) <= r[1] /\ r[1] < edge(m + 1)
      <3>1. ~ (r[1] < edge(m))
        BY <2>7, <2>8, Zenon DEF S
      <3>2. edge(m) \in Int /\ r[1] \in Int
        BY <1>3, <2>1, <2>7
      <3> QED BY <2>4, <2>7, <3>1, <3>2, InOrder, Zenon
    <2>10. r \in load(m)
      BY <1>6, <2>7, <2>9, Zenon
    <2>11. ASSUME NEW k \in 0 .. N - 1, r \in load(k)  PROVE k = m
      <3>1. edge(k) <= r[1] /\ r[1] < edge(k + 1)
        BY <1>6, <2>11, Zenon
      <3>2. k \in 0 .. N /\ k + 1 \in 0 .. N /\ m + 1 \in 0 .. N
        BY <2>7, SMT
      <3>5. /\ r[1] \in Int /\ edge(k) \in Int /\ edge(k + 1) \in Int
            /\ edge(m) \in Int /\ edge(m + 1) \in Int
        BY <1>3, <2>1, <2>7, <3>2
      <3>3. ASSUME k < m  PROVE FALSE
        <4>1. k + 1 <= m
          BY <2>7, <3>2, <3>3, SMT
        <4>2. edge(k + 1) <= edge(m)
          BY <1>4, <2>7, <3>2, <4>1, Zenon
        <4> QED BY <2>9, <3>1, <3>5, <4>2, InOrder, Zenon
      <3>4. ASSUME m < k  PROVE FALSE
        <4>1. m + 1 <= k
          BY <2>7, <3>2, <3>4, SMT
        <4>2. edge(m + 1) <= edge(k)
          BY <1>4, <3>2, <4>1, Zenon
        <4> QED BY <2>9, <3>1, <3>5, <4>2, InOrder, Zenon
      <3> QED BY <2>7, <3>3, <3>4, SMT
    <2> QED BY <2>7, <2>10, <2>11, Zenon
  <1>8. \A m \in 0 .. N - 1 : load(m) \subseteq Records(f, 0, Len(f))
    BY <1>6, Zenon
  <1> QED BY <1>7, <1>8, Zenon DEF load

-----------------------------------------------------------------------------
(* Staged windows                                                          *)

\* A whole file is loaded as all of its records.
LEMMA LoadWhole ==
    ASSUME NEW B, NEW f \in Seq(B)
    PROVE  LoadSlice(f, <<0, 1, 1>>) = Records(f, 0, Len(f))
  <1>1. Offset(f, 0, 1) = 0 /\ Offset(f, 1, 1) = Len(f) /\ Len(f) \in Nat
    BY SMT DEF Offset
  <1>2. NextLineStart(f, 0) = 0
    BY Zenon DEF NextLineStart
  <1>3. NextLineStart(f, Len(f)) = Len(f)
    <2>1. LineCut(f, NextLineStart(f, Len(f))) /\ Len(f) <= NextLineStart(f, Len(f))
      BY <1>1, NextLineStartCuts, Len(f) \in 0 .. Len(f), Zenon
    <2> QED BY <1>1, <2>1, SMT DEF LineCut
  <1>4. LoadSlice(f, <<0, 1, 1>>) = {r \in Records(f, 0, Len(f)) : 0 <= r[1] /\ r[1] < Len(f)}
    <2>1. 1 \in Nat \ {0} /\ 0 \in 0 .. 1 /\ 1 \in 0 .. 1
      BY SMT
    <2> QED BY <1>1, <1>2, <1>3, <2>1, LoadSliceIs
  <1>5. ASSUME NEW r \in Records(f, 0, Len(f))  PROVE 0 <= r[1] /\ r[1] < Len(f)
    <2>1. r[1] \in 0 .. Len(f) /\ r[2] \in 0 .. Len(f) /\ r[1] < r[2]
      BY <1>5, Zenon DEF Records
    <2> QED BY <1>1, <2>1, SMT
  <1> QED BY <1>4, <1>5, Zenon

\* Positions of a window and of the file it was copied from.
LEMMA Moved ==
    ASSUME NEW a \in Nat, NEW b \in Nat, NEW x \in 0 .. b - a, NEW y \in 0 .. b - a
    PROVE  /\ x + a \in a .. b /\ (x < y => x + a < y + a)
           /\ x # 0 => x - 1 \in 0 .. b - a - 1 /\ (x - 1) + a = x + a - 1
           /\ x # b - a => x \in 0 .. b - a - 1
  BY SMT

\* The records of a copy of the bytes from a to b are those of the file
\* between a and b, moved by a.
LEMMA RecordsOfCopy ==
    ASSUME NEW B, NEW f \in Seq(B), NEW a \in 0 .. Len(f), NEW b \in a .. Len(f)
    PROVE  LET g == SubSeq(f, a + 1, b)
           IN  /\ g \in Seq(B) /\ Len(g) = b - a
               /\ {<<r[1] + a, r[2] + a>> : r \in Records(g, 0, Len(g))} = Records(f, a, b)
  <1> DEFINE g == SubSeq(f, a + 1, b)
  <1>1. Len(f) \in Nat /\ a \in Nat /\ b \in Nat /\ a <= b /\ b <= Len(f)
    BY SMT
  <1>2. g \in Seq(B) /\ Len(g) = b - a
    BY <1>1, SMT
  <1>3. \A p \in 0 .. b - a - 1 : Byte(g, p) = Byte(f, p + a)
    BY <1>1, SMT DEF Byte
  <1> HIDE DEF g
  <1>4. ASSUME NEW r \in Records(g, 0, b - a)
        PROVE  <<r[1] + a, r[2] + a>> \in Records(f, a, b)
    <2>1. /\ r[1] \in 0 .. b - a /\ r[2] \in 0 .. b - a
          /\ r[1] < r[2]
          /\ \A p \in r[1] .. r[2] - 1 : Byte(g, p) # Newline
          /\ r[1] = 0 \/ Byte(g, r[1] - 1) = Newline
          /\ r[2] = b - a \/ Byte(g, r[2]) = Newline
      BY <1>4, Zenon DEF Records
    <2>2. r[1] + a \in a .. b /\ r[2] + a \in a .. b /\ r[1] + a < r[2] + a
      BY <1>1, <2>1, Moved, Zenon
    <2>3. ASSUME NEW p \in r[1] + a .. r[2] + a - 1  PROVE Byte(f, p) # Newline
      <3>1. p - a \in r[1] .. r[2] - 1 /\ p - a \in 0 .. b - a - 1 /\ (p - a) + a = p
        <4>1. PICK x \in 0 .. b - a, y \in 0 .. b - a : x = r[1] /\ y = r[2]
          BY <2>1, Zenon
        <4>2. p \in x + a .. y + a - 1
          BY <2>3, <4>1, Zenon
        <4>3. p - a \in x .. y - 1 /\ p - a \in 0 .. b - a - 1 /\ (p - a) + a = p
          BY <1>1, <4>2, SMTT(30)
        <4> QED BY <4>1, <4>3, Zenon
      <3> QED BY <1>3, <2>1, <3>1, Zenon
    <2>4. r[1] + a = a \/ Byte(f, r[1] + a - 1) = Newline
      <3>1. CASE r[1] # 0
        <4>1. r[1] - 1 \in 0 .. b - a - 1 /\ (r[1] - 1) + a = r[1] + a - 1
          BY <1>1, <2>1, <3>1, Moved, Zenon
        <4> QED BY <1>3, <2>1, <3>1, <4>1, Zenon
      <3>2. CASE r[1] = 0
        BY <1>1, <3>2, SMT
      <3> QED BY <3>1, <3>2, Zenon
    <2>5. r[2] + a = b \/ Byte(f, r[2] + a) = Newline
      <3>1. CASE r[2] # b - a
        <4>1. r[2] \in 0 .. b - a - 1
          BY <1>1, <2>1, <3>1, Moved, Zenon
        <4> QED BY <1>3, <2>1, <3>1, <4>1, Zenon
      <3>2. CASE r[2] = b - a
        BY <1>1, <3>2, SMT
      <3> QED BY <3>1, <3>2, Zenon
    <2> QED BY <2>2, <2>3, <2>4, <2>5 DEF Records
  <1>5. ASSUME NEW q \in Records(f, a, b)
        PROVE  \E r \in Records(g, 0, b - a) : q = <<r[1] + a, r[2] + a>>
    <2>1. /\ q \in (a .. b) \X (a .. b)
          /\ q[1] < q[2]
          /\ \A p \in q[1] .. q[2] - 1 : Byte(f, p) # Newline
          /\ q[1] = a \/ Byte(f, q[1] - 1) = Newline
          /\ q[2] = b \/ Byte(f, q[2]) = Newline
      BY <1>5, Zenon DEF Records
    <2>2. q[1] \in a .. b /\ q[2] \in a .. b /\ q = <<q[1], q[2]>>
      BY <2>1
    <2>3. PICK x \in Nat, y \in Nat : q[1] = x + a /\ q[2] = y + a
      <3>1. q[1] - a \in Nat /\ q[2] - a \in Nat /\ q[1] = (q[1] - a) + a /\ q[2] = (q[2] - a) + a
        BY <1>1, <2>2, SMT
      <3> QED BY <3>1, Zenon
    <2>4. x \in 0 .. b - a /\ y \in 0 .. b - a /\ x < y
      BY <1>1, <2>1, <2>2, <2>3, SMT
    <2>5. ASSUME NEW p \in x .. y - 1  PROVE Byte(g, p) # Newline
      <3>1. p + a \in q[1] .. q[2] - 1 /\ p \in 0 .. b - a - 1
        BY <1>1, <2>3, <2>4, SMT
      <3> QED BY <1>3, <2>1, <3>1, Zenon
    <2>6. x = 0 \/ Byte(g, x - 1) = Newline
      <3>1. CASE x # 0
        <4>1. x - 1 \in 0 .. b - a - 1 /\ (x - 1) + a = q[1] - 1 /\ q[1] # a
          BY <1>1, <2>3, <2>4, <3>1, SMT
        <4> QED BY <1>3, <2>1, <4>1, Zenon
      <3> QED BY <3>1, Zenon
    <2>7. y = b - a \/ Byte(g, y) = Newline
      <3>1. CASE y # b - a
        <4>1. y \in 0 .. b - a - 1 /\ q[2] # b
          BY <1>1, <2>3, <2>4, <3>1, SMT
        <4> QED BY <1>3, <2>1, <2>3, <4>1, Zenon
      <3> QED BY <3>1, Zenon
    <2>8. <<x, y>> \in Records(g, 0, b - a)
      BY <2>4, <2>5, <2>6, <2>7, Zenon DEF Records
    <2> QED BY <2>2, <2>3, <2>8, Zenon
  <1>6. {<<r[1] + a, r[2] + a>> : r \in Records(g, 0, b - a)} = Records(f, a, b)
    BY <1>4, <1>5, Zenon
  <1> QED BY <1>2, <1>6, Zenon DEF g

\* The coordinator's line_aligned_window and the worker's load_slice agree:
\* a worker that reads its staged copy from end to end loads the very lines
\* that the slice of the whole file has.
THEOREM StagedWindowIsSlice ==
    ASSUME NEW B, NEW f \in Seq(B), NEW w \in Nat \ {0},
           NEW x \in 0 .. w, NEW y \in 0 .. w
    PROVE  LoadStaged(f, <<x, y, w>>) = LoadSlice(f, <<x, y, w>>)
  <1> DEFINE s == <<x, y, w>>
             a == NextLineStart(f, Offset(f, x, w))
             b == NextLineStart(f, Offset(f, y, w))
  <1>1. Offset(f, x, w) \in 0 .. Len(f) /\ Offset(f, y, w) \in 0 .. Len(f)
    BY OffsetMono, x <= x, y <= y, SMT
  <1>2. Len(f) \in Nat /\ a \in 0 .. Len(f) /\ b \in 0 .. Len(f)
    BY <1>1, NextLineStartCuts DEF LineCut
  <1>3. Window(f, s) = <<a, b>>
    BY WindowIs, Zenon
  <1> HIDE DEF s, a, b
  <1>4. LineAlignedWindow(f, s) = IF a >= b THEN <<0, 0>> ELSE <<a, b>>
    BY <1>3 DEF LineAlignedWindow
  <1>5. LoadSlice(f, s) = IF a >= b THEN {} ELSE Records(f, a, b)
    BY <1>3 DEF LoadSlice
  <1>6. CASE a >= b
    <2>1. LineAlignedWindow(f, s) = <<0, 0>>
      BY <1>4, <1>6, Zenon
    <2>2. Staged(f, s) = SubSeq(f, 0 + 1, 0)
      BY <2>1 DEF Staged
    <2>3. LoadStaged(f, s) = {<<r[1] + 0, r[2] + 0>> : r \in LoadSlice(Staged(f, s), <<0, 1, 1>>)}
      BY <2>1 DEF LoadStaged
    <2>4. /\ SubSeq(f, 0 + 1, 0) \in Seq(B)
          /\ {<<r[1] + 0, r[2] + 0>> : r \in Records(SubSeq(f, 0 + 1, 0), 0, Len(SubSeq(f, 0 + 1, 0)))}
               = Records(f, 0, 0)
      <3>1. 0 \in 0 .. Len(f) /\ 0 \in 0 .. Len(f)
        BY <1>2, SMT
      <3> QED BY <3>1, RecordsOfCopy, Zenon
    <2>5. Records(f, 0, 0) = {}
      BY SMT DEF Records
    <2>6. LoadSlice(SubSeq(f, 0 + 1, 0), <<0, 1, 1>>) =
            Records(SubSeq(f, 0 + 1, 0), 0, Len(SubSeq(f, 0 + 1, 0)))
      BY <2>4, LoadWhole, Zenon
    <2>7. LoadStaged(f, s) = {}
      BY <2>2, <2>3, <2>4, <2>5, <2>6, Zenon
    <2> QED BY <1>5, <1>6, <2>7, Zenon DEF s
  <1>7. CASE ~(a >= b)
    <2>1. LineAlignedWindow(f, s) = <<a, b>> /\ b \in a .. Len(f)
      BY <1>2, <1>4, <1>7, SMT
    <2>2. Staged(f, s) = SubSeq(f, a + 1, b)
      <3>1. LineAlignedWindow(f, s)[1] = a /\ LineAlignedWindow(f, s)[2] = b
        BY <2>1
      <3> QED BY <3>1, Zenon DEF Staged
    <2>3. LoadStaged(f, s) = {<<r[1] + a, r[2] + a>> : r \in LoadSlice(Staged(f, s), <<0, 1, 1>>)}
      BY <2>1 DEF LoadStaged
    <2>4. /\ SubSeq(f, a + 1, b) \in Seq(B)
          /\ {<<r[1] + a, r[2] + a>> : r \in Records(SubSeq(f, a + 1, b), 0, Len(SubSeq(f, a + 1, b)))}
               = Records(f, a, b)
      BY <1>2, <2>1, RecordsOfCopy, Zenon
    <2>5. LoadSlice(SubSeq(f, a + 1, b), <<0, 1, 1>>) =
            Records(SubSeq(f, a + 1, b), 0, Len(SubSeq(f, a + 1, b)))
      BY <2>4, LoadWhole, Zenon
    <2>6. LoadStaged(f, s) = Records(f, a, b)
      BY <2>2, <2>3, <2>4, <2>5, Zenon
    <2> QED BY <1>5, <1>7, <2>6, Zenon DEF s
  <1> QED BY <1>6, <1>7, Zenon

-----------------------------------------------------------------------------
(* Chunks                                                                  *)

\* load_chunk makes progress and cuts between lines: a chunk that starts
\* before the end of the file ends behind its start, at a line cut.
LEMMA ChunkEndCuts ==
    ASSUME NEW B, NEW f \in Seq(B), NEW start \in 0 .. Len(f) - 1, NEW max \in Nat
    PROVE  LineCut(f, ChunkEnd(f, start, max)) /\ start < ChunkEnd(f, start, max)
  <1> DEFINE end == IF start + max < Len(f) THEN start + max ELSE Len(f)
             S   == Newlines(f, start, end)
             T   == Newlines(f, end, Len(f))
  <1>1. Len(f) \in Nat /\ start \in Nat /\ start < Len(f) /\ end \in start .. Len(f)
    BY SMT
  <1>2. ChunkEnd(f, start, max) =
          IF end = Len(f) THEN end ELSE IF S # {} THEN Max(S) + 1 ELSE IF T # {} THEN Min(T) + 1 ELSE Len(f)
    BY Zenon DEF ChunkEnd
  <1> HIDE DEF end
  <1>3. CASE end = Len(f) \/ (S = {} /\ T = {})
    <2>1. ChunkEnd(f, start, max) = Len(f)
      BY <1>2, <1>3, Zenon
    <2> QED BY <1>1, <2>1, SMT DEF LineCut
  <1>4. CASE end # Len(f) /\ S # {}
    <2>1. S \subseteq 0 .. Len(f)
      BY <1>1, SMT DEF Newlines
    <2>2. Max(S) \in S
      BY <1>1, <1>4, <2>1, MaxIsGreatest, Zenon
    <2>3. Max(S) \in start .. end - 1 /\ Byte(f, Max(S)) = Newline
      BY <2>2, Zenon DEF Newlines
    <2>4. ChunkEnd(f, start, max) = Max(S) + 1
      BY <1>2, <1>4, Zenon
    <2> HIDE DEF S
    <2>5. Max(S) + 1 \in 0 .. Len(f) /\ (Max(S) + 1) - 1 = Max(S) /\ start < Max(S) + 1
      BY <1>1, <2>3, SMT
    <2> QED BY <2>3, <2>4, <2>5, Zenon DEF LineCut
  <1>5. CASE end # Len(f) /\ S = {} /\ T # {}
    <2>1. T \subseteq Nat
      BY <1>1, SMT DEF Newlines
    <2>2. Min(T) \in T
      BY <1>5, <2>1, MinIsLeast, Zenon
    <2>3. Min(T) \in end .. Len(f) - 1 /\ Byte(f, Min(T)) = Newline
      BY <2>2, Zenon DEF Newlines
    <2>4. ChunkEnd(f, start, max) = Min(T) + 1
      BY <1>2, <1>5, Zenon
    <2> HIDE DEF T
    <2>5. Min(T) + 1 \in 0 .. Len(f) /\ (Min(T) + 1) - 1 = Min(T) /\ start < Min(T) + 1
      BY <1>1, <2>3, SMT
    <2> QED BY <2>3, <2>4, <2>5, Zenon DEF LineCut
  <1> QED BY <1>3, <1>4, <1>5, Zenon

\* load_chunk from any line cut on: the chunk and the rest of the file share
\* no line and together have all lines, so an Input that loads chunk after
\* chunk (each from where the last one ended) loads every line once.
THEOREM ChunkAndRest ==
    ASSUME NEW B, NEW f \in Seq(B), NEW start \in 0 .. Len(f) - 1, NEW max \in Nat,
           LineCut(f, start)
    PROVE  LET e     == ChunkEnd(f, start, max)
               chunk == Records(f, start, e)
               rest  == Records(f, e, Len(f))
           IN  /\ start < e /\ LineCut(f, e)
               /\ chunk \cup rest = Records(f, start, Len(f))
               /\ chunk \cap rest = {}
  <1> DEFINE e == ChunkEnd(f, start, max)
             all == Records(f, 0, Len(f))
  <1>1. LineCut(f, e) /\ start < e
    BY ChunkEndCuts, Zenon
  <1>2. Len(f) \in Nat /\ e \in 0 .. Len(f) /\ start \in 0 .. Len(f)
    BY <1>1, SMT DEF LineCut
  <1>3. LineCut(f, Len(f))
    BY <1>2, SMT DEF LineCut
  <1> HIDE DEF e
  <1>4. Records(f, start, e) = {r \in all : start <= r[1] /\ r[1] < e}
    BY <1>1, RecordsBetweenCuts
  <1>5. Records(f, e, Len(f)) = {r \in all : e <= r[1] /\ r[1] < Len(f)}
    BY <1>1, <1>3, RecordsBetweenCuts, Zenon
  <1>6. Records(f, start, Len(f)) = {r \in all : start <= r[1] /\ r[1] < Len(f)}
    BY <1>3, RecordsBetweenCuts, Zenon
  <1>7. ASSUME NEW r \in all
        PROVE  /\ (start <= r[1] /\ r[1] < Len(f)) <=>
                    ((start <= r[1] /\ r[1] < e) \/ (e <= r[1] /\ r[1] < Len(f)))
               /\ ~((start <= r[1] /\ r[1] < e) /\ (e <= r[1] /\ r[1] < Len(f)))
    <2>1. r[1] \in 0 .. Len(f)
      BY <1>7, Zenon DEF Records
    <2> QED BY <1>1, <1>2, <2>1, SMT
  <1> HIDE DEF all
  <1>8. Records(f, start, e) \cup Records(f, e, Len(f)) = Records(f, start, Len(f))
    BY <1>4, <1>5, <1>6, <1>7, Zenon
  <1>9. Records(f, start, e) \cap Records(f, e, Len(f)) = {}
    BY <1>4, <1>5, <1>7, Zenon
  <1> QED BY <1>1, <1>8, <1>9, Zenon DEF e

=============================================================================
