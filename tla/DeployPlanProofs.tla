--------------------------- MODULE DeployPlanProofs ---------------------------
(***************************************************************************)
(* What becomes of the schemas, whatever they are: proofs.                 *)
(*                                                                         *)
(* What FlattenSeq and Only return is proved by induction on the length of *)
(* a sequence.  The rest follows the translations in their order: the maps *)
(* of deploy_configuration, the message of async_deploy, the routes of     *)
(* deploy_from_config.                                                     *)
(***************************************************************************)
EXTENDS DeployPlan, FiniteSetTheorems, SequenceTheorems, TLAPS

-----------------------------------------------------------------------------
(* Induction: a set of naturals that has no least element to fail at *)

LEMMA Induction ==
    ASSUME NEW T, 0 \in T, \A n \in Nat : n \in T => n + 1 \in T
    PROVE  Nat \subseteq T
<1>. DEFINE R == OpToRel(<, Nat)
            B == Nat \ T
<1>1. SUFFICES ASSUME B # {} PROVE FALSE OBVIOUS
<1>2. IsWellFoundedOn(R, Nat) BY NatLessThanWellFounded, Zenon
<1>3. B \subseteq Nat OBVIOUS
<1>4. \A m, n \in Nat : m < n => <<m, n>> \in R BY DEF OpToRel
<1>. HIDE DEF R
<1>5. PICK x \in B : \A y \in B : ~(<<y, x>> \in R)
    <2>. HIDE DEF B
    <2>. QED BY <1>1, <1>2, <1>3, WFMin
<1>6. x # 0 /\ x - 1 \in Nat OBVIOUS
<1>7. x - 1 \in B /\ x \in Nat /\ x - 1 < x BY <1>6
<1>8. <<x - 1, x>> \in R BY <1>4, <1>6, <1>7
<1>9. <<x - 1, x>> \notin R BY <1>5, <1>7
<1>. QED BY <1>8, <1>9

\* A set of naturals has a least element.
LEMMA Minimum ==
    ASSUME NEW S \in SUBSET Nat, S # {}
    PROVE  Min(S) \in S /\ \A n \in S : Min(S) <= n
<1>. DEFINE R == OpToRel(<, Nat)
<1>1. IsWellFoundedOn(R, Nat) BY NatLessThanWellFounded, Zenon
<1>2. \A m, n \in Nat : m < n => <<m, n>> \in R BY DEF OpToRel
<1>. HIDE DEF R
<1>3. PICK x \in S : \A y \in S : ~(<<y, x>> \in R) BY <1>1, WFMin
<1>4. \A y \in S : ~(y < x) BY <1>2, <1>3
<1>5. \A y \in S : x <= y BY <1>4
<1>. QED BY <1>5 DEF Min

-----------------------------------------------------------------------------
(* FlattenSeq *)

\* g is the function by which FlattenSeq is defined, up to n.
Flattens(g, ss, n) ==
    g = [i \in 1 .. n |-> IF i = 1 THEN ss[i] ELSE g[i - 1] \o ss[i]]

LEMMA FlattensExists ==
    ASSUME NEW ss, NEW n \in Nat PROVE \E g : Flattens(g, ss, n)
<1>. DEFINE T == {m \in Nat : \E g : Flattens(g, ss, m)}
<1>1. 0 \in T
    <2>. DEFINE g == [i \in 1 .. 0 |-> IF i = 1 THEN ss[i] ELSE <<>> \o ss[i]]
    <2>1. Flattens(g, ss, 0) BY DEF Flattens
    <2>. QED BY <2>1
<1>2. ASSUME NEW m \in Nat, m \in T PROVE m + 1 \in T
    <2>1. PICK g : Flattens(g, ss, m) BY <1>2
    <2>. DEFINE f == [i \in 1 .. m + 1 |-> IF i = 1 THEN ss[i] ELSE g[i - 1] \o ss[i]]
    <2>2. \A i \in 1 .. m : g[i] = IF i = 1 THEN ss[i] ELSE g[i - 1] \o ss[i]
        BY <2>1 DEF Flattens
    <2>3. \A i \in 1 .. m : f[i] = g[i] BY <2>2
    <2>4. \A i \in 1 .. m + 1 : i # 1 => i - 1 \in 1 .. m OBVIOUS
    <2>5. \A i \in 1 .. m + 1 : i # 1 => f[i - 1] = g[i - 1] BY <2>3, <2>4
    <2>6. f = [i \in 1 .. m + 1 |-> IF i = 1 THEN ss[i] ELSE f[i - 1] \o ss[i]] BY <2>5
    <2>. HIDE DEF f
    <2>7. Flattens(f, ss, m + 1) BY <2>6 DEF Flattens
    <2>. QED BY <2>7
<1>. HIDE DEF T
<1>3. Nat \subseteq T BY <1>1, <1>2, Induction
<1>. QED BY <1>3 DEF T

LEMMA FlattenSteps ==
    ASSUME NEW ss, NEW n, n = Len(ss), n \in Nat \ {0}
    PROVE  \E f : Flattens(f, ss, n) /\ FlattenSeq(ss) = f[n]
<1>. DEFINE f == CHOOSE g : g = [i \in 1 .. n |-> IF i = 1 THEN ss[i] ELSE g[i - 1] \o ss[i]]
<1>1. \E g : g = [i \in 1 .. n |-> IF i = 1 THEN ss[i] ELSE g[i - 1] \o ss[i]]
    BY FlattensExists DEF Flattens
<1>2. f = [i \in 1 .. n |-> IF i = 1 THEN ss[i] ELSE f[i - 1] \o ss[i]] BY <1>1
<1>3. FlattenSeq(ss) = f[n] BY DEF FlattenSeq
<1>. QED BY <1>2, <1>3 DEF Flattens

\* Element k of t is element col[k] of ss[row[k]]: rows from left to right, each one
\* in its order, and all of them up to n.
Laid(t, ss, n, row, col) ==
    /\ row \in [1 .. Len(t) -> Nat] /\ col \in [1 .. Len(t) -> Nat]
    /\ \A k \in 1 .. Len(t) :
        row[k] \in 1 .. n /\ col[k] \in 1 .. Len(ss[row[k]]) /\ t[k] = ss[row[k]][col[k]]
    /\ \A k, l \in 1 .. Len(t) :
        k < l => row[k] < row[l] \/ (row[k] = row[l] /\ col[k] < col[l])
    /\ \A i \in 1 .. n : \A j \in 1 .. Len(ss[i]) :
        \E k \in 1 .. Len(t) : row[k] = i /\ col[k] = j

LEMMA LaidFirst ==
    ASSUME NEW S, NEW ss, NEW t \in Seq(S), t = ss[1]
    PROVE  \E row, col : Laid(t, ss, 1, row, col)
<1>. DEFINE m == Len(t)
<1>1. m \in Nat OBVIOUS
<1>. HIDE DEF m
<1>2. Laid(t, ss, 1, [k \in 1 .. m |-> 1], [k \in 1 .. m |-> k])
    BY <1>1 DEF Laid, m
<1>. QED BY <1>2

LEMMA LaidNext ==
    ASSUME NEW S, NEW ss, NEW n \in Nat, NEW t \in Seq(S), NEW s \in Seq(S), s = ss[n + 1],
           NEW row, NEW col, Laid(t, ss, n, row, col)
    PROVE  \E r, c : Laid(t \o s, ss, n + 1, r, c)
<1>. DEFINE m == Len(t)
            p == Len(s)
            u == t \o s
<1>1. m \in Nat /\ p \in Nat OBVIOUS
<1>2. /\ u \in Seq(S) /\ Len(u) = m + p
      /\ \A k \in 1 .. m : u[k] = t[k]
      /\ \A k \in m + 1 .. m + p : u[k] = s[k - m]
    BY ConcatProperties
<1>3. PICK r : r = [k \in 1 .. m + p |-> IF k <= m THEN row[k] ELSE n + 1] OBVIOUS
<1>4. PICK c : c = [k \in 1 .. m + p |-> IF k <= m THEN col[k] ELSE k - m] OBVIOUS
<1>5. /\ row \in [1 .. m -> Nat] /\ col \in [1 .. m -> Nat]
      /\ \A k \in 1 .. m :
            row[k] \in 1 .. n /\ col[k] \in 1 .. Len(ss[row[k]]) /\ t[k] = ss[row[k]][col[k]]
      /\ \A k, l \in 1 .. m :
            k < l => row[k] < row[l] \/ (row[k] = row[l] /\ col[k] < col[l])
      /\ \A i \in 1 .. n : \A j \in 1 .. Len(ss[i]) :
            \E k \in 1 .. m : row[k] = i /\ col[k] = j
    BY DEF Laid
<1>6. Len(ss[n + 1]) = p OBVIOUS
<1>. HIDE DEF m, p, u
<1>7. /\ \A k \in 1 .. m : r[k] = row[k] /\ c[k] = col[k]
      /\ \A k \in m + 1 .. m + p : r[k] = n + 1 /\ c[k] = k - m
    BY <1>1, <1>3, <1>4
<1>8. r \in [1 .. m + p -> Nat] /\ c \in [1 .. m + p -> Nat]
    BY <1>1, <1>3, <1>4, <1>5
<1>9. ASSUME NEW k \in 1 .. m + p
      PROVE  r[k] \in 1 .. n + 1 /\ c[k] \in 1 .. Len(ss[r[k]]) /\ u[k] = ss[r[k]][c[k]]
    <2>1. CASE k \in 1 .. m
        <3>1. /\ r[k] = row[k] /\ c[k] = col[k] /\ u[k] = t[k]
              /\ row[k] \in 1 .. n /\ col[k] \in 1 .. Len(ss[row[k]])
              /\ t[k] = ss[row[k]][col[k]]
            BY <1>2, <1>5, <1>7, <2>1
        <3>. QED BY <3>1
    <2>2. CASE k \in m + 1 .. m + p
        <3>1. r[k] = n + 1 /\ c[k] = k - m /\ u[k] = s[k - m] BY <1>2, <1>7, <2>2
        <3>2. k - m \in 1 .. p BY <1>1, <2>2
        <3>. QED BY <3>1, <3>2, <1>6
    <2>. QED BY <1>1, <2>1, <2>2
<1>10. ASSUME NEW k \in 1 .. m + p, NEW l \in 1 .. m + p, k < l
       PROVE  r[k] < r[l] \/ (r[k] = r[l] /\ c[k] < c[l])
    <2>1. CASE l \in 1 .. m
        <3>1. k \in 1 .. m BY <1>1, <1>10, <2>1
        <3>. QED BY <1>5, <1>7, <1>10, <2>1, <3>1
    <2>2. CASE k \in 1 .. m /\ l \in m + 1 .. m + p BY <1>5, <1>7, <2>2
    <2>3. CASE k \in m + 1 .. m + p
        <3>1. l \in m + 1 .. m + p BY <1>1, <1>10, <2>3
        <3>2. r[k] = n + 1 /\ r[l] = n + 1 /\ c[k] = k - m /\ c[l] = l - m BY <1>7, <2>3, <3>1
        <3>3. k - m < l - m BY <1>1, <1>10
        <3>. QED BY <3>2, <3>3
    <2>. QED BY <1>1, <2>1, <2>2, <2>3
<1>11. ASSUME NEW i \in 1 .. n + 1, NEW j \in 1 .. Len(ss[i])
       PROVE  \E k \in 1 .. m + p : r[k] = i /\ c[k] = j
    <2>1. CASE i \in 1 .. n
        <3>1. PICK k \in 1 .. m : row[k] = i /\ col[k] = j BY <1>5, <2>1
        <3>2. k \in 1 .. m + p BY <1>1
        <3>. QED BY <1>7, <3>1, <3>2
    <2>2. CASE i = n + 1
        <3>1. j \in 1 .. p BY <1>6, <2>2
        <3>2. m + j \in m + 1 .. m + p /\ m + j \in 1 .. m + p /\ (m + j) - m = j BY <1>1, <3>1
        <3>. QED BY <1>7, <2>2, <3>2
    <2>. QED BY <2>1, <2>2
<1>12. Laid(u, ss, n + 1, r, c) BY <1>2, <1>8, <1>9, <1>10, <1>11 DEF Laid
<1>. QED BY <1>12 DEF u

\* What FlattenSeq returns
LEMMA Flattened ==
    ASSUME NEW S, NEW ss, NEW n \in Nat, n = Len(ss), n = 0 => ss = <<>>,
           \A i \in 1 .. n : ss[i] \in Seq(S)
    PROVE  /\ FlattenSeq(ss) \in Seq(S)
           /\ \E row, col : Laid(FlattenSeq(ss), ss, n, row, col)
<1>1. CASE n = 0
    <2>1. FlattenSeq(ss) = <<>> BY <1>1 DEF FlattenSeq
    <2>2. Laid(<<>>, ss, 0, <<>>, <<>>) BY DEF Laid
    <2>. QED BY <1>1, <2>1, <2>2
<1>2. CASE n # 0
    <2>1. PICK f : Flattens(f, ss, n) /\ FlattenSeq(ss) = f[n] BY <1>2, FlattenSteps
    <2>2. \A i \in 1 .. n : f[i] = IF i = 1 THEN ss[i] ELSE f[i - 1] \o ss[i]
        BY <2>1 DEF Flattens
    <2>. DEFINE Good(i) == f[i] \in Seq(S) /\ \E row, col : Laid(f[i], ss, i, row, col)
                T == {m \in Nat : m + 1 \in 1 .. n => Good(m + 1)}
    <2>3. Good(1)
        <3>1. f[1] = ss[1] /\ ss[1] \in Seq(S) BY <1>2, <2>2
        <3>. QED BY <3>1, LaidFirst
    <2>4. ASSUME NEW m \in Nat, m + 1 \in 1 .. n => Good(m + 1), m + 2 \in 1 .. n
          PROVE  Good(m + 2)
        <3>1. /\ m + 1 \in 1 .. n /\ m + 1 \in Nat /\ (m + 1) + 1 = m + 2
              /\ m + 2 \in 1 .. n /\ m + 2 # 1 /\ (m + 2) - 1 = m + 1
            <4>. HIDE DEF Good
            <4>. QED BY <2>4
        <3>2. f[m + 2] = f[m + 1] \o ss[m + 2]
            <4>1. f[m + 2] = IF m + 2 = 1 THEN ss[m + 2] ELSE f[(m + 2) - 1] \o ss[m + 2]
                <5>. HIDE DEF Good, T
                <5>. QED BY <2>2, <3>1
            <4>. HIDE DEF Good, T
            <4>. QED BY <4>1, <3>1
        <3>3. f[m + 1] \in Seq(S) /\ ss[m + 2] \in Seq(S) BY <2>4, <3>1
        <3>4. PICK row, col : Laid(f[m + 1], ss, m + 1, row, col) BY <2>4, <3>1
        <3>5. \E r, c : Laid(f[m + 1] \o ss[m + 2], ss, m + 2, r, c)
            BY <3>1, <3>3, <3>4, LaidNext
        <3>6. f[m + 1] \o ss[m + 2] \in Seq(S) BY <3>3, ConcatProperties
        <3>. QED BY <3>2, <3>5, <3>6
    <2>5. 0 \in T BY <2>3
    <2>6. ASSUME NEW m \in Nat, m \in T PROVE m + 1 \in T
        <3>1. (m + 1) + 1 = m + 2 OBVIOUS
        <3>2. m + 1 \in 1 .. n => Good(m + 1) BY <2>6
        <3>3. m + 2 \in 1 .. n => Good(m + 2) BY <2>4, <3>2
        <3>. HIDE DEF Good
        <3>. QED BY <3>1, <3>3
    <2>. HIDE DEF T
    <2>7. Nat \subseteq T BY <2>5, <2>6, Induction
    <2>8. n - 1 \in T /\ (n - 1) + 1 = n BY <1>2, <2>7
    <2>. HIDE DEF Good
    <2>9. Good(n) BY <1>2, <2>8 DEF T
    <2>. QED BY <2>1, <2>9 DEF Good
<1>. QED BY <1>1, <1>2

-----------------------------------------------------------------------------
(* Only *)

\* Element k of t is element e[k] of s: those that are in S, in their order.
Placed(t, s, S, e) ==
    /\ e \in [1 .. Len(t) -> 1 .. Len(s)]
    /\ \A k \in 1 .. Len(t) : t[k] = s[e[k]] /\ s[e[k]] \in S
    /\ \A k, l \in 1 .. Len(t) : k < l => e[k] < e[l]
    /\ \A i \in 1 .. Len(s) : s[i] \in S => \E k \in 1 .. Len(t) : e[k] = i

LEMMA OnlyPlaces ==
    ASSUME NEW A, NEW s \in Seq(A), NEW S
    PROVE  /\ Only(s, S) \in Seq(A)
           /\ \E e : Placed(Only(s, S), s, S, e)
<1>1. PICK n \in Nat : n = Len(s) OBVIOUS
<1>2. DOMAIN s = 1 .. n /\ \A i \in 1 .. n : s[i] \in A BY <1>1
<1>3. PICK ss : ss = [i \in DOMAIN s |-> IF s[i] \in S THEN <<s[i]>> ELSE <<>>] OBVIOUS
<1>4. Only(s, S) = FlattenSeq(ss) BY <1>3 DEF Only
<1>5. /\ \A i \in 1 .. n : s[i] \in S => ss[i] = <<s[i]>>
      /\ \A i \in 1 .. n : s[i] \notin S => ss[i] = <<>>
    BY <1>2, <1>3
<1>6. ss \in Seq(Seq(A)) /\ n = Len(ss)
    <2>1. ASSUME NEW i \in 1 .. n PROVE ss[i] \in Seq(A)
        <3>1. CASE s[i] \in S
            <4>1. s[i] \in A /\ ss[i] = <<s[i]>> BY <1>2, <1>5, <3>1
            <4>. QED BY <4>1
        <3>2. CASE s[i] \notin S
            <4>1. ss[i] = <<>> BY <1>5, <3>2
            <4>. QED BY <4>1
        <3>. QED BY <3>1, <3>2
    <2>2. ss = [i \in 1 .. n |-> ss[i]] BY <1>2, <1>3
    <2>3. ss \in [1 .. n -> Seq(A)] BY <2>1, <2>2
    <2>. QED BY <2>3, <1>1, SeqDef, LenProperties
<1>7. n = 0 => ss = <<>> BY <1>6, EmptySeq
<1>8. PICK t : t = FlattenSeq(ss) OBVIOUS
<1>9. \A i \in 1 .. n : ss[i] \in Seq(A) BY <1>6
<1>10. t \in Seq(A) /\ \E row, col : Laid(t, ss, n, row, col)
    BY <1>6, <1>7, <1>8, <1>9, Flattened
<1>11. PICK row, col : Laid(t, ss, n, row, col) BY <1>10
<1>12. PICK m \in Nat : m = Len(t) BY <1>10
<1>13. /\ row \in [1 .. m -> Nat] /\ col \in [1 .. m -> Nat]
       /\ \A k \in 1 .. m :
            row[k] \in 1 .. n /\ col[k] \in 1 .. Len(ss[row[k]]) /\ t[k] = ss[row[k]][col[k]]
       /\ \A k, l \in 1 .. m :
            k < l => row[k] < row[l] \/ (row[k] = row[l] /\ col[k] < col[l])
       /\ \A i \in 1 .. n : \A j \in 1 .. Len(ss[i]) :
            \E k \in 1 .. m : row[k] = i /\ col[k] = j
    BY <1>11, <1>12 DEF Laid
<1>14. /\ \A i \in 1 .. n : s[i] \in S => Len(ss[i]) = 1 /\ ss[i][1] = s[i]
       /\ \A i \in 1 .. n : s[i] \notin S => Len(ss[i]) = 0
    <2>1. ASSUME NEW i \in 1 .. n, s[i] \in S PROVE Len(ss[i]) = 1 /\ ss[i][1] = s[i]
        <3>1. ss[i] = <<s[i]>> BY <1>5, <2>1
        <3>. QED BY <3>1
    <2>2. ASSUME NEW i \in 1 .. n, s[i] \notin S PROVE Len(ss[i]) = 0
        <3>1. ss[i] = <<>> BY <1>5, <2>2
        <3>. QED BY <3>1
    <2>. QED BY <2>1, <2>2
<1>15. ASSUME NEW k \in 1 .. m
       PROVE  s[row[k]] \in S /\ t[k] = s[row[k]] /\ col[k] = 1 /\ row[k] \in 1 .. n
    <2>1. row[k] \in 1 .. n /\ col[k] \in 1 .. Len(ss[row[k]]) /\ t[k] = ss[row[k]][col[k]]
        BY <1>13
    <2>2. s[row[k]] \in S BY <2>1, <1>14
    <2>3. Len(ss[row[k]]) = 1 BY <2>1, <2>2, <1>14
    <2>4. col[k] = 1 BY <2>1, <2>3
    <2>. QED BY <2>1, <2>2, <2>4, <1>14
<1>16. \A k, l \in 1 .. m : k < l => row[k] < row[l] BY <1>13, <1>15
<1>17. ASSUME NEW i \in 1 .. n, s[i] \in S PROVE \E k \in 1 .. m : row[k] = i
    <2>1. 1 \in 1 .. Len(ss[i]) BY <1>14, <1>17
    <2>. QED BY <1>13, <2>1
<1>18. row \in [1 .. m -> 1 .. n] BY <1>13, <1>15
<1>19. t = Only(s, S) BY <1>4, <1>8
<1>20. Placed(t, s, S, row)
    BY <1>1, <1>12, <1>15, <1>16, <1>17, <1>18 DEF Placed
<1>. QED BY <1>10, <1>19, <1>20

\* The elements of Only(s, S) are those of s that are in S.
LEMMA OnlyRange ==
    ASSUME NEW A, NEW s \in Seq(A), NEW S
    PROVE  /\ Only(s, S) \in Seq(A)
           /\ Range(Only(s, S)) = Range(s) \cap S
<1>1. PICK t : t = Only(s, S) OBVIOUS
<1>2. t \in Seq(A) /\ \E e : Placed(t, s, S, e) BY <1>1, OnlyPlaces
<1>3. PICK e : Placed(t, s, S, e) BY <1>2
<1>4. /\ e \in [1 .. Len(t) -> 1 .. Len(s)]
      /\ \A k \in 1 .. Len(t) : t[k] = s[e[k]] /\ s[e[k]] \in S
      /\ \A k, l \in 1 .. Len(t) : k < l => e[k] < e[l]
      /\ \A i \in 1 .. Len(s) : s[i] \in S => \E k \in 1 .. Len(t) : e[k] = i
    BY <1>3 DEF Placed
<1>5. DOMAIN t = 1 .. Len(t) /\ DOMAIN s = 1 .. Len(s) BY <1>2
<1>6. ASSUME NEW x \in Range(t) PROVE x \in Range(s) \cap S
    BY <1>4, <1>5 DEF Range
<1>7. ASSUME NEW x \in Range(s) \cap S PROVE x \in Range(t)
    <2>1. PICK i \in 1 .. Len(s) : s[i] = x BY <1>5 DEF Range
    <2>2. PICK k \in 1 .. Len(t) : e[k] = i BY <1>4, <2>1
    <2>. QED BY <1>4, <1>5, <2>1, <2>2 DEF Range
<1>. QED BY <1>1, <1>2, <1>6, <1>7

\* The last element of Only(s, S) is the last one of s that is in S.
LEMMA OnlyLast ==
    ASSUME NEW A, NEW s \in Seq(A), NEW S, NEW q \in 1 .. Len(s), s[q] \in S,
           \A x \in 1 .. Len(s) : q < x => s[x] \notin S
    PROVE  Only(s, S) # <<>> /\ Last(Only(s, S)) = s[q]
<1>1. PICK t : t = Only(s, S) OBVIOUS
<1>2. t \in Seq(A) /\ \E e : Placed(t, s, S, e) BY <1>1, OnlyPlaces
<1>3. PICK e : Placed(t, s, S, e) BY <1>2
<1>4. /\ e \in [1 .. Len(t) -> 1 .. Len(s)]
      /\ \A k \in 1 .. Len(t) : t[k] = s[e[k]] /\ s[e[k]] \in S
      /\ \A k, l \in 1 .. Len(t) : k < l => e[k] < e[l]
      /\ \A i \in 1 .. Len(s) : s[i] \in S => \E k \in 1 .. Len(t) : e[k] = i
    BY <1>3 DEF Placed
<1>5. PICK l \in 1 .. Len(t) : e[l] = q BY <1>4
<1>6. PICK z \in Nat : z = Len(t) BY <1>2
<1>7. z \in 1 .. Len(t) /\ l <= z BY <1>5, <1>6
<1>8. e[z] \in 1 .. Len(s) /\ ~(q < e[z]) BY <1>4, <1>7
<1>9. l = z
    <2>1. l < z => q < e[z] BY <1>4, <1>5, <1>7
    <2>. QED BY <1>5, <1>6, <1>7, <1>8, <2>1
<1>10. t[z] = s[q] BY <1>4, <1>5, <1>7, <1>9
<1>11. t # <<>> BY <1>6, <1>7
<1>. QED BY <1>1, <1>6, <1>10, <1>11 DEF Last

\* No element twice
Distinct(s) == \A i, j \in 1 .. Len(s) : s[i] = s[j] => i = j

LEMMA OnlyDistinct ==
    ASSUME NEW A, NEW s \in Seq(A), NEW S, Distinct(s)
    PROVE  Distinct(Only(s, S))
<1>1. PICK t : t = Only(s, S) OBVIOUS
<1>2. t \in Seq(A) /\ \E e : Placed(t, s, S, e) BY <1>1, OnlyPlaces
<1>3. PICK e : Placed(t, s, S, e) BY <1>2
<1>4. /\ e \in [1 .. Len(t) -> 1 .. Len(s)]
      /\ \A k \in 1 .. Len(t) : t[k] = s[e[k]] /\ s[e[k]] \in S
      /\ \A k, l \in 1 .. Len(t) : k < l => e[k] < e[l]
      /\ \A i \in 1 .. Len(s) : s[i] \in S => \E k \in 1 .. Len(t) : e[k] = i
    BY <1>3 DEF Placed
<1>5. ASSUME NEW k \in 1 .. Len(t), NEW l \in 1 .. Len(t), t[k] = t[l]
      PROVE  k = l
    <2>1. e[k] = e[l] BY <1>4, <1>5 DEF Distinct
    <2>2. Len(t) \in Nat BY <1>2
    <2>. QED BY <1>4, <2>1, <2>2
<1>. QED BY <1>1, <1>5 DEF Distinct

\* A sequence that has every element of a set once is as long as the set is large.
LEMMA DistinctOnce ==
    ASSUME NEW A, NEW s \in Seq(A), Distinct(s)
    PROVE  Once(s, Range(s))
<1>1. PICK n \in Nat : n = Len(s) OBVIOUS
<1>2. s \in [1 .. n -> Range(s)] /\ DOMAIN s = 1 .. n BY <1>1 DEF Range
<1>3. \A i, j \in 1 .. n : s[i] = s[j] => i = j BY <1>1 DEF Distinct
<1>4. \A x \in Range(s) : \E i \in 1 .. n : s[i] = x BY <1>2 DEF Range
<1>5. s \in Bijection(1 .. n, Range(s))
    BY <1>2, <1>3, <1>4 DEF Bijection, Injection, Surjection, IsInjective
<1>6. ExistsBijection(1 .. n, Range(s)) BY <1>5 DEF ExistsBijection
<1>7. Cardinality(Range(s)) = n BY <1>6, FS_CountingElements
<1>. QED BY <1>1, <1>7 DEF Once

-----------------------------------------------------------------------------
(* The schemas do not change, and nothing that is made of them does. *)

Made(n) == Deployed(n, Message(n))

LEMMA SamePlan ==
    ASSUME app' = app, schema' = schema, NEW n
    PROVE  Made(n)' = Made(n)
<1>1. \A tag : Items(tag)' = Items(tag) BY DEF Items
<1>2. \A b : Paired(b)' = Paired(b) BY <1>1 DEF Paired
<1>3. Mapped' = Mapped BY <1>1, <1>2 DEF Mapped
<1>4. \A m : ComponentsOf(m)' = ComponentsOf(m) BY <1>3 DEF ComponentsOf
<1>5. \A c : NodeOf(c)' = NodeOf(c) BY <1>3 DEF NodeOf
<1>6. \A c : ConnectionsOf(c)' = ConnectionsOf(c) BY DEF ConnectionsOf
<1>7. \A m, c : RemoteMaps(m, c)' = RemoteMaps(m, c) BY <1>5, <1>6 DEF RemoteMaps
<1>8. Message(n)' = Message(n) BY <1>4, <1>6, <1>7 DEF Message
<1>9. \A m, msg : Routes(m, msg)' = Routes(m, msg) BY DEF Routes
<1>10. \A m, msg : Deployed(m, msg)' = Deployed(m, msg) BY <1>9 DEF Deployed
<1>. QED BY <1>8, <1>10 DEF Made

-----------------------------------------------------------------------------
(* FlattenSeq again: what it holds *)

LEMMA FlattenLaid ==
    ASSUME NEW S, NEW n \in Nat, NEW ss \in [1 .. n -> Seq(S)]
    PROVE  /\ FlattenSeq(ss) \in Seq(S)
           /\ \E row, col : Laid(FlattenSeq(ss), ss, n, row, col)
<1>1. ss \in Seq(Seq(S)) /\ Len(ss) = n BY SeqDef, LenProperties
<1>2. n = 0 => ss = <<>> BY <1>1, EmptySeq
<1>3. \A i \in 1 .. n : ss[i] \in Seq(S) OBVIOUS
<1>. QED BY <1>1, <1>2, <1>3, Flattened

LEMMA FlattenRange ==
    ASSUME NEW S, NEW n \in Nat, NEW ss \in [1 .. n -> Seq(S)]
    PROVE  /\ FlattenSeq(ss) \in Seq(S)
           /\ \A x : x \in Range(FlattenSeq(ss)) <=> \E i \in 1 .. n : x \in Range(ss[i])
<1>1. PICK t : t = FlattenSeq(ss) OBVIOUS
<1>2. t \in Seq(S) /\ \E row, col : Laid(t, ss, n, row, col) BY <1>1, FlattenLaid
<1>3. PICK row, col : Laid(t, ss, n, row, col) BY <1>2
<1>4. /\ \A k \in 1 .. Len(t) :
            row[k] \in 1 .. n /\ col[k] \in 1 .. Len(ss[row[k]]) /\ t[k] = ss[row[k]][col[k]]
      /\ \A i \in 1 .. n : \A j \in 1 .. Len(ss[i]) :
            \E k \in 1 .. Len(t) : row[k] = i /\ col[k] = j
    BY <1>3 DEF Laid
<1>5. DOMAIN t = 1 .. Len(t) /\ \A i \in 1 .. n : DOMAIN ss[i] = 1 .. Len(ss[i]) BY <1>2
<1>6. ASSUME NEW x \in Range(t) PROVE \E i \in 1 .. n : x \in Range(ss[i])
    <2>1. PICK k \in 1 .. Len(t) : t[k] = x BY <1>5 DEF Range
    <2>2. row[k] \in 1 .. n /\ col[k] \in 1 .. Len(ss[row[k]]) /\ x = ss[row[k]][col[k]]
        BY <1>4, <2>1
    <2>3. x \in Range(ss[row[k]]) BY <1>5, <2>2 DEF Range
    <2>. QED BY <2>2, <2>3
<1>7. ASSUME NEW i \in 1 .. n, NEW x \in Range(ss[i]) PROVE x \in Range(t)
    <2>1. PICK j \in 1 .. Len(ss[i]) : ss[i][j] = x BY <1>5 DEF Range
    <2>2. PICK k \in 1 .. Len(t) : row[k] = i /\ col[k] = j BY <1>4, <2>1
    <2>3. t[k] = x BY <1>4, <2>1, <2>2
    <2>. QED BY <1>5, <2>3 DEF Range
<1>. QED BY <1>1, <1>2, <1>6, <1>7

LEMMA FlattenDistinct ==
    ASSUME NEW S, NEW n \in Nat, NEW ss \in [1 .. n -> Seq(S)],
           \A i \in 1 .. n : Distinct(ss[i]),
           \A i, j \in 1 .. n : i # j => Range(ss[i]) \cap Range(ss[j]) = {}
    PROVE  Distinct(FlattenSeq(ss))
<1>1. PICK t : t = FlattenSeq(ss) OBVIOUS
<1>2. t \in Seq(S) /\ \E row, col : Laid(t, ss, n, row, col) BY <1>1, FlattenLaid
<1>3. PICK row, col : Laid(t, ss, n, row, col) BY <1>2
<1>4. /\ row \in [1 .. Len(t) -> Nat] /\ col \in [1 .. Len(t) -> Nat]
      /\ \A k \in 1 .. Len(t) :
            row[k] \in 1 .. n /\ col[k] \in 1 .. Len(ss[row[k]]) /\ t[k] = ss[row[k]][col[k]]
      /\ \A k, l \in 1 .. Len(t) :
            k < l => row[k] < row[l] \/ (row[k] = row[l] /\ col[k] < col[l])
    BY <1>3 DEF Laid
<1>5. \A i \in 1 .. n : DOMAIN ss[i] = 1 .. Len(ss[i]) OBVIOUS
<1>6. ASSUME NEW k \in 1 .. Len(t), NEW l \in 1 .. Len(t), k < l PROVE t[k] # t[l]
    <2>1. row[k] < row[l] \/ (row[k] = row[l] /\ col[k] < col[l]) BY <1>4, <1>6
    <2>2. /\ row[k] \in 1 .. n /\ col[k] \in 1 .. Len(ss[row[k]]) /\ t[k] = ss[row[k]][col[k]]
          /\ row[l] \in 1 .. n /\ col[l] \in 1 .. Len(ss[row[l]]) /\ t[l] = ss[row[l]][col[l]]
        BY <1>4
    <2>3. CASE row[k] < row[l]
        <3>1. row[k] # row[l] BY <2>2, <2>3
        <3>2. t[k] \in Range(ss[row[k]]) /\ t[l] \in Range(ss[row[l]])
            BY <1>5, <2>2 DEF Range
        <3>. QED BY <2>2, <3>1, <3>2
    <2>4. CASE row[k] = row[l] /\ col[k] < col[l]
        <3>1. Distinct(ss[row[k]]) BY <2>2
        <3>2. col[k] # col[l] BY <2>2, <2>4
        <3>. QED BY <2>2, <2>4, <3>1, <3>2 DEF Distinct
    <2>. QED BY <2>1, <2>3, <2>4
<1>7. Len(t) \in Nat BY <1>2
<1>8. ASSUME NEW k \in 1 .. Len(t), NEW l \in 1 .. Len(t), t[k] = t[l] PROVE k = l
    BY <1>6, <1>7, <1>8
<1>. QED BY <1>1, <1>8 DEF Distinct

-----------------------------------------------------------------------------
(* deploy_configuration: what the maps hold *)

Typed == app \in Seq(Connection) /\ schema \in Seq(Tags)

LEMMA ParsedType ==
    ASSUME NEW A, NEW s \in Seq(A) PROVE Parsed(s) \in Seq(A)
<1>. DEFINE bad == {i \in DOMAIN s : s[i].tag = "other"}
<1>1. CASE bad = {} BY <1>1 DEF Parsed
<1>2. CASE bad # {}
    <2>1. DOMAIN s = 1 .. Len(s) /\ Len(s) \in Nat OBVIOUS
    <2>2. bad \in SUBSET Nat /\ bad \subseteq 1 .. Len(s) BY <2>1
    <2>. HIDE DEF bad
    <2>3. Min(bad) \in 1 .. Len(s) BY <1>2, <2>2, Minimum
    <2>4. PICK m : m = Min(bad) - 1 OBVIOUS
    <2>5. m \in 0 .. Len(s) BY <2>1, <2>3, <2>4
    <2>6. SubSeq(s, 1, m) \in Seq(A) BY <2>1, <2>5, SubSeqProperties
    <2>. QED BY <1>2, <2>4, <2>6 DEF Parsed, bad
<1>. QED BY <1>1, <1>2

LEMMA ItemsType ==
    ASSUME Typed, NEW tag
    PROVE  Items(tag) \in Seq(Tags) /\ \A i \in Range(Items(tag)) : i \in Tags /\ i.tag = tag
<1>1. Parsed(schema) \in Seq(Tags) BY ParsedType DEF Typed
<1>2. PICK S : S = {i \in Tags : i.tag = tag} OBVIOUS
<1>3. Items(tag) = Only(Parsed(schema), S) BY <1>2 DEF Items
<1>. QED BY <1>1, <1>2, <1>3, OnlyRange

\* The mappings, in order
LEMMA MapItems ==
    ASSUME Typed
    PROVE  /\ Items("map") \in Seq(Tags)
           /\ DOMAIN Items("map") = 1 .. Len(Items("map"))
           /\ \A k \in DOMAIN Items("map") :
                Items("map")[k].comp \in Comps /\ Items("map")[k].node \in Bases
<1>1. Items("map") \in Seq(Tags) /\ \A i \in Range(Items("map")) : i.tag = "map"
    BY ItemsType
<1>2. \A i \in Tags : i.tag = "map" => i.comp \in Comps /\ i.node \in Bases BY DEF Tags
<1>3. \A k \in DOMAIN Items("map") : Items("map")[k] \in Range(Items("map")) BY DEF Range
<1>4. \A k \in DOMAIN Items("map") : Items("map")[k] \in Tags BY <1>1
<1>. QED BY <1>1, <1>2, <1>3, <1>4

\* What a mapping becomes
ToPair(i) == [comp |-> i.comp, node |-> Pair(i.node)]
ToPlain(i) == [comp |-> i.comp, node |-> Plain(i.node)]
Both(i) == (IF Paired(i.node) THEN <<ToPair(i)>> ELSE <<>>) \o <<ToPlain(i)>>

LEMMA BothIs ==
    ASSUME Typed, NEW k \in DOMAIN Items("map"), NEW i, i = Items("map")[k]
    PROVE  /\ ToPair(i) \in Maps /\ ToPlain(i) \in Maps
           /\ Paired(i.node) => Both(i) = <<ToPair(i), ToPlain(i)>>
           /\ ~Paired(i.node) => Both(i) = <<ToPlain(i)>>
           /\ Both(i) \in Seq(Maps)
<1>1. i.comp \in Comps /\ i.node \in Bases BY MapItems
<1>2. Pair(i.node) \in Names /\ Plain(i.node) \in Names BY <1>1 DEF Pair, Plain, Names
<1>3. ToPair(i) \in Maps /\ ToPlain(i) \in Maps BY <1>1, <1>2 DEF ToPair, ToPlain, Maps
<1>4. PICK x, y : x = ToPair(i) /\ y = ToPlain(i) OBVIOUS
<1>5. x \in Maps /\ y \in Maps BY <1>3, <1>4
<1>6. CASE Paired(i.node)
    <2>1. Both(i) = <<x>> \o <<y>> BY <1>4, <1>6 DEF Both
    <2>2. <<x>> \o <<y>> = <<x, y>>
        <3>1. <<x>> \in Seq(Maps) /\ <<y>> \in Seq(Maps) BY <1>5
        <3>2. PICK s, u : s = <<x>> /\ u = <<y>> OBVIOUS
        <3>3. Len(s) = 1 /\ Len(u) = 1 /\ s[1] = x /\ u[1] = y BY <3>2
        <3>4. /\ s \o u \in Seq(Maps) /\ Len(s \o u) = 2
              /\ (s \o u)[1] = x /\ (s \o u)[2] = y
            BY <3>1, <3>2, <3>3, ConcatProperties
        <3>5. PICK v, w : v = s \o u /\ w = <<x, y>> OBVIOUS
        <3>6. w \in Seq(Maps) /\ Len(w) = 2 /\ w[1] = x /\ w[2] = y BY <1>5, <3>5
        <3>7. \A j \in 1 .. Len(v) : v[j] = w[j] BY <3>4, <3>5, <3>6
        <3>8. v = w BY <3>4, <3>5, <3>6, <3>7, SeqEqual
        <3>. QED BY <3>2, <3>5, <3>8
    <2>3. <<x, y>> \in Seq(Maps) BY <1>5
    <2>. QED BY <1>3, <1>4, <1>6, <2>1, <2>2, <2>3
<1>7. CASE ~Paired(i.node)
    <2>1. Both(i) = <<>> \o <<y>> BY <1>4, <1>7 DEF Both
    <2>2. <<>> \o <<y>> = <<y>> OBVIOUS
    <2>3. <<y>> \in Seq(Maps) BY <1>5
    <2>. QED BY <1>3, <1>4, <1>7, <2>1, <2>2, <2>3
<1>. QED BY <1>6, <1>7

LEMMA MappedIs ==
    ASSUME Typed
    PROVE  \E ss : /\ ss \in [1 .. Len(Items("map")) -> Seq(Maps)]
                   /\ \A k \in DOMAIN Items("map") : ss[k] = Both(Items("map")[k])
                   /\ Mapped = FlattenSeq(ss)
<1>1. PICK ss : ss = [k \in DOMAIN Items("map") |-> Both(Items("map")[k])] OBVIOUS
<1>2. \A k \in DOMAIN Items("map") : Both(Items("map")[k]) \in Seq(Maps) BY BothIs
<1>3. ss \in [1 .. Len(Items("map")) -> Seq(Maps)] BY <1>1, <1>2, MapItems
<1>4. Mapped = FlattenSeq(ss) BY <1>1 DEF Mapped, Both, ToPair, ToPlain
<1>. QED BY <1>1, <1>3, <1>4

LEMMA MappedType ==
    ASSUME Typed
    PROVE  /\ Mapped \in Seq(Maps)
           /\ \A m \in Range(Mapped) : m \in Maps
           /\ \A m : m \in Range(Mapped) <=>
                \E k \in DOMAIN Items("map") : m \in Range(Both(Items("map")[k]))
<1>1. PICK ss : /\ ss \in [1 .. Len(Items("map")) -> Seq(Maps)]
                /\ \A k \in DOMAIN Items("map") : ss[k] = Both(Items("map")[k])
                /\ Mapped = FlattenSeq(ss)
    BY MappedIs
<1>2. PICK n \in Nat : n = Len(Items("map")) /\ DOMAIN Items("map") = 1 .. n BY MapItems
<1>3. /\ Mapped \in Seq(Maps)
      /\ \A m : m \in Range(Mapped) <=> \E k \in 1 .. n : m \in Range(ss[k])
    BY <1>1, <1>2, FlattenRange
<1>4. \A m \in Range(Mapped) : m \in Maps BY <1>3 DEF Range
<1>. QED BY <1>1, <1>2, <1>3, <1>4

LEMMA ComponentsOfIs ==
    ASSUME Typed, NEW n
    PROVE  /\ ComponentsOf(n) \in Seq(Comps)
           /\ \A c : c \in Range(ComponentsOf(n)) <=> [comp |-> c, node |-> n] \in Range(Mapped)
<1>1. PICK here : here = Only(Mapped, {m \in Maps : m.node = n}) OBVIOUS
<1>2. here \in Seq(Maps) /\ Range(here) = Range(Mapped) \cap {m \in Maps : m.node = n}
    BY <1>1, MappedType, OnlyRange
<1>3. ComponentsOf(n) = [k \in DOMAIN here |-> here[k].comp] BY <1>1 DEF ComponentsOf
<1>4. DOMAIN here = 1 .. Len(here) /\ Len(here) \in Nat BY <1>2
<1>5. \A m \in Maps : m.comp \in Comps /\ m = [comp |-> m.comp, node |-> m.node] BY DEF Maps
<1>6. \A k \in DOMAIN here : here[k] \in Maps BY <1>2
<1>7. ComponentsOf(n) \in Seq(Comps)
    <2>1. ComponentsOf(n) \in [1 .. Len(here) -> Comps] BY <1>3, <1>4, <1>5, <1>6
    <2>. QED BY <2>1, <1>4, SeqDef
<1>8. ASSUME NEW c \in Range(ComponentsOf(n))
      PROVE  [comp |-> c, node |-> n] \in Range(Mapped)
    <2>1. PICK k \in DOMAIN here : c = here[k].comp BY <1>3 DEF Range
    <2>2. here[k] \in Range(here) BY DEF Range
    <2>3. here[k] \in Range(Mapped) /\ here[k] \in Maps /\ here[k].node = n BY <1>2, <2>2
    <2>4. here[k] = [comp |-> c, node |-> n] BY <1>5, <2>1, <2>3
    <2>. QED BY <2>3, <2>4
<1>9. ASSUME NEW c, [comp |-> c, node |-> n] \in Range(Mapped)
      PROVE  c \in Range(ComponentsOf(n))
    <2>1. PICK m : m = [comp |-> c, node |-> n] OBVIOUS
    <2>2. m \in Maps /\ m.node = n /\ m.comp = c BY <1>9, <2>1, MappedType
    <2>3. m \in Range(here) BY <1>2, <1>9, <2>1, <2>2
    <2>4. PICK k \in DOMAIN here : here[k] = m BY <2>3 DEF Range
    <2>. QED BY <1>3, <2>2, <2>4 DEF Range
<1>. QED BY <1>7, <1>8, <1>9

LEMMA NodeOfIs ==
    ASSUME Typed, NEW c
    PROVE  /\ NodeOf(c) = None \/ NodeOf(c) \in Names
           /\ NodeOf(c) # None => [comp |-> c, node |-> NodeOf(c)] \in Range(Mapped)
<1>1. PICK its : its = Only(Mapped, {m \in Maps : m.comp = c}) OBVIOUS
<1>2. its \in Seq(Maps) /\ Range(its) = Range(Mapped) \cap {m \in Maps : m.comp = c}
    BY <1>1, MappedType, OnlyRange
<1>3. CASE its = <<>> BY <1>1, <1>3 DEF NodeOf
<1>4. CASE its # <<>>
    <2>1. NodeOf(c) = its[Len(its)].node BY <1>1, <1>4 DEF NodeOf, Last
    <2>2. Len(its) \in DOMAIN its BY <1>2, <1>4
    <2>3. PICK m : m = its[Len(its)] OBVIOUS
    <2>4. m \in Range(its) BY <2>2, <2>3 DEF Range
    <2>5. m \in Range(Mapped) /\ m \in Maps /\ m.comp = c BY <1>2, <2>4
    <2>6. m = [comp |-> c, node |-> m.node] /\ m.node \in Names BY <2>5 DEF Maps
    <2>. QED BY <2>1, <2>3, <2>5, <2>6
<1>. QED BY <1>3, <1>4

-----------------------------------------------------------------------------
(* async_deploy: what a message holds *)

LEMMA ConsRange ==
    ASSUME NEW A, NEW x \in A, NEW t \in Seq(A)
    PROVE  /\ <<x>> \o t \in Seq(A)
           /\ \A y : y \in Range(<<x>> \o t) <=> y = x \/ y \in Range(t)
<1>1. PICK s : s = <<x>> OBVIOUS
<1>2. s \in Seq(A) /\ Len(s) = 1 /\ s[1] = x BY <1>1
<1>3. PICK u : u = s \o t OBVIOUS
<1>4. PICK m \in Nat : m = Len(t) OBVIOUS
<1>5. /\ u \in Seq(A) /\ Len(u) = m + 1
      /\ u[1] = x /\ \A i \in 1 .. m : u[i + 1] = t[i]
    <2>1. /\ u \in Seq(A) /\ Len(u) = 1 + m
          /\ \A i \in 1 .. 1 + m : u[i] = IF i <= 1 THEN s[i] ELSE t[i - 1]
        <3>1. /\ u \in Seq(A) /\ Len(u) = Len(s) + Len(t)
              /\ \A i \in 1 .. Len(s) + Len(t) :
                    u[i] = IF i <= Len(s) THEN s[i] ELSE t[i - Len(s)]
            BY <1>2, <1>3, ConcatProperties, Zenon
        <3>. QED BY <1>2, <1>4, <3>1
    <2>2. u[1] = x BY <1>2, <2>1
    <2>3. ASSUME NEW i \in 1 .. m PROVE u[i + 1] = t[i]
        <3>1. i + 1 \in 1 .. 1 + m /\ ~(i + 1 <= 1) /\ (i + 1) - 1 = i OBVIOUS
        <3>. QED BY <2>1, <3>1
    <2>. QED BY <2>1, <2>2, <2>3
<1>6. DOMAIN u = 1 .. m + 1 /\ DOMAIN t = 1 .. m BY <1>4, <1>5
<1>7. ASSUME NEW y \in Range(u) PROVE y = x \/ y \in Range(t)
    <2>1. PICK i \in 1 .. m + 1 : u[i] = y BY <1>6 DEF Range
    <2>2. CASE i = 1 BY <1>5, <2>1, <2>2
    <2>3. CASE i # 1
        <3>1. i - 1 \in 1 .. m /\ (i - 1) + 1 = i BY <2>3
        <3>2. t[i - 1] = y BY <1>5, <2>1, <3>1
        <3>. QED BY <1>6, <3>1, <3>2 DEF Range
    <2>. QED BY <2>2, <2>3
<1>8. x \in Range(u)
    <2>1. 1 \in DOMAIN u BY <1>6
    <2>. QED BY <1>5, <2>1 DEF Range
<1>9. ASSUME NEW y \in Range(t) PROVE y \in Range(u)
    <2>1. PICK i \in 1 .. m : t[i] = y BY <1>6 DEF Range
    <2>2. i + 1 \in DOMAIN u BY <1>6
    <2>. QED BY <1>5, <2>1, <2>2 DEF Range
<1>. QED BY <1>1, <1>3, <1>5, <1>7, <1>8, <1>9

LEMMA ConnectionsOfIs ==
    ASSUME Typed, NEW c
    PROVE  /\ ConnectionsOf(c) \in Seq(DOMAIN app)
           /\ Range(ConnectionsOf(c)) = {k \in DOMAIN app : app[k].source = c}
           /\ Distinct(ConnectionsOf(c))
<1>1. PICK all : all = [k \in DOMAIN app |-> k] OBVIOUS
<1>2. DOMAIN app = 1 .. Len(app) /\ Len(app) \in Nat BY DEF Typed
<1>3. all \in Seq(DOMAIN app) /\ Len(all) = Len(app)
    <2>1. all \in [1 .. Len(app) -> DOMAIN app] BY <1>1, <1>2
    <2>. QED BY <1>2, <2>1, SeqDef, LenProperties
<1>4. Range(all) = DOMAIN app BY <1>1 DEF Range
<1>5. Distinct(all) BY <1>1, <1>2, <1>3 DEF Distinct
<1>6. PICK S : S = {k \in DOMAIN app : app[k].source = c} OBVIOUS
<1>7. ConnectionsOf(c) = Only(all, S) BY <1>1, <1>6 DEF ConnectionsOf
<1>8. Only(all, S) \in Seq(DOMAIN app) /\ Range(Only(all, S)) = Range(all) \cap S
    BY <1>3, OnlyRange
<1>9. Distinct(Only(all, S)) BY <1>3, <1>5, OnlyDistinct
<1>. QED BY <1>4, <1>6, <1>7, <1>8, <1>9

\* A map of a message; the node of a component that is nowhere has no name.
RemoteMap == [comp : Comps, node : Names \cup {None}]

LEMMA Ends ==
    ASSUME Typed, NEW k \in DOMAIN app
    PROVE  app[k].source \in Comps /\ app[k].dest \in Comps
<1>1. app[k] \in Connection BY DEF Typed
<1>. QED BY <1>1 DEF Connection

LEMMA RemoteMapsIs ==
    ASSUME Typed, NEW n, NEW c
    PROVE  /\ RemoteMaps(n, c) \in Seq(RemoteMap)
           /\ \A m : m \in Range(RemoteMaps(n, c)) <=>
                \E k \in DOMAIN app :
                    /\ app[k].source = c /\ NodeOf(app[k].dest) # n
                    /\ m = [comp |-> app[k].dest, node |-> NodeOf(app[k].dest)]
<1>1. PICK S : S = {k \in DOMAIN app : NodeOf(app[k].dest) # n} OBVIOUS
<1>2. PICK away : away = Only(ConnectionsOf(c), S) OBVIOUS
<1>3. PICK f : f = [k \in DOMAIN app |->
                        [comp |-> app[k].dest, node |-> NodeOf(app[k].dest)]] OBVIOUS
<1>4. away \in Seq(DOMAIN app) /\ Range(away) = Range(ConnectionsOf(c)) \cap S
    BY <1>2, ConnectionsOfIs, OnlyRange
<1>5. DOMAIN away = 1 .. Len(away) /\ Len(away) \in Nat
      /\ \A j \in DOMAIN away : away[j] \in DOMAIN app
    BY <1>4
<1>6. RemoteMaps(n, c) = [j \in DOMAIN away |-> f[away[j]]]
    BY <1>1, <1>2, <1>3, <1>5 DEF RemoteMaps
<1>7. \A k \in DOMAIN app : f[k] \in RemoteMap BY <1>3, Ends, NodeOfIs DEF RemoteMap
<1>8. RemoteMaps(n, c) \in Seq(RemoteMap)
    <2>1. RemoteMaps(n, c) \in [1 .. Len(away) -> RemoteMap] BY <1>5, <1>6, <1>7
    <2>. QED BY <1>5, <2>1, SeqDef
<1>9. \A m : m \in Range(RemoteMaps(n, c)) <=> \E k \in Range(away) : m = f[k]
    BY <1>6 DEF Range
<1>10. Range(away) = {k \in DOMAIN app : app[k].source = c /\ NodeOf(app[k].dest) # n}
    BY <1>1, <1>4, ConnectionsOfIs
<1>. QED BY <1>3, <1>8, <1>9, <1>10

LEMMA MessageMaps ==
    ASSUME Typed, NEW n \in Names
    PROVE  /\ Message(n).maps \in Seq(RemoteMap)
           /\ \A m : m \in Range(Message(n).maps) <=>
                \E c \in Range(ComponentsOf(n)) :
                    \/ m = [comp |-> c, node |-> n]
                    \/ m \in Range(RemoteMaps(n, c))
<1>1. PICK comps : comps = ComponentsOf(n) OBVIOUS
<1>2. comps \in Seq(Comps) BY <1>1, ComponentsOfIs
<1>3. PICK l \in Nat : l = Len(comps) /\ DOMAIN comps = 1 .. l BY <1>2
<1>. DEFINE F(c) == <<[comp |-> c, node |-> n]>> \o RemoteMaps(n, c)
<1>4. ASSUME NEW c \in Comps
      PROVE  /\ F(c) \in Seq(RemoteMap)
             /\ \A m : m \in Range(F(c)) <=>
                    m = [comp |-> c, node |-> n] \/ m \in Range(RemoteMaps(n, c))
    <2>1. [comp |-> c, node |-> n] \in RemoteMap BY DEF RemoteMap
    <2>2. RemoteMaps(n, c) \in Seq(RemoteMap) BY RemoteMapsIs
    <2>3. PICK x, t : x = [comp |-> c, node |-> n] /\ t = RemoteMaps(n, c) OBVIOUS
    <2>4. /\ <<x>> \o t \in Seq(RemoteMap)
          /\ \A y : y \in Range(<<x>> \o t) <=> y = x \/ y \in Range(t)
        BY <2>1, <2>2, <2>3, ConsRange
    <2>. QED BY <2>3, <2>4
<1>5. PICK ss : ss = [k \in DOMAIN comps |-> F(comps[k])] OBVIOUS
<1>6. Message(n).maps = FlattenSeq(ss) BY <1>1, <1>5 DEF Message
<1>. HIDE DEF F
<1>7. ss \in [1 .. l -> Seq(RemoteMap)] BY <1>2, <1>3, <1>4, <1>5
<1>8. /\ FlattenSeq(ss) \in Seq(RemoteMap)
      /\ \A m : m \in Range(FlattenSeq(ss)) <=> \E i \in 1 .. l : m \in Range(ss[i])
    BY <1>7, FlattenRange
<1>9. \A m : m \in Range(FlattenSeq(ss)) <=> \E c \in Range(comps) : m \in Range(F(c))
    <2>1. \A i \in 1 .. l : ss[i] = F(comps[i]) BY <1>3, <1>5
    <2>2. \A c : c \in Range(comps) <=> \E i \in 1 .. l : comps[i] = c BY <1>3 DEF Range
    <2>. QED BY <1>8, <2>1, <2>2
<1>10. \A c \in Range(comps) : c \in Comps BY <1>2 DEF Range
<1>. QED BY <1>1, <1>4, <1>6, <1>8, <1>9, <1>10

LEMMA MessageConnections ==
    ASSUME Typed, NEW n \in Names
    PROVE  /\ Message(n).connections \in Seq(DOMAIN app)
           /\ Range(Message(n).connections) =
                {k \in DOMAIN app : app[k].source \in Range(ComponentsOf(n))}
           /\ Distinct(ComponentsOf(n)) => Distinct(Message(n).connections)
           /\ Message(n).instances = ComponentsOf(n)
<1>1. PICK comps : comps = ComponentsOf(n) OBVIOUS
<1>2. comps \in Seq(Comps) BY <1>1, ComponentsOfIs
<1>3. PICK l \in Nat : l = Len(comps) /\ DOMAIN comps = 1 .. l BY <1>2
<1>4. PICK ss : ss = [k \in DOMAIN comps |-> ConnectionsOf(comps[k])] OBVIOUS
<1>5. Message(n).connections = FlattenSeq(ss) /\ Message(n).instances = comps
    BY <1>1, <1>4 DEF Message
<1>6. ss \in [1 .. l -> Seq(DOMAIN app)] BY <1>3, <1>4, ConnectionsOfIs
<1>7. /\ FlattenSeq(ss) \in Seq(DOMAIN app)
      /\ \A k : k \in Range(FlattenSeq(ss)) <=> \E i \in 1 .. l : k \in Range(ss[i])
    BY <1>6, FlattenRange
<1>8. \A i \in 1 .. l : Range(ss[i]) = {k \in DOMAIN app : app[k].source = comps[i]}
    BY <1>3, <1>4, ConnectionsOfIs
<1>9. Range(FlattenSeq(ss)) = {k \in DOMAIN app : app[k].source \in Range(comps)}
    <2>1. \A c : c \in Range(comps) <=> \E i \in 1 .. l : comps[i] = c BY <1>3 DEF Range
    <2>. QED BY <1>7, <1>8, <2>1
<1>10. ASSUME Distinct(comps) PROVE Distinct(FlattenSeq(ss))
    <2>1. \A i \in 1 .. l : Distinct(ss[i]) BY <1>3, <1>4, ConnectionsOfIs
    <2>2. \A i, j \in 1 .. l : i # j => comps[i] # comps[j] BY <1>3, <1>10 DEF Distinct
    <2>3. \A i, j \in 1 .. l : i # j => Range(ss[i]) \cap Range(ss[j]) = {}
        BY <1>8, <2>2
    <2>. QED BY <1>6, <2>1, <2>3, FlattenDistinct
<1>. QED BY <1>1, <1>5, <1>7, <1>9, <1>10

-----------------------------------------------------------------------------
(* deploy_from_config: what a node makes of its message *)

LEMMA PlaceIs ==
    ASSUME Typed, NEW n \in Names, NEW c
    PROVE  /\ Place(Message(n), c) \in Names \cup {None}
           /\ IF \E m \in Range(Message(n).maps) : m.comp = c
              THEN [comp |-> c, node |-> Place(Message(n), c)] \in Range(Message(n).maps)
              ELSE Place(Message(n), c) = None
<1>1. PICK maps : maps = Message(n).maps OBVIOUS
<1>2. maps \in Seq(RemoteMap) BY <1>1, MessageMaps
<1>3. PICK its : its = {k \in DOMAIN maps : maps[k].comp = c} OBVIOUS
<1>4. Place(Message(n), c) = IF its = {} THEN None ELSE maps[Min(its)].node
    BY <1>1, <1>3 DEF Place
<1>5. (\E m \in Range(maps) : m.comp = c) <=> its # {} BY <1>3 DEF Range
<1>6. CASE its = {} BY <1>1, <1>4, <1>5, <1>6
<1>7. CASE its # {}
    <2>1. its \in SUBSET Nat BY <1>2, <1>3
    <2>2. Min(its) \in its BY <1>7, <2>1, Minimum
    <2>3. PICK m : m = maps[Min(its)] OBVIOUS
    <2>4. m \in Range(maps) /\ m \in RemoteMap /\ m.comp = c
        <3>1. PICK j : j = Min(its) OBVIOUS
        <3>2. j \in DOMAIN maps /\ maps[j].comp = c BY <1>3, <2>2, <3>1
        <3>3. maps[j] \in RemoteMap BY <1>2, <3>2
        <3>. QED BY <2>3, <3>1, <3>2, <3>3 DEF Range
    <2>5. m = [comp |-> c, node |-> m.node] /\ m.node \in Names \cup {None}
        BY <2>4 DEF RemoteMap
    <2>6. Place(Message(n), c) = m.node BY <1>4, <1>7, <2>3
    <2>. QED BY <1>1, <1>5, <1>7, <2>4, <2>5, <2>6
<1>. QED BY <1>6, <1>7

LEMMA CreatedIs ==
    ASSUME Typed, NEW n \in Names
    PROVE  /\ Created(n, Message(n)) =
                {c \in Range(ComponentsOf(n)) : Place(Message(n), c) = n}
           /\ Created(n, Message(n)) \subseteq Comps
<1>1. Range(ComponentsOf(n)) \subseteq Comps BY ComponentsOfIs DEF Range
<1>. QED BY <1>1, MessageConnections DEF Created

\* The connections of the components made here
From(n) == {k \in DOMAIN app : app[k].source \in Created(n, Message(n))}
To(n, k) == Place(Message(n), app[k].dest)

LEMMA RoutesAre ==
    ASSUME Typed, NEW n \in Names, NEW r, r = Routes(n, Message(n))
    PROVE  /\ r.local \in Seq(DOMAIN app)
           /\ Range(r.local) = {k \in From(n) : To(n, k) = n}
           /\ r.remote \in Seq([conn : DOMAIN app, to : Names \cup {None}])
           /\ Range(r.remote) = {[conn |-> k, to |-> To(n, k)] : k \in {k \in From(n) : To(n, k) # n}}
           /\ Distinct(ComponentsOf(n)) => Distinct(r.local) /\ Distinct(r.remote)
<1>1. PICK msg : msg = Message(n) OBVIOUS
<1>2. PICK mine : mine = Only(msg.connections, From(n)) OBVIOUS
<1>3. /\ mine \in Seq(DOMAIN app) /\ Range(mine) = From(n)
      /\ Distinct(ComponentsOf(n)) => Distinct(mine)
    <2>1. From(n) \subseteq {k \in DOMAIN app : app[k].source \in Range(ComponentsOf(n))}
        BY CreatedIs DEF From
    <2>2. msg.connections \in Seq(DOMAIN app) BY <1>1, MessageConnections
    <2>3. /\ Range(mine) = Range(msg.connections) \cap From(n)
          /\ mine \in Seq(DOMAIN app)
        BY <1>2, <2>2, OnlyRange
    <2>4. From(n) \subseteq Range(msg.connections) BY <1>1, <2>1, MessageConnections
    <2>5. Distinct(msg.connections) => Distinct(mine) BY <1>2, <2>2, OnlyDistinct
    <2>. QED BY <1>1, <2>3, <2>4, <2>5, MessageConnections
<1>4. PICK near : near = Only(mine, {k \in DOMAIN app : To(n, k) = n}) OBVIOUS
<1>5. PICK away : away = Only(mine, {k \in DOMAIN app : To(n, k) # n}) OBVIOUS
<1>6. /\ r.local = near
      /\ r.remote = [j \in DOMAIN away |-> [conn |-> away[j], to |-> To(n, away[j])]]
    BY <1>1, <1>2, <1>4, <1>5 DEF Routes, From, To
<1>7. From(n) \subseteq DOMAIN app BY DEF From
<1>8. /\ near \in Seq(DOMAIN app) /\ Range(near) = {k \in From(n) : To(n, k) = n}
      /\ Distinct(ComponentsOf(n)) => Distinct(near)
    <2>1. /\ near \in Seq(DOMAIN app)
          /\ Range(near) = Range(mine) \cap {k \in DOMAIN app : To(n, k) = n}
        BY <1>3, <1>4, OnlyRange
    <2>2. Distinct(mine) => Distinct(near) BY <1>3, <1>4, OnlyDistinct
    <2>. QED BY <1>3, <1>7, <2>1, <2>2
<1>9. /\ away \in Seq(DOMAIN app) /\ Range(away) = {k \in From(n) : To(n, k) # n}
      /\ Distinct(ComponentsOf(n)) => Distinct(away)
    <2>1. /\ away \in Seq(DOMAIN app)
          /\ Range(away) = Range(mine) \cap {k \in DOMAIN app : To(n, k) # n}
        BY <1>3, <1>5, OnlyRange
    <2>2. Distinct(mine) => Distinct(away) BY <1>3, <1>5, OnlyDistinct
    <2>. QED BY <1>3, <1>7, <2>1, <2>2
<1>10. DOMAIN away = 1 .. Len(away) /\ Len(away) \in Nat
       /\ \A j \in DOMAIN away : away[j] \in DOMAIN app
    BY <1>9
<1>11. \A k : To(n, k) \in Names \cup {None} BY PlaceIs DEF To
<1>12. r.remote \in [1 .. Len(away) -> [conn : DOMAIN app, to : Names \cup {None}]]
    BY <1>6, <1>10, <1>11
<1>13. r.remote \in Seq([conn : DOMAIN app, to : Names \cup {None}]) /\ Len(r.remote) = Len(away)
    <2>1. PICK R, w, l : /\ R = [conn : DOMAIN app, to : Names \cup {None}]
                         /\ w = r.remote /\ l = Len(away)
        OBVIOUS
    <2>2. w \in [1 .. l -> R] /\ l \in Nat BY <1>10, <1>12, <2>1
    <2>3. w \in Seq(R) BY <2>2, SeqDef
    <2>4. Len(w) = l BY <2>2, <2>3, LenProperties
    <2>. QED BY <2>1, <2>3, <2>4
<1>14. \A x : x \in Range(r.remote) <=>
            \E k \in Range(away) : x = [conn |-> k, to |-> To(n, k)]
    BY <1>6 DEF Range
<1>15. Distinct(away) => Distinct(r.remote) BY <1>6, <1>10, <1>13 DEF Distinct
<1>. QED BY <1>6, <1>8, <1>9, <1>13, <1>14, <1>15

\* A map with the node's own name is the one that says that a component belongs here;
\* any other gives the node of the component in map_component_node.
LEMMA MapHolds ==
    ASSUME Typed, NEW n \in Names, NEW c, NEW m,
           [comp |-> c, node |-> m] \in Range(Message(n).maps)
    PROVE  \/ m = n /\ c \in Range(ComponentsOf(n))
           \/ m # n /\ m = NodeOf(c)
<1>1. PICK x : x = [comp |-> c, node |-> m] OBVIOUS
<1>2. x.comp = c /\ x.node = m BY <1>1
<1>3. PICK d \in Range(ComponentsOf(n)) :
        x = [comp |-> d, node |-> n] \/ x \in Range(RemoteMaps(n, d))
    BY <1>1, MessageMaps
<1>4. CASE x = [comp |-> d, node |-> n]
    <2>1. x.comp = d /\ x.node = n BY <1>4
    <2>. QED BY <1>2, <1>3, <2>1
<1>5. CASE x \in Range(RemoteMaps(n, d))
    <2>1. PICK k \in DOMAIN app :
            /\ NodeOf(app[k].dest) # n
            /\ x = [comp |-> app[k].dest, node |-> NodeOf(app[k].dest)]
        BY <1>5, RemoteMapsIs
    <2>2. x.comp = app[k].dest /\ x.node = NodeOf(app[k].dest) BY <2>1
    <2>. QED BY <1>2, <2>1, <2>2
<1>. QED BY <1>3, <1>4, <1>5

LEMMA PlaceHere ==
    ASSUME Typed, NEW n \in Names, NEW c, Place(Message(n), c) = n
    PROVE  c \in Created(n, Message(n))
<1>1. n # None BY DeployPlanAssumption
<1>2. [comp |-> c, node |-> n] \in Range(Message(n).maps) BY <1>1, PlaceIs
<1>3. c \in Range(ComponentsOf(n)) BY <1>2, MapHolds
<1>. QED BY <1>3, CreatedIs

LEMMA PlaceElsewhere ==
    ASSUME Typed, NEW n \in Names, NEW c, NEW m \in Names,
           Place(Message(n), c) = m, m # n
    PROVE  c \in Created(m, Message(m))
<1>1. m # None BY DeployPlanAssumption
<1>2. [comp |-> c, node |-> m] \in Range(Message(n).maps) BY <1>1, PlaceIs
<1>3. m = NodeOf(c) BY <1>2, MapHolds
<1>4. [comp |-> c, node |-> m] \in Range(Mapped) BY <1>1, <1>3, NodeOfIs
<1>5. c \in Range(ComponentsOf(m)) BY <1>4, ComponentsOfIs
<1>6. PICK x : x = [comp |-> c, node |-> m] OBVIOUS
<1>7. x.comp = c BY <1>6
<1>8. x \in Range(Message(m).maps) BY <1>5, <1>6, MessageMaps
<1>9. PICK p : p = Place(Message(m), c) OBVIOUS
<1>10. [comp |-> c, node |-> p] \in Range(Message(m).maps) BY <1>7, <1>8, <1>9, PlaceIs
<1>11. p = m BY <1>3, <1>10, MapHolds
<1>. QED BY <1>5, <1>9, <1>11, CreatedIs

\* What a node ends up with
NodeState == [comps : SUBSET Comps, local : Seq(Nat),
              remote : Seq([conn : Nat, to : Names]), ended : BOOLEAN]

LEMMA MadeType ==
    ASSUME Typed, NEW n \in Names
    PROVE  Made(n) \in NodeState
<1>1. PICK r : r = Routes(n, Message(n)) OBVIOUS
<1>2. DOMAIN app \subseteq Nat BY DEF Typed
<1>3. r.local \in Seq(Nat)
    <2>1. r.local \in Seq(DOMAIN app) BY <1>1, RoutesAre
    <2>. QED BY <1>2, <2>1
<1>4. CASE \E j \in DOMAIN r.remote : r.remote[j].to = None
    <2>1. Made(n) = [comps |-> {}, local |-> <<>>, remote |-> <<>>, ended |-> TRUE]
        BY <1>1, <1>4 DEF Made, Deployed
    <2>2. <<>> \in Seq(Nat) /\ <<>> \in Seq([conn : Nat, to : Names]) OBVIOUS
    <2>3. {} \in SUBSET Comps OBVIOUS
    <2>. QED BY <2>1, <2>2, <2>3 DEF NodeState
<1>5. CASE ~ \E j \in DOMAIN r.remote : r.remote[j].to = None
    <2>1. Made(n) = [comps |-> Created(n, Message(n)), local |-> r.local,
                     remote |-> r.remote, ended |-> FALSE]
        BY <1>1, <1>5 DEF Made, Deployed
    <2>2. PICK w : w = r.remote OBVIOUS
    <2>3. w \in Seq([conn : DOMAIN app, to : Names \cup {None}]) BY <1>1, <2>2, RoutesAre
    <2>4. PICK l \in Nat : l = Len(w) /\ DOMAIN w = 1 .. l BY <2>3
    <2>5. \A j \in 1 .. l : w[j] \in [conn : DOMAIN app, to : Names \cup {None}]
        <3>1. PICK R : R = [conn : DOMAIN app, to : Names \cup {None}] OBVIOUS
        <3>2. w \in Seq(R) BY <2>3, <3>1
        <3>3. \A j \in 1 .. l : w[j] \in R BY <2>4, <3>2
        <3>. QED BY <3>1, <3>3
    <2>6. \A j \in 1 .. l : w[j].to # None BY <1>5, <2>2, <2>4
    <2>7. \A j \in 1 .. l : w[j] \in [conn : Nat, to : Names] BY <1>2, <2>5, <2>6
    <2>8. w \in [1 .. l -> [conn : Nat, to : Names]]
        <3>1. w = [j \in 1 .. l |-> w[j]] BY <2>3, <2>4
        <3>. QED BY <2>7, <3>1
    <2>9. w \in Seq([conn : Nat, to : Names]) BY <2>8, SeqDef
    <2>10. Created(n, Message(n)) \in SUBSET Comps BY CreatedIs
    <2>11. r.remote \in Seq([conn : Nat, to : Names]) BY <2>2, <2>9, Zenon
    <2>. QED BY <1>3, <2>1, <2>10, <2>11 DEF NodeState
<1>. QED BY <1>4, <1>5

LEMMA LocalMade ==
    ASSUME Typed, NEW n \in Names, NEW k \in Range(Made(n).local)
    PROVE  app[k].dest \in Made(n).comps
<1>1. PICK r : r = Routes(n, Message(n)) OBVIOUS
<1>2. CASE \E j \in DOMAIN r.remote : r.remote[j].to = None
    <2>1. Made(n).local = <<>> BY <1>1, <1>2 DEF Made, Deployed
    <2>. QED BY <2>1 DEF Range
<1>3. CASE ~ \E j \in DOMAIN r.remote : r.remote[j].to = None
    <2>1. Made(n).local = r.local /\ Made(n).comps = Created(n, Message(n))
        BY <1>1, <1>3 DEF Made, Deployed
    <2>2. To(n, k) = n BY <1>1, <2>1, RoutesAre
    <2>. QED BY <2>1, <2>2, PlaceHere DEF To
<1>. QED BY <1>2, <1>3

LEMMA RemoteMade ==
    ASSUME Typed, NEW n \in Names, NEW x \in Range(Made(n).remote),
           x.to \in Names, ~Made(x.to).ended
    PROVE  app[x.conn].dest \in Made(x.to).comps
<1>1. PICK r : r = Routes(n, Message(n)) OBVIOUS
<1>2. CASE \E j \in DOMAIN r.remote : r.remote[j].to = None
    <2>1. Made(n).remote = <<>> BY <1>1, <1>2 DEF Made, Deployed
    <2>. QED BY <2>1 DEF Range
<1>3. CASE ~ \E j \in DOMAIN r.remote : r.remote[j].to = None
    <2>1. Made(n).remote = r.remote BY <1>1, <1>3 DEF Made, Deployed
    <2>2. PICK k \in From(n) : To(n, k) # n /\ x = [conn |-> k, to |-> To(n, k)]
        BY <1>1, <2>1, RoutesAre
    <2>3. PICK m : m = x.to OBVIOUS
    <2>4. m \in Names /\ m = To(n, k) /\ m # n /\ x.conn = k BY <2>2, <2>3
    <2>5. app[k].dest \in Created(m, Message(m)) BY <2>4, PlaceElsewhere DEF To
    <2>6. ~Made(m).ended BY <2>3
    <2>7. Made(m).comps = Created(m, Message(m)) BY <2>6 DEF Made, Deployed
    <2>. QED BY <2>3, <2>4, <2>5, <2>7
<1>. QED BY <1>2, <1>3

-----------------------------------------------------------------------------
(* The invariant: a node that is deployed has made what its message says, and *)
(* that is still what the schemas say.                                        *)

PlanInv ==
    /\ TypeOK
    /\ \A n \in Names : Here(n) => nodes[n] = Made(n)
    /\ declared = Comps => ~aborted

LEMMA Schemas ==
    ASSUME TypeOK PROVE Typed
BY DEF TypeOK, Typed

\* The connections that parse_app keeps
LEMMA ConnectionsRead ==
    ASSUME NEW s \in Seq(AppTags) PROVE Only(Parsed(s), Connection) \in Seq(Connection)
<1>1. Parsed(s) \in Seq(AppTags) BY ParsedType
<1>2. PICK t : t = Only(Parsed(s), Connection) OBVIOUS
<1>3. t \in Seq(AppTags) /\ Range(t) \subseteq Connection BY <1>1, <1>2, OnlyRange
<1>4. PICK n \in Nat : n = Len(t) BY <1>3
<1>5. DOMAIN t = 1 .. n /\ t = [k \in 1 .. n |-> t[k]] BY <1>3, <1>4
<1>6. \A k \in 1 .. n : t[k] \in Connection BY <1>3, <1>5 DEF Range
<1>7. t \in [1 .. n -> Connection] BY <1>5, <1>6
<1>. QED BY <1>2, <1>7, SeqDef

\* Only a component that is not declared ends the terminal.
LEMMA AllDeclared ==
    ASSUME Typed, NEW n, declared = Comps PROVE Range(ComponentsOf(n)) \subseteq declared
<1>1. ComponentsOf(n) \in Seq(Comps) BY ComponentsOfIs
<1>2. PICK w : w = ComponentsOf(n) OBVIOUS
<1>3. w \in Seq(Comps) BY <1>1, <1>2
<1>4. \A k \in DOMAIN w : w[k] \in Comps BY <1>3
<1>. QED BY <1>2, <1>4 DEF Range

LEMMA PlanInit ==
    ASSUME Init PROVE PlanInv
<1>1. PICK case \in Cases :
        /\ app = Only(Parsed(case[1]), Connection)
        /\ declared \subseteq Comps
        /\ schema = case[2]
    BY DEF Init
<1>2. case[1] \in Seq(AppTags) /\ case[2] \in Seq(Tags) BY DeployPlanAssumption
<1>3. app \in Seq(Connection) BY <1>1, <1>2, ConnectionsRead
<1>4. nodes = [n \in Names |-> None] /\ aborted = FALSE BY DEF Init
<1>. QED BY <1>1, <1>2, <1>3, <1>4 DEF PlanInv, TypeOK, Here

LEMMA PlanStep ==
    ASSUME PlanInv, [Next]_vars PROVE PlanInv'
<1>1. Typed BY Schemas DEF PlanInv
<1>2. app' = app /\ schema' = schema /\ declared' = declared
    BY DEF Next, Deploy, Abort, vars
<1>3. \A n : Made(n)' = Made(n) BY <1>2, SamePlan
<1>4. (app \in Seq(Connection) /\ declared \subseteq Comps /\ schema \in Seq(Tags))'
    BY <1>2 DEF PlanInv, TypeOK
<1>5. ASSUME NEW n \in Names, Deploy(n) PROVE PlanInv'
    <2>1. nodes' = [nodes EXCEPT ![n] = Made(n)] BY <1>5 DEF Deploy, Made
    <2>2. Made(n) \in NodeState BY <1>1, MadeType
    <2>3. nodes \in [Names -> NodeState \cup {None}] BY DEF PlanInv, TypeOK, NodeState
    <2>4. nodes' \in [Names -> NodeState \cup {None}] BY <2>1, <2>2, <2>3
    <2>0. aborted' = aborted BY <1>5 DEF Deploy
    <2>5. TypeOK' BY <1>4, <2>0, <2>4 DEF PlanInv, TypeOK, NodeState
    <2>6. ASSUME NEW m \in Names, Here(m)' PROVE nodes'[m] = Made(m)
        <3>1. CASE m = n BY <2>1, <2>3, <3>1
        <3>2. CASE m # n
            <4>1. nodes'[m] = nodes[m] BY <2>1, <2>3, <3>2
            <4>. QED BY <2>6, <4>1 DEF PlanInv, Here
        <3>. QED BY <3>1, <3>2
    <2>7. (declared = Comps => ~aborted)' BY <1>2, <2>0 DEF PlanInv
    <2>. QED BY <1>3, <2>5, <2>6, <2>7 DEF PlanInv
<1>6. ASSUME NEW n \in Names, Abort(n) PROVE PlanInv'
    <2>1. nodes' = nodes /\ aborted' = TRUE BY <1>6 DEF Abort
    <2>2. declared # Comps BY <1>1, <1>6, AllDeclared DEF Abort, Sendable
    <2>3. TypeOK' BY <1>4, <2>1 DEF PlanInv, TypeOK
    <2>4. \A m \in Names : Here(m)' => nodes'[m] = Made(m) BY <2>1 DEF PlanInv, Here
    <2>. QED BY <1>2, <1>3, <2>2, <2>3, <2>4 DEF PlanInv
<1>7. ASSUME UNCHANGED vars PROVE PlanInv'
    <2>1. nodes' = nodes /\ aborted' = aborted BY <1>7 DEF vars
    <2>. QED BY <1>2, <1>3, <1>4, <2>1 DEF PlanInv, TypeOK, Here
<1>. QED BY <1>5, <1>6, <1>7 DEF Next

\* The invariant holds: no deployment changes what another node has made.
THEOREM PlanInvariant == Spec => []PlanInv
BY PlanInit, PlanStep, PTL DEF Spec

\* Every node has what a message can give it (TypeOK).
THEOREM TypeCorrect == Spec => []TypeOK
<1>1. PlanInv => TypeOK BY DEF PlanInv
<1>. QED BY <1>1, PlanInvariant, PTL

\* Whatever the schemas say, a local route of a node leads to a component that the
\* node made (NoNullRoute): the only map with the node's own name is the one that
\* async_deploy writes for a component it sends there.
THEOREM LocalRoutesHaveTheirComponent == Spec => []NoNullRoute
<1>1. ASSUME PlanInv PROVE NoNullRoute
    <2>1. Typed BY <1>1, Schemas DEF PlanInv
    <2>2. ASSUME NEW n \in Names, Here(n), NEW k \in Range(nodes[n].local)
          PROVE  app[k].dest \in nodes[n].comps
        <3>1. nodes[n] = Made(n) BY <1>1, <2>2 DEF PlanInv
        <3>. QED BY <2>1, <2>2, <3>1, LocalMade
    <2>. QED BY <2>2 DEF NoNullRoute
<1>. QED BY <1>1, PlanInvariant, PTL

\* Whatever the schemas say, a remote route leads to a node that makes the component
\* when it is deployed itself (RoutesArrive): the source plans with
\* map_component_node, the destination with map_node_with_components, and both were
\* written by the same last mapping.
THEOREM RemoteRoutesHaveTheirComponent == Spec => []RoutesArrive
<1>1. ASSUME PlanInv PROVE RoutesArrive
    <2>1. Typed BY <1>1, Schemas DEF PlanInv
    <2>2. ASSUME NEW n \in Names, Here(n), NEW r \in Range(nodes[n].remote),
                 Here(r.to), ~nodes[r.to].ended
          PROVE  app[r.conn].dest \in nodes[r.to].comps
        <3>1. nodes[n] = Made(n) BY <1>1, <2>2 DEF PlanInv
        <3>2. r.to \in Names
            <4>1. Made(n) \in NodeState BY <2>1, MadeType
            <4>2. PICK w : w = nodes[n].remote OBVIOUS
            <4>3. PICK R : R = [conn : Nat, to : Names] OBVIOUS
            <4>4. w \in Seq(R) BY <3>1, <4>1, <4>2, <4>3 DEF NodeState
            <4>5. r \in R BY <2>2, <4>2, <4>4 DEF Range
            <4>. QED BY <4>3, <4>5
        <3>3. nodes[r.to] = Made(r.to) BY <1>1, <2>2, <3>2 DEF PlanInv
        <3>. QED BY <2>1, <2>2, <3>1, <3>2, <3>3, RemoteMade
    <2>. QED BY <2>2 DEF RoutesArrive
<1>. QED BY <1>1, PlanInvariant, PTL

-----------------------------------------------------------------------------
(* A well-formed schema: every component has one mapping, and one home. *)

LEMMA HomeIs ==
    ASSUME Typed, WellFormed, NEW c \in Comps
    PROVE  \E k \in DOMAIN Items("map") :
                /\ Items("map")[k].comp = c /\ Home(c) = Plain(Items("map")[k].node)
                /\ Home(c) \in Names
                /\ \A j \in DOMAIN Items("map") : Items("map")[j].comp = c => j = k
<1>1. PICK items : items = Items("map") OBVIOUS
<1>2. PICK k \in DOMAIN items : \A j \in DOMAIN items : items[j].comp = c <=> j = k
    BY <1>1 DEF WellFormed
<1>3. items[k].comp = c BY <1>2
<1>4. \A i \in Range(items) : i.comp = c => i = items[k] BY <1>2 DEF Range
<1>5. items[k] \in Range(items) BY DEF Range
<1>6. (CHOOSE i \in Range(items) : i.comp = c) = items[k] BY <1>3, <1>4, <1>5
<1>7. Home(c) = Plain(items[k].node) BY <1>1, <1>6 DEF Home
<1>8. items[k].node \in Bases BY <1>1, MapItems
<1>9. Home(c) \in Names BY <1>7, <1>8 DEF Plain, Names
<1>. QED BY <1>1, <1>2, <1>3, <1>7, <1>9

LEMMA BothHolds ==
    ASSUME Typed, NEW k \in DOMAIN Items("map"), NEW i, i = Items("map")[k]
    PROVE  /\ ToPlain(i) \in Range(Both(i))
           /\ \A m \in Range(Both(i)) : m.comp = i.comp /\ (m = ToPlain(i) \/ m = ToPair(i))
           /\ Distinct(Both(i))
           /\ Len(Both(i)) \in Nat \ {0} /\ Both(i)[Len(Both(i))] = ToPlain(i)
<1>1. PICK x, y : x = ToPair(i) /\ y = ToPlain(i) OBVIOUS
<1>2. x.comp = i.comp /\ y.comp = i.comp /\ x.node = Pair(i.node) /\ y.node = Plain(i.node)
    BY <1>1 DEF ToPair, ToPlain
<1>3. Pair(i.node) # Plain(i.node)
    <2>1. Pair(i.node).pair = TRUE /\ Plain(i.node).pair = FALSE BY DEF Pair, Plain
    <2>. QED BY <2>1
<1>4. x # y BY <1>2, <1>3
<1>5. CASE Paired(i.node)
    <2>1. PICK t : t = <<x, y>> OBVIOUS
    <2>2. Both(i) = t BY <1>1, <1>5, <2>1, BothIs
    <2>3. Len(t) = 2 /\ DOMAIN t = 1 .. 2 /\ t[1] = x /\ t[2] = y BY <2>1
    <2>4. Distinct(t) BY <1>4, <2>3 DEF Distinct
    <2>5. \A m : m \in Range(t) <=> m = x \/ m = y BY <2>3 DEF Range
    <2>6. /\ y \in Range(t) /\ \A m \in Range(t) : m.comp = i.comp /\ (m = y \/ m = x)
        BY <1>2, <2>5
    <2>. QED BY <1>1, <2>2, <2>3, <2>4, <2>6
<1>6. CASE ~Paired(i.node)
    <2>1. PICK t : t = <<y>> OBVIOUS
    <2>2. Both(i) = t BY <1>1, <1>6, <2>1, BothIs
    <2>3. Len(t) = 1 /\ DOMAIN t = 1 .. 1 /\ t[1] = y BY <2>1
    <2>4. Distinct(t) BY <2>3 DEF Distinct
    <2>5. \A m : m \in Range(t) <=> m = y BY <2>3 DEF Range
    <2>6. /\ y \in Range(t) /\ \A m \in Range(t) : m.comp = i.comp /\ (m = y \/ m = x)
        BY <1>2, <2>5
    <2>. QED BY <1>1, <2>2, <2>3, <2>4, <2>6
<1>. QED BY <1>5, <1>6

LEMMA PlainMapped ==
    ASSUME Typed, WellFormed, NEW c \in Comps, NEW b \in Bases
    PROVE  [comp |-> c, node |-> Plain(b)] \in Range(Mapped) <=> Home(c) = Plain(b)
<1>1. PICK items : items = Items("map") OBVIOUS
<1>2. PICK k \in DOMAIN items :
        /\ items[k].comp = c /\ Home(c) = Plain(items[k].node)
        /\ \A j \in DOMAIN items : items[j].comp = c => j = k
    BY <1>1, HomeIs
<1>3. PICK m : m = [comp |-> c, node |-> Plain(b)] OBVIOUS
<1>4. m.comp = c /\ m.node = Plain(b) BY <1>3
<1>5. ASSUME m \in Range(Mapped) PROVE Home(c) = Plain(b)
    <2>1. PICK j \in DOMAIN items : m \in Range(Both(items[j])) BY <1>1, <1>5, MappedType
    <2>2. m.comp = items[j].comp /\ (m = ToPlain(items[j]) \/ m = ToPair(items[j]))
        BY <1>1, <2>1, BothHolds
    <2>3. j = k BY <1>2, <1>4, <2>2
    <2>4. Plain(b) # Pair(items[k].node)
        <3>1. Pair(items[k].node).pair = TRUE /\ Plain(b).pair = FALSE BY DEF Pair, Plain
        <3>. QED BY <3>1
    <2>5. ToPair(items[k]).node = Pair(items[k].node) /\ ToPlain(items[k]).node = Plain(items[k].node)
        BY DEF ToPair, ToPlain
    <2>. QED BY <1>2, <1>4, <2>2, <2>3, <2>4, <2>5
<1>6. ASSUME Home(c) = Plain(b) PROVE m \in Range(Mapped)
    <2>1. ToPlain(items[k]) \in Range(Both(items[k])) BY <1>1, BothHolds
    <2>2. ToPlain(items[k]) = m BY <1>2, <1>3, <1>6 DEF ToPlain
    <2>. QED BY <1>1, <2>1, <2>2, MappedType
<1>. QED BY <1>3, <1>5, <1>6

\* The last mapping of a component is that of the node itself, not of its reserve.
LEMMA NodeOfHome ==
    ASSUME Typed, WellFormed, NEW c \in Comps
    PROVE  NodeOf(c) = Home(c)
<1>1. PICK items : items = Items("map") OBVIOUS
<1>2. PICK k \in DOMAIN items :
        /\ items[k].comp = c /\ Home(c) = Plain(items[k].node)
        /\ \A j \in DOMAIN items : items[j].comp = c => j = k
    BY <1>1, HomeIs
<1>3. PICK n \in Nat : n = Len(items) /\ DOMAIN items = 1 .. n BY <1>1, MapItems
<1>4. PICK ss \in [1 .. n -> Seq(Maps)] :
        /\ \A j \in 1 .. n : ss[j] = Both(items[j])
        /\ Mapped = FlattenSeq(ss)
    BY <1>1, <1>3, MappedIs
<1>5. PICK t : t = Mapped OBVIOUS
<1>6. t \in Seq(Maps) /\ \E row, col : Laid(t, ss, n, row, col) BY <1>4, <1>5, FlattenLaid
<1>7. PICK row, col : Laid(t, ss, n, row, col) BY <1>6
<1>8. /\ row \in [1 .. Len(t) -> Nat] /\ col \in [1 .. Len(t) -> Nat]
      /\ \A j \in 1 .. Len(t) :
            row[j] \in 1 .. n /\ col[j] \in 1 .. Len(ss[row[j]]) /\ t[j] = ss[row[j]][col[j]]
      /\ \A j, l \in 1 .. Len(t) :
            j < l => row[j] < row[l] \/ (row[j] = row[l] /\ col[j] < col[l])
      /\ \A i \in 1 .. n : \A j \in 1 .. Len(ss[i]) :
            \E l \in 1 .. Len(t) : row[l] = i /\ col[l] = j
    BY <1>7 DEF Laid
<1>9. PICK i : i = items[k] OBVIOUS
<1>10. PICK p : p = Len(ss[k]) OBVIOUS
<1>11. /\ ss[k] = Both(i) /\ p \in Nat \ {0} /\ ss[k][p] = ToPlain(i) /\ ToPlain(i) \in Maps
    <2>1. ss[k] = Both(i) BY <1>3, <1>4, <1>9
    <2>2. Len(Both(i)) \in Nat \ {0} /\ Both(i)[Len(Both(i))] = ToPlain(i)
        BY <1>1, <1>9, BothHolds
    <2>3. ToPlain(i) \in Maps BY <1>1, <1>9, BothIs
    <2>. QED BY <1>10, <2>1, <2>2, <2>3
<1>12. PICK q \in 1 .. Len(t) : row[q] = k /\ col[q] = p BY <1>3, <1>8, <1>10, <1>11
<1>13. t[q] = ToPlain(i) BY <1>8, <1>11, <1>12
<1>14. ToPlain(i).comp = c /\ ToPlain(i).node = Home(c) BY <1>2, <1>9 DEF ToPlain
<1>15. ASSUME NEW x \in 1 .. Len(t), q < x, t[x].comp = c PROVE FALSE
    <2>1. PICK r : r = row[x] OBVIOUS
    <2>2. r \in 1 .. n /\ col[x] \in 1 .. Len(ss[r]) /\ t[x] = ss[r][col[x]] BY <1>8, <2>1
    <2>3. ss[r] = Both(items[r]) /\ ss[r] \in Seq(Maps) BY <1>4, <2>2
    <2>4. t[x] \in Range(Both(items[r])) BY <2>2, <2>3 DEF Range
    <2>5. t[x].comp = items[r].comp BY <1>1, <1>3, <2>2, <2>4, BothHolds
    <2>6. r = k BY <1>2, <1>3, <1>15, <2>2, <2>5
    <2>7. col[x] \in 1 .. p BY <1>10, <2>2, <2>6
    <2>8. k < k \/ (k = k /\ p < col[x]) BY <1>8, <1>12, <1>15, <2>1, <2>6
    <2>9. k \in Nat BY <1>3
    <2>. QED BY <1>11, <2>7, <2>8, <2>9
<1>16. PICK S : S = {m \in Maps : m.comp = c} OBVIOUS
<1>17. PICK its : its = Only(t, S) OBVIOUS
<1>18. its # <<>> /\ Last(its) = ToPlain(i)
    <2>1. t \in Seq(Maps) BY <1>6
    <2>2. t[q] \in S BY <1>11, <1>13, <1>14, <1>16
    <2>3. \A x \in 1 .. Len(t) : q < x => t[x] \notin S BY <1>15, <1>16
    <2>. QED BY <1>13, <1>17, <2>1, <2>2, <2>3, OnlyLast
<1>19. NodeOf(c) = Last(its).node BY <1>5, <1>16, <1>17, <1>18 DEF NodeOf
<1>. QED BY <1>14, <1>18, <1>19

LEMMA MappedOnce ==
    ASSUME Typed, WellFormed
    PROVE  Distinct(Mapped)
<1>1. PICK items : items = Items("map") OBVIOUS
<1>2. PICK n \in Nat : n = Len(items) /\ DOMAIN items = 1 .. n BY <1>1, MapItems
<1>3. PICK ss \in [1 .. n -> Seq(Maps)] :
        /\ \A j \in 1 .. n : ss[j] = Both(items[j])
        /\ Mapped = FlattenSeq(ss)
    BY <1>1, <1>2, MappedIs
<1>4. \A j \in 1 .. n : Distinct(ss[j]) BY <1>1, <1>2, <1>3, BothHolds
<1>5. ASSUME NEW j \in 1 .. n, NEW l \in 1 .. n, NEW m \in Range(ss[j]) \cap Range(ss[l])
      PROVE  j = l
    <2>1. m.comp = items[j].comp /\ m.comp = items[l].comp BY <1>1, <1>2, <1>3, BothHolds
    <2>2. items[j].comp \in Comps BY <1>1, <1>2, MapItems
    <2>. QED BY <1>1, <1>2, <2>1, <2>2, HomeIs
<1>6. \A j, l \in 1 .. n : j # l => Range(ss[j]) \cap Range(ss[l]) = {} BY <1>5
<1>. QED BY <1>3, <1>4, <1>6, FlattenDistinct

LEMMA ComponentsOnce ==
    ASSUME Typed, WellFormed, NEW n
    PROVE  Distinct(ComponentsOf(n))
<1>1. PICK here : here = Only(Mapped, {m \in Maps : m.node = n}) OBVIOUS
<1>2. here \in Seq(Maps) /\ Range(here) = Range(Mapped) \cap {m \in Maps : m.node = n}
    BY <1>1, MappedType, OnlyRange
<1>3. Distinct(here) BY <1>1, MappedType, MappedOnce, OnlyDistinct
<1>4. ComponentsOf(n) = [k \in DOMAIN here |-> here[k].comp] BY <1>1 DEF ComponentsOf
<1>5. PICK l \in Nat : l = Len(here) /\ DOMAIN here = 1 .. l BY <1>2
<1>6. Len(ComponentsOf(n)) = l BY <1>4, <1>5
<1>7. ASSUME NEW i \in 1 .. l, NEW j \in 1 .. l, here[i].comp = here[j].comp
      PROVE  i = j
    <2>1. here[i] \in Range(here) /\ here[j] \in Range(here) BY <1>5 DEF Range
    <2>2. here[i] \in Maps /\ here[i].node = n /\ here[j] \in Maps /\ here[j].node = n
        BY <1>2, <2>1
    <2>3. here[i] = [comp |-> here[i].comp, node |-> n]
          /\ here[j] = [comp |-> here[j].comp, node |-> n]
        BY <2>2 DEF Maps
    <2>4. here[i] = here[j] BY <1>7, <2>3
    <2>. QED BY <1>3, <1>5, <2>4 DEF Distinct
<1>. QED BY <1>4, <1>5, <1>6, <1>7 DEF Distinct

LEMMA ComponentsHome ==
    ASSUME Typed, WellFormed, NEW b \in Bases, NEW n, n = Plain(b)
    PROVE  /\ n \in Names
           /\ Range(ComponentsOf(n)) = {c \in Comps : Home(c) = n}
<1>1. n \in Names BY DEF Plain, Names
<1>2. \A c : c \in Range(ComponentsOf(n)) <=> [comp |-> c, node |-> Plain(b)] \in Range(Mapped)
    BY ComponentsOfIs
<1>3. Range(ComponentsOf(n)) \subseteq Comps BY ComponentsOfIs DEF Range
<1>. QED BY <1>1, <1>2, <1>3, PlainMapped

LEMMA PlaceHome ==
    ASSUME Typed, WellFormed, NEW b \in Bases, NEW n, n = Plain(b), NEW c \in Comps,
           \E m \in Range(Message(n).maps) : m.comp = c
    PROVE  Place(Message(n), c) = Home(c)
<1>1. n \in Names /\ Range(ComponentsOf(n)) = {d \in Comps : Home(d) = n} BY ComponentsHome
<1>2. PICK p : p = Place(Message(n), c) OBVIOUS
<1>3. [comp |-> c, node |-> p] \in Range(Message(n).maps) BY <1>1, <1>2, PlaceIs
<1>4. (p = n /\ c \in Range(ComponentsOf(n))) \/ p = NodeOf(c) BY <1>1, <1>3, MapHolds
<1>. QED BY <1>1, <1>2, <1>4, NodeOfHome

LEMMA CreatedHome ==
    ASSUME Typed, WellFormed, NEW b \in Bases, NEW n, n = Plain(b)
    PROVE  Created(n, Message(n)) = {c \in Comps : Home(c) = n}
<1>1. n \in Names /\ Range(ComponentsOf(n)) = {d \in Comps : Home(d) = n} BY ComponentsHome
<1>2. ASSUME NEW c \in Comps, Home(c) = n PROVE Place(Message(n), c) = n
    <2>1. PICK x : x = [comp |-> c, node |-> n] OBVIOUS
    <2>2. x.comp = c BY <2>1
    <2>3. x \in Range(Message(n).maps) BY <1>1, <1>2, <2>1, MessageMaps
    <2>. QED BY <1>2, <2>2, <2>3, PlaceHome
<1>. QED BY <1>1, <1>2, CreatedIs

LEMMA ToHome ==
    ASSUME Typed, WellFormed, NEW b \in Bases, NEW n, n = Plain(b), NEW k \in From(n)
    PROVE  To(n, k) = Home(app[k].dest) /\ Home(app[k].dest) \in Names
<1>1. n \in Names /\ Range(ComponentsOf(n)) = {d \in Comps : Home(d) = n} BY ComponentsHome
<1>2. k \in DOMAIN app /\ app[k].source \in Range(ComponentsOf(n))
    BY <1>1, CreatedIs DEF From
<1>3. PICK d \in Comps : d = app[k].dest BY <1>2, Ends
<1>4. Home(d) \in Names /\ NodeOf(d) = Home(d) BY HomeIs, NodeOfHome
<1>5. \E m \in Range(Message(n).maps) : m.comp = d
    <2>1. PICK x : x = [comp |-> d, node |-> Home(d)] OBVIOUS
    <2>2. x.comp = d BY <2>1
    <2>3. CASE Home(d) = n
        <3>1. d \in Range(ComponentsOf(n)) BY <1>1, <2>3
        <3>. QED BY <1>1, <2>1, <2>2, <2>3, <3>1, MessageMaps
    <2>4. CASE Home(d) # n
        <3>1. x \in Range(RemoteMaps(n, app[k].source))
            BY <1>2, <1>3, <1>4, <2>1, <2>4, RemoteMapsIs
        <3>. QED BY <1>1, <1>2, <2>2, <3>1, MessageMaps
    <2>. QED BY <2>3, <2>4
<1>. QED BY <1>3, <1>4, <1>5, PlaceHome DEF To

\* The connections that leave a node, those of them that stay on it, and the others with
\* the node they go to
Leaving(n, from, near, away) ==
    /\ from = {k \in DOMAIN app : Home(app[k].source) = n}
    /\ near = {k \in from : Home(app[k].dest) = n}
    /\ away = {[conn |-> k, to |-> Home(app[k].dest)] : k \in from \ near}

LEMMA MadeAsDesigned ==
    ASSUME Typed, WellFormed, NEW b \in Bases, NEW n, n = Plain(b),
           NEW from, NEW near, NEW away, Leaving(n, from, near, away)
    PROVE  /\ Made(n).comps = {c \in Comps : Home(c) = n}
           /\ Once(Made(n).local, near)
           /\ Once(Made(n).remote, away)
           /\ ~Made(n).ended
<1>0. /\ from = {k \in DOMAIN app : Home(app[k].source) = n}
      /\ near = {k \in from : Home(app[k].dest) = n}
      /\ away = {[conn |-> k, to |-> Home(app[k].dest)] : k \in from \ near}
    BY DEF Leaving
<1>1. n \in Names BY ComponentsHome
<1>2. Created(n, Message(n)) = {c \in Comps : Home(c) = n} BY CreatedHome
<1>3. From(n) = from
    <2>1. \A k \in DOMAIN app : app[k].source \in Comps BY Ends
    <2>. QED BY <1>0, <1>2, <2>1 DEF From
<1>4. \A k \in from : To(n, k) = Home(app[k].dest) /\ To(n, k) # None
    BY <1>0, <1>3, ToHome, DeployPlanAssumption
<1>5. PICK r : r = Routes(n, Message(n)) OBVIOUS
<1>6. /\ r.local \in Seq(DOMAIN app)
      /\ r.remote \in Seq([conn : DOMAIN app, to : Names \cup {None}])
      /\ Range(r.local) = {k \in From(n) : To(n, k) = n}
      /\ Range(r.remote) = {[conn |-> k, to |-> To(n, k)] : k \in {k \in From(n) : To(n, k) # n}}
    BY <1>1, <1>5, RoutesAre
<1>7. Distinct(r.local) /\ Distinct(r.remote) BY <1>1, <1>5, RoutesAre, ComponentsOnce
<1>8. Range(r.local) = near BY <1>0, <1>3, <1>4, <1>6
<1>9. Range(r.remote) = away
    <2>1. {k \in From(n) : To(n, k) # n} = from \ near BY <1>0, <1>3, <1>4
    <2>2. \A x : x \in Range(r.remote) <=>
                \E k \in from \ near : x = [conn |-> k, to |-> To(n, k)]
        BY <1>6, <2>1
    <2>3. \A x : x \in Range(r.remote) <=>
                \E k \in from \ near : x = [conn |-> k, to |-> Home(app[k].dest)]
        BY <1>4, <2>2
    <2>. QED BY <1>0, <2>3
<1>10. Once(r.local, near) BY <1>6, <1>7, <1>8, DistinctOnce
<1>11. Once(r.remote, Range(r.remote)) BY <1>6, <1>7, DistinctOnce
<1>12. ~ \E j \in DOMAIN r.remote : r.remote[j].to = None
    <2>1. ASSUME NEW j \in DOMAIN r.remote PROVE r.remote[j].to # None
        <3>1. r.remote[j] \in Range(r.remote) BY DEF Range
        <3>2. PICK k \in from : r.remote[j] = [conn |-> k, to |-> To(n, k)] BY <1>3, <1>6, <3>1
        <3>3. r.remote[j].to = To(n, k) BY <3>2
        <3>. QED BY <1>4, <3>2, <3>3
    <2>. QED BY <2>1
<1>13. Made(n) = [comps |-> Created(n, Message(n)), local |-> r.local,
                  remote |-> r.remote, ended |-> FALSE]
    BY <1>5, <1>12 DEF Made, Deployed
<1>. QED BY <1>2, <1>9, <1>10, <1>11, <1>13

\* With a schema that maps every component once, a node makes exactly the components
\* mapped to it and has, at the source of every connection, exactly one route of the
\* right kind to the right node (AsDesigned), whatever reserve nodes there are and in
\* whatever order the schemas list things.
THEOREM PlansAsDesigned == Spec => []AsDesigned
<1>1. ASSUME PlanInv PROVE AsDesigned
    <2>1. Typed BY <1>1, Schemas DEF PlanInv
    <2>2. ASSUME WellFormed, NEW b \in Bases, Here(Plain(b)), NEW n, n = Plain(b),
                 NEW from, from = {k \in DOMAIN app : Home(app[k].source) = n},
                 NEW near, near = {k \in from : Home(app[k].dest) = n}
          PROVE  /\ nodes[n].comps = {c \in Comps : Home(c) = n}
                 /\ Once(nodes[n].local, near)
                 /\ Once(nodes[n].remote,
                         {[conn |-> k, to |-> Home(app[k].dest)] : k \in from \ near})
                 /\ ~nodes[n].ended
        <3>1. n \in Names BY <2>2 DEF Plain, Names
        <3>2. nodes[n] = Made(n) BY <1>1, <2>2, <3>1 DEF PlanInv
        <3>3. PICK away :
                away = {[conn |-> k, to |-> Home(app[k].dest)] : k \in from \ near} OBVIOUS
        <3>4. /\ Made(n).comps = {c \in Comps : Home(c) = n} /\ ~Made(n).ended
              /\ Once(Made(n).local, near) /\ Once(Made(n).remote, away)
            <4>1. Leaving(n, from, near, away) BY <2>2, <3>3 DEF Leaving
            <4>. QED BY <2>1, <2>2, <4>1, MadeAsDesigned, Zenon
        <3>. QED BY <3>2, <3>3, <3>4
    <2>3. WellFormed => ~aborted BY <1>1 DEF PlanInv, WellFormed
    <2>. QED BY <2>2, <2>3 DEF AsDesigned
<1>. QED BY <1>1, PlanInvariant, PTL
=============================================================================
