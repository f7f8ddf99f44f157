---------------------------- MODULE DocumentsProofs ----------------------------
(***************************************************************************)
(* Proofs about the documents of the terminal, for any files, number of    *)
(* documents and moves: the window stays well formed, the combo boxes list *)
(* open documents, and what they list is what the files hold.              *)
(***************************************************************************)
EXTENDS Documents, SequenceTheorems, WellFoundedInduction, TLAPS

USE DocumentsAssumption DEF DocumentsAssumption

\* The tabs are distinct documents, made before now.
TabsFit(w) ==
    /\ w.made \in 0 .. MaxDocs
    /\ w.tabs \in Seq(Docs) /\ Len(w.tabs) <= w.made
    /\ \A i \in DOMAIN w.tabs : w.tabs[i] <= w.made
    /\ \A i, j \in DOMAIN w.tabs : w.tabs[i] = w.tabs[j] => i = j

NamesFit(w) ==
    w.name \in [Docs -> Paths \cup {NoPath}] /\ w.text \in [Docs -> Texts]

\* What is selected is listed.
Selects(cs) ==
    cs \in [Kinds -> Combos] /\ \A k \in Kinds : cs[k].at \in cs[k].items \cup {NoDoc}

\* What is listed is open, in one list, and has a path.
ListsFit(w) ==
    /\ Selects(w.combo)
    /\ \A k \in Kinds : \A d \in w.combo[k].items :
          (\E i \in DOMAIN w.tabs : w.tabs[i] = d) /\ w.name[d] # NoPath
    /\ w.combo["app"].items \cap w.combo["deploy"].items = {}

\* The file of what is listed is of the kind of the list, but for those in sp.
FilesFit(w, sp) ==
    \A k \in Kinds : \A d \in w.combo[k].items : d \notin sp => Fits(disk[w.name[d]], k)

WindowFits(w, sp) == TabsFit(w) /\ NamesFit(w) /\ ListsFit(w) /\ FilesFit(w, sp)

DocInv ==
    /\ WindowFits(Window, spoiled)
    /\ disk \in [Paths -> Texts \cup {NoFile}]
    /\ session \in Seq(Paths \cup {NoPath}) /\ Len(session) <= MaxDocs
    /\ status \in {"up", "asking", "closed", "crashed"}
    /\ asks \in 0 .. Len(tabs) /\ (status # "asking" => asks = 0)
    /\ spoiled \subseteq Docs /\ moves \in 0 .. MaxMoves

LEMMA TextsOf ==
  ASSUME NEW t \in Texts
  PROVE  /\ KindOf(t) \in Texts /\ Shown(t) \in Texts
         /\ Fits(t, KindOf(t)) /\ Fits(t, KindOf(Shown(t)))
BY DEF Texts, Kinds, KindOf, Shown, Fits

LEMMA Fields ==
  /\ Window.tabs = tabs /\ Window.name = name /\ Window.text = text
  /\ Window.combo = combo /\ Window.made = made
  /\ NoWindow.tabs = <<>> /\ NoWindow.name = [d \in Docs |-> NoPath]
  /\ NoWindow.text = [d \in Docs |-> "other"]
  /\ NoWindow.combo = [k \in Kinds |-> Empty] /\ NoWindow.made = 0
BY DEF Window, NoWindow

-----------------------------------------------------------------------------
(* Tabs *)

LEMMA TabRemoved ==
  ASSUME NEW S, NEW s \in Seq(S), NEW i \in DOMAIN s
  PROVE  /\ RemoveAt(s, i) \in Seq(S) /\ Len(RemoveAt(s, i)) = Len(s) - 1
         /\ \A j \in DOMAIN RemoveAt(s, i) :
               RemoveAt(s, i)[j] = IF j < i THEN s[j] ELSE s[j + 1]
<1>1. PICK n \in Nat : n = Len(s) /\ DOMAIN s = 1 .. n /\ n > 0 /\ i \in 1 .. n
  BY LenProperties
<1>2. PICK a, b : a = SubSeq(s, 1, i - 1) /\ b = SubSeq(s, i + 1, n)
  OBVIOUS
<1>3. a \in Seq(S) /\ Len(a) = i - 1 /\ \A j \in 1 .. i - 1 : a[j] = s[j]
  <2>1. 1 \in 1 .. n + 1 /\ i - 1 \in 1 - 1 .. n
    BY <1>1
  <2>2. Len(a) = (IF 1 <= i - 1 THEN (i - 1) - 1 + 1 ELSE 0)
        /\ a \in Seq(S) /\ \A j \in 1 .. (i - 1) - 1 + 1 : a[j] = s[1 + j - 1]
    BY <1>1, <1>2, <2>1, SubSeqProperties
  <2> QED BY <1>1, <2>2
<1>4. b \in Seq(S) /\ Len(b) = n - i /\ \A j \in 1 .. n - i : b[j] = s[j + i]
  <2>1. n \in Nat /\ i \in 1 .. n
    BY <1>1
  <2>2. i + 1 \in 1 .. n + 1 /\ n \in (i + 1) - 1 .. n
    BY ONLY <2>1
  <2>3. PICK k : k = i + 1
    OBVIOUS
  <2>4. k \in 1 .. n + 1 /\ n \in k - 1 .. n /\ b = SubSeq(s, k, n)
    BY <1>2, <2>2, <2>3
  <2>5. /\ Len(b) = (IF k <= n THEN n - k + 1 ELSE 0) /\ b \in Seq(S)
        /\ \A j \in 1 .. n - k + 1 : b[j] = s[k + j - 1]
    BY <1>1, <2>4, SubSeqProperties
  <2>6. n - k + 1 = n - i /\ (~(k <= n) => n - i = 0)
    BY ONLY <2>1, <2>3
  <2>7. \A j \in 1 .. n - i : k + j - 1 = j + i
    BY ONLY <2>1, <2>3
  <2>8. Len(b) = n - i
    BY <2>5, <2>6
  <2> QED BY <2>5, <2>6, <2>7, <2>8
<1>5. PICK r : r = RemoveAt(s, i) /\ r = a \o b
  BY <1>1, <1>2 DEF RemoveAt
<1>6. /\ r \in Seq(S) /\ Len(r) = (i - 1) + (n - i)
      /\ \A j \in 1 .. Len(a) + Len(b) : r[j] = IF j <= Len(a) THEN a[j] ELSE b[j - Len(a)]
  BY <1>3, <1>4, <1>5, ConcatProperties
<1>7. /\ Len(r) = n - 1 /\ DOMAIN r = 1 .. n - 1
      /\ \A j \in 1 .. n - 1 : r[j] = IF j <= i - 1 THEN a[j] ELSE b[j - (i - 1)]
  BY <1>1, <1>3, <1>4, <1>6, LenProperties
<1>8. \A j \in 1 .. n - 1 : r[j] = IF j < i THEN s[j] ELSE s[j + 1]
  <2> TAKE j \in 1 .. n - 1
  <2>1. CASE j < i
    BY <1>1, <1>3, <1>7, <2>1
  <2>2. CASE ~(j < i)
    <3>1. ~(j <= i - 1) /\ j - (i - 1) \in 1 .. n - i /\ (j - (i - 1)) + i = j + 1
      BY <1>1, <2>2
    <3> QED BY <1>4, <1>7, <2>2, <3>1
  <2> QED BY <2>1, <2>2
<1> QED BY <1>1, <1>5, <1>6, <1>7, <1>8

\* A new document is at the end.
LEMMA TabAdded ==
  ASSUME NEW w, TabsFit(w), w.made < MaxDocs, NEW v, v.tabs = Append(w.tabs, w.made + 1),
         v.made = w.made + 1
  PROVE  /\ TabsFit(v)
         /\ \A i \in DOMAIN w.tabs : i \in DOMAIN v.tabs /\ v.tabs[i] = w.tabs[i]
         /\ \E i \in DOMAIN v.tabs : v.tabs[i] = w.made + 1
<1>1. PICK n \in Nat : n = Len(w.tabs) /\ DOMAIN w.tabs = 1 .. n /\ n <= w.made
  BY LenProperties DEF TabsFit
<1>2. w.made + 1 \in Docs /\ w.made \in Nat /\ w.tabs \in Seq(Docs)
  BY DEF TabsFit, Docs
<1>3. /\ v.tabs \in Seq(Docs) /\ Len(v.tabs) = n + 1 /\ DOMAIN v.tabs = 1 .. n + 1
      /\ \A i \in 1 .. n : v.tabs[i] = w.tabs[i]
      /\ v.tabs[n + 1] = w.made + 1
  BY <1>1, <1>2, AppendProperties, LenProperties
<1>4. \A i \in 1 .. n : w.tabs[i] <= w.made
  BY <1>1 DEF TabsFit
<1>5. \A i \in 1 .. n + 1 : i \in 1 .. n \/ i = n + 1
  BY <1>1
<1>6. \A i \in 1 .. n : w.tabs[i] \in Nat
  BY <1>1, <1>2, ElementOfSeq DEF Docs
<1>7. \A i \in 1 .. n + 1 : v.tabs[i] <= w.made + 1
  BY <1>2, <1>3, <1>4, <1>5, <1>6
<1>8. \A i \in 1 .. n : w.tabs[i] # w.made + 1
  BY <1>2, <1>4, <1>6
<1>9. \A i, j \in 1 .. n + 1 : v.tabs[i] = v.tabs[j] => i = j
  <2> SUFFICES ASSUME NEW i \in 1 .. n + 1, NEW j \in 1 .. n + 1, v.tabs[i] = v.tabs[j]
               PROVE  i = j
    OBVIOUS
  <2>1. \A k, l \in 1 .. n : w.tabs[k] = w.tabs[l] => k = l
    BY <1>1, Zenon DEF TabsFit
  <2>2. CASE i \in 1 .. n /\ j \in 1 .. n
    BY <1>3, <2>1, <2>2, Zenon
  <2>3. CASE i \in 1 .. n /\ j = n + 1
    BY <1>3, <1>8, <2>3, Zenon
  <2>4. CASE i = n + 1 /\ j \in 1 .. n
    BY <1>3, <1>8, <2>4, Zenon
  <2>5. CASE i = n + 1 /\ j = n + 1
    BY <2>5
  <2> QED BY <1>5, <2>2, <2>3, <2>4, <2>5, Zenon
<1>10. v.made \in 0 .. MaxDocs /\ Len(v.tabs) <= v.made
  BY <1>1, <1>2, <1>3 DEF TabsFit
<1>11. TabsFit(v)
  BY <1>3, <1>7, <1>9, <1>10 DEF TabsFit
<1>12. n + 1 \in 1 .. n + 1 /\ \A i \in 1 .. n : i \in 1 .. n + 1
  BY <1>1
<1> QED BY <1>1, <1>3, <1>11, <1>12

-----------------------------------------------------------------------------
(* The combo boxes *)

LEMMA AddConfigSelects ==
  ASSUME NEW cs, Selects(cs), NEW d \in Docs, NEW k \in Texts
  PROVE  /\ Selects(AddConfig(cs, d, k))
         /\ \A l \in Kinds : AddConfig(cs, d, k)[l].items =
               IF l = k THEN cs[l].items \cup {d} ELSE cs[l].items
<1>1. cs \in [Kinds -> Combos]
  BY DEF Selects
<1>2. \A l \in Kinds : /\ With(cs[l], d) \in Combos
                       /\ With(cs[l], d).items = cs[l].items \cup {d}
                       /\ With(cs[l], d).at \in cs[l].items \cup {d, NoDoc}
  BY <1>1 DEF With, Combos, Selects
<1>3. \A l \in Kinds : AddConfig(cs, d, k)[l] = IF l = k THEN With(cs[l], d) ELSE cs[l]
  BY DEF AddConfig
<1>4. AddConfig(cs, d, k) \in [Kinds -> Combos]
  BY <1>1, <1>2 DEF AddConfig
<1> QED BY <1>2, <1>3, <1>4 DEF Selects

LEMMA WithoutSelects ==
  ASSUME NEW c \in Combos, c.at \in c.items \cup {NoDoc}, NEW d \in Docs, NEW e \in Without(c, d)
  PROVE  e \in Combos /\ e.items = c.items \ {d} /\ e.at \in e.items \cup {NoDoc}
BY DEF Without, Combos

LEMMA DelConfigSelects ==
  ASSUME Selects(combo), NEW d \in Docs, NEW cs \in DelConfig(d)
  PROVE  Selects(cs) /\ \A l \in Kinds : cs[l].items = combo[l].items \ {d}
<1>1. PICK a \in Without(combo["app"], d), s \in Without(combo["deploy"], d) :
          cs = [l \in Kinds |-> IF l = "app" THEN a ELSE s]
  BY DEF DelConfig
<1>2. "app" \in Kinds /\ "deploy" \in Kinds /\ \A l \in Kinds : l \in {"app", "deploy"}
  BY DEF Kinds
<1>3. a \in Combos /\ a.items = combo["app"].items \ {d} /\ a.at \in a.items \cup {NoDoc}
  BY <1>2, WithoutSelects DEF Selects
<1>4. s \in Combos /\ s.items = combo["deploy"].items \ {d} /\ s.at \in s.items \cup {NoDoc}
  BY <1>2, WithoutSelects DEF Selects
<1> QED BY <1>1, <1>2, <1>3, <1>4 DEF Selects

LEMMA UpdateConfigSelects ==
  ASSUME Selects(combo), text \in [Docs -> Texts], NEW d \in Docs, NEW cs \in UpdateConfig(d)
  PROVE  /\ Selects(cs)
         /\ \A l \in Kinds : cs[l].items =
               IF l = KindOf(text[d]) THEN combo[l].items \cup {d} ELSE combo[l].items \ {d}
<1>1. PICK ds \in DelConfig(d) : cs = AddConfig(ds, d, KindOf(text[d]))
  BY DEF UpdateConfig
<1>2. Selects(ds) /\ \A l \in Kinds : ds[l].items = combo[l].items \ {d}
  BY DelConfigSelects
<1>3. PICK k \in Texts : k = KindOf(text[d])
  BY TextsOf
<1>4. /\ Selects(AddConfig(ds, d, k))
      /\ \A l \in Kinds : AddConfig(ds, d, k)[l].items =
            IF l = k THEN ds[l].items \cup {d} ELSE ds[l].items
  <2>1. Selects(ds)
    BY <1>2
  <2>2. d \in Docs /\ k \in Texts
    BY <1>3
  <2> QED BY <2>1, <2>2, AddConfigSelects
<1>5. /\ Selects(cs)
      /\ \A l \in Kinds : cs[l].items =
            IF l = KindOf(text[d]) THEN ds[l].items \cup {d} ELSE ds[l].items
  BY <1>1, <1>3, <1>4
<1> QED BY <1>2, <1>5

-----------------------------------------------------------------------------
(* Opening files *)

LEMMA ListedEarlier ==
  ASSUME NEW w, TabsFit(w), ListsFit(w)
  PROVE  \A k \in Kinds : \A d \in w.combo[k].items : d \in Docs /\ d # w.made + 1
<1> SUFFICES ASSUME NEW k \in Kinds, NEW d \in w.combo[k].items
             PROVE  d \in Docs /\ d # w.made + 1
  OBVIOUS
<1>1. PICK i \in DOMAIN w.tabs : w.tabs[i] = d
  BY DEF ListsFit
<1>2. w.tabs \in Seq(Docs) /\ d <= w.made /\ w.made \in Nat
  BY <1>1 DEF TabsFit
<1>3. d \in Docs
  BY <1>1, <1>2, ElementOfSeq
<1> QED BY <1>2, <1>3 DEF Docs

LEMMA LoadFileFits ==
  ASSUME disk \in [Paths -> Texts \cup {NoFile}], NEW w, NEW sp, WindowFits(w, sp),
         w.made < MaxDocs, NEW p \in Paths \cup {NoPath}
  PROVE  WindowFits(LoadFile(w, p), sp) /\ LoadFile(w, p).made <= w.made + 1
<1>1. w.made \in Nat /\ TabsFit(w) /\ NamesFit(w) /\ ListsFit(w) /\ FilesFit(w, sp)
  BY DEF WindowFits, TabsFit
<1>2. CASE ~Exists(p)
  <2>1. LoadFile(w, p) = w
    BY <1>2 DEF LoadFile
  <2> QED BY <1>1, <2>1
<1>3. CASE Exists(p)
  <2> DEFINE d == w.made + 1
  <2>1. PICK v : v = LoadFile(w, p)
    OBVIOUS
  <2>2. /\ v.tabs = Append(w.tabs, d) /\ v.made = d
        /\ v.name = [w.name EXCEPT ![d] = p] /\ v.text = [w.text EXCEPT ![d] = Shown(disk[p])]
        /\ v.combo = AddConfig(w.combo, d, KindOf(Shown(disk[p])))
    BY <1>3, <2>1 DEF LoadFile
  <2>3. p \in Paths /\ disk[p] \in Texts /\ p # NoPath /\ Shown(disk[p]) \in Texts
    BY <1>3, TextsOf DEF Exists
  <2>4. d \in Docs
    BY <1>1 DEF Docs
  <2>5. /\ TabsFit(v)
        /\ \A i \in DOMAIN w.tabs : i \in DOMAIN v.tabs /\ v.tabs[i] = w.tabs[i]
        /\ \E i \in DOMAIN v.tabs : v.tabs[i] = d
    BY <1>1, <2>2, TabAdded
  <2>6. NamesFit(v)
    <3>1. v.name = [w.name EXCEPT ![d] = p] /\ w.name \in [Docs -> Paths \cup {NoPath}]
      BY <1>1, <2>2 DEF NamesFit
    <3>2. v.text = [w.text EXCEPT ![d] = Shown(disk[p])] /\ w.text \in [Docs -> Texts]
      BY <1>1, <2>2 DEF NamesFit
    <3>3. v.name \in [Docs -> Paths \cup {NoPath}]
      BY <3>1
    <3>4. v.text \in [Docs -> Texts]
      BY <2>3, <3>2
    <3> QED BY <3>3, <3>4 DEF NamesFit
  <2>7. /\ Selects(v.combo)
        /\ \A l \in Kinds : v.combo[l].items =
              IF l = KindOf(Shown(disk[p])) THEN w.combo[l].items \cup {d} ELSE w.combo[l].items
    <3>1. PICK k \in Texts : k = KindOf(Shown(disk[p]))
      BY <2>3, TextsOf
    <3>2. PICK cs : cs = w.combo /\ Selects(cs)
      BY <1>1 DEF ListsFit
    <3>3. PICK e \in Docs : e = d
      BY <2>4
    <3> HIDE DEF d
    <3>4. /\ Selects(AddConfig(cs, e, k))
          /\ \A l \in Kinds : AddConfig(cs, e, k)[l].items =
                IF l = k THEN cs[l].items \cup {e} ELSE cs[l].items
      <4>1. Selects(cs)
        BY <3>2
      <4>2. e \in Docs
        BY <3>3
      <4>3. k \in Texts
        BY <3>1
      <4> QED BY <4>1, <4>2, <4>3, AddConfigSelects, Zenon
    <3> QED BY <2>2, <3>1, <3>2, <3>3, <3>4
  <2>8. \A k \in Kinds : \A e \in w.combo[k].items : e \in Docs /\ e # d
    BY <1>1, ListedEarlier
  <2>9. \A e \in Docs : v.name[e] = IF e = d THEN p ELSE w.name[e]
    BY <1>1, <2>2, <2>4 DEF NamesFit
  <2> HIDE DEF d
  <2>10. ListsFit(v)
    <3>1. ASSUME NEW k \in Kinds, NEW e \in v.combo[k].items
          PROVE  (\E i \in DOMAIN v.tabs : v.tabs[i] = e) /\ v.name[e] # NoPath
      <4>1. CASE e = d
        BY <2>3, <2>4, <2>5, <2>9, <4>1
      <4>2. CASE e # d
        <5>1. e \in w.combo[k].items
          BY <2>7, <4>2
        <5>2. PICK i \in DOMAIN w.tabs : w.tabs[i] = e
          BY <1>1, <5>1 DEF ListsFit
        <5>3. w.name[e] # NoPath
          BY <1>1, <5>1 DEF ListsFit
        <5> QED BY <2>5, <2>8, <2>9, <4>2, <5>1, <5>2, <5>3
      <4> QED BY <4>1, <4>2
    <3>2. v.combo["app"].items \cap v.combo["deploy"].items = {}
      <4>1. "app" \in Kinds /\ "deploy" \in Kinds /\ "app" # "deploy"
        BY DEF Kinds
      <4>2. w.combo["app"].items \cap w.combo["deploy"].items = {}
        BY <1>1 DEF ListsFit
      <4> QED BY <2>7, <2>8, <4>1, <4>2
    <3> QED BY <2>7, <3>1, <3>2 DEF ListsFit
  <2>11. FilesFit(v, sp)
    <3> SUFFICES ASSUME NEW k \in Kinds, NEW e \in v.combo[k].items, e \notin sp
                 PROVE  Fits(disk[v.name[e]], k)
      BY DEF FilesFit
    <3>1. CASE e = d
      <4>1. d \notin w.combo[k].items
        BY <2>8
      <4>2. k = KindOf(Shown(disk[p]))
        BY <2>7, <3>1, <4>1
      <4>3. Fits(disk[p], k)
        BY <2>3, <4>2, TextsOf
      <4> QED BY <2>4, <2>9, <3>1, <4>3
    <3>2. CASE e # d
      <4>1. e \in w.combo[k].items
        BY <2>7, <3>2
      <4>2. v.name[e] = w.name[e]
        BY <2>8, <2>9, <3>2, <4>1
      <4> QED BY <1>1, <4>1, <4>2 DEF FilesFit
    <3> QED BY <3>1, <3>2
  <2> QED BY <1>1, <2>1, <2>2, <2>5, <2>6, <2>10, <2>11 DEF WindowFits, d
<1> QED BY <1>2, <1>3

LEMMA NoWindowFits == \A sp : WindowFits(NoWindow, sp)
<1>1. TabsFit(NoWindow)
  BY Fields, EmptySeq DEF TabsFit
<1>2. NamesFit(NoWindow)
  BY Fields DEF NamesFit, Texts
<1>3. Empty \in Combos /\ Empty.items = {} /\ Empty.at = NoDoc
  BY DEF Empty, Combos
<1>4. ListsFit(NoWindow) /\ \A sp : FilesFit(NoWindow, sp)
  BY <1>3, Fields DEF ListsFit, FilesFit, Selects, Kinds
<1> QED BY <1>1, <1>2, <1>4 DEF WindowFits

\* Induction over the numbers in a set
LEMMA Counting ==
  ASSUME NEW T, 0 \in T, \A n \in Nat : n \in T => n + 1 \in T
  PROVE  Nat \subseteq T
<1> DEFINE R == OpToRel(<, Nat)
           B == Nat \ T
<1> SUFFICES ASSUME B # {} PROVE FALSE
  OBVIOUS
<1>1. IsWellFoundedOn(R, Nat)
  BY NatLessThanWellFounded, Zenon
<1>2. \A m, n \in Nat : m < n => <<m, n>> \in R
  BY DEF OpToRel
<1> HIDE DEF R
<1>3. PICK x \in B : \A y \in B : <<y, x>> \notin R
  <2>1. B \subseteq Nat
    OBVIOUS
  <2> HIDE DEF B
  <2> QED BY <1>1, <2>1, WFMin
<1>4. x \in Nat /\ x # 0
  OBVIOUS
<1>5. x - 1 \in Nat /\ x - 1 < x /\ (x - 1) + 1 = x
  BY <1>4
<1>6. x - 1 \in B
  BY <1>5
<1> QED BY <1>2, <1>3, <1>4, <1>5, <1>6

\* The windows that a start goes through until the first n files are opened
Opens(f, n) ==
    f = [i \in 0 .. n |-> IF i = 0 THEN NoWindow ELSE LoadFile(f[i - 1], session[i])]

LEMMA OpensAll ==
  ASSUME NEW n \in Nat
  PROVE  \E f : Opens(f, n)
<1> DEFINE T == {k \in Nat : \E f : Opens(f, k)}
<1>1. 0 \in T
  <2> DEFINE f == [i \in 0 .. 0 |-> NoWindow]
  <2>1. \A i \in 0 .. 0 : i = 0
    OBVIOUS
  <2>2. Opens(f, 0)
    BY <2>1 DEF Opens
  <2> HIDE DEF f
  <2> QED BY <2>2
<1>2. ASSUME NEW k \in Nat, k \in T PROVE k + 1 \in T
  <2>1. PICK f : Opens(f, k)
    BY <1>2
  <2>2. PICK m \in Nat : m = k + 1 /\ m # 0 /\ m - 1 = k
    OBVIOUS
  <2> DEFINE g == [i \in 0 .. m |-> IF i = m THEN LoadFile(f[k], session[m]) ELSE f[i]]
  <2>3. \A i \in 0 .. m : i # m => i \in 0 .. k
    BY <2>2
  <2>4. \A i \in 0 .. m : i # 0 => i - 1 \in 0 .. k /\ i - 1 \in 0 .. m /\ i - 1 # m
    BY <2>2
  <2>5. \A i \in 0 .. k :
            f[i] = IF i = 0 THEN NoWindow ELSE LoadFile(f[i - 1], session[i])
    BY <2>1 DEF Opens
  <2>6. \A i \in 0 .. m : i # 0 => g[i - 1] = f[i - 1]
    BY <2>4
  <2>7. \A i \in 0 .. m : g[i] = IF i = m THEN LoadFile(f[k], session[m]) ELSE f[i]
    OBVIOUS
  <2>8. g = [i \in 0 .. m |-> g[i]]
    OBVIOUS
  <2> HIDE DEF g
  <2>9. \A i \in 0 .. m :
            g[i] = IF i = 0 THEN NoWindow ELSE LoadFile(g[i - 1], session[i])
    <3> TAKE i \in 0 .. m
    <3>1. CASE i = m
      BY <2>2, <2>6, <2>7, <3>1
    <3>2. CASE i # m /\ i = 0
      BY <2>3, <2>5, <2>7, <3>2
    <3>3. CASE i # m /\ i # 0
      BY <2>3, <2>5, <2>6, <2>7, <3>3
    <3> QED BY <3>1, <3>2, <3>3
  <2>10. Opens(g, m)
    BY <2>8, <2>9, Zenon DEF Opens
  <2>11. \E h : Opens(h, k + 1)
    BY <2>2, <2>10
  <2> QED BY <2>11
<1> HIDE DEF T
<1>3. n \in T
  BY <1>1, <1>2, Counting
<1> QED BY <1>3 DEF T

LEMMA LoadedOpens ==
  ASSUME NEW n \in Nat, n = Len(session)
  PROVE  Opens(Loaded, n)
<1>1. \E f : Opens(f, n)
  BY OpensAll
<1>2. \E f : f = [i \in 0 .. Len(session) |->
                     IF i = 0 THEN NoWindow ELSE LoadFile(f[i - 1], session[i])]
  BY <1>1 DEF Opens
<1>3. Loaded = [i \in 0 .. Len(session) |->
                     IF i = 0 THEN NoWindow ELSE LoadFile(Loaded[i - 1], session[i])]
  BY <1>2, Zenon DEF Loaded
<1> QED BY <1>3 DEF Opens

\* load_session makes a well formed window of any session, and none of its files is
\* of another kind than its list.
LEMMA LoadedFits ==
  ASSUME disk \in [Paths -> Texts \cup {NoFile}],
         session \in Seq(Paths \cup {NoPath}), Len(session) <= MaxDocs
  PROVE  \A i \in 0 .. Len(session) : WindowFits(Loaded[i], {}) /\ Loaded[i].made <= i
<1>1. PICK n \in Nat : n = Len(session) /\ n <= MaxDocs /\ DOMAIN session = 1 .. n
  BY LenProperties
<1>2. Opens(Loaded, n)
  BY <1>1, LoadedOpens
<1>3. \A i \in 0 .. n :
          Loaded[i] = IF i = 0 THEN NoWindow ELSE LoadFile(Loaded[i - 1], session[i])
  BY <1>2 DEF Opens
<1> DEFINE Good(i) == WindowFits(Loaded[i], {}) /\ Loaded[i].made <= i
<1>4. Good(0)
  BY <1>1, <1>3, NoWindowFits, Fields
<1>5. ASSUME NEW i \in 1 .. n, Good(i - 1) PROVE Good(i)
  <2>1. PICK p \in Paths \cup {NoPath} : p = session[i]
    BY <1>1, ElementOfSeq
  <2>2. PICK w : w = Loaded[i - 1] /\ WindowFits(w, {}) /\ w.made <= i - 1
    BY <1>5
  <2>3. w.made \in Nat
    BY <2>2 DEF WindowFits, TabsFit
  <2>4. w.made < MaxDocs
    BY <1>1, <2>2, <2>3
  <2>5. WindowFits(LoadFile(w, p), {}) /\ LoadFile(w, p).made <= w.made + 1
    BY <2>2, <2>4, LoadFileFits
  <2>6. Loaded[i] = LoadFile(w, p)
    BY <1>1, <1>3, <2>1, <2>2
  <2>7. LoadFile(w, p).made \in Nat
    BY <2>5 DEF WindowFits, TabsFit
  <2>8. LoadFile(w, p).made <= i
    BY <2>2, <2>3, <2>5, <2>7
  <2> QED BY <2>5, <2>6, <2>8
<1> HIDE DEF Good
<1>6. \A i \in 0 .. n : Good(i)
  <2> DEFINE T == {k \in Nat : k <= n => Good(k)}
  <2>1. 0 \in T
    BY <1>4
  <2>2. ASSUME NEW k \in Nat, k \in T PROVE k + 1 \in T
    <3> SUFFICES ASSUME k + 1 <= n PROVE Good(k + 1)
      OBVIOUS
    <3>1. PICK i \in 1 .. n : i = k + 1 /\ i - 1 = k /\ k <= n
      BY <1>1
    <3> QED BY <1>5, <2>2, <3>1
  <2> HIDE DEF T
  <2>3. Nat \subseteq T
    BY <2>1, <2>2, Counting
  <2>4. \A i \in 0 .. n : i \in Nat /\ i <= n
    BY <1>1
  <2> QED BY <2>3, <2>4 DEF T
<1> QED BY <1>1, <1>6 DEF Good

-----------------------------------------------------------------------------
(* The steps *)

\* What a step without a say in the rest leaves as it was
Settled ==
    /\ disk \in [Paths -> Texts \cup {NoFile}]
    /\ session \in Seq(Paths \cup {NoPath}) /\ Len(session) <= MaxDocs
    /\ status \in {"up", "asking", "closed", "crashed"}
    /\ (status # "asking" => asks = 0)
    /\ spoiled \subseteq Docs /\ moves \in 0 .. MaxMoves

LEMMA Parts == DocInv <=> WindowFits(Window, spoiled) /\ asks \in 0 .. Len(tabs) /\ Settled
BY DEF DocInv, Settled

LEMMA Moved == ASSUME moves \in 0 .. MaxMoves, Move PROVE moves' \in 0 .. MaxMoves
BY DEF Move

LEMMA TabsMean ==
  ASSUME TabsFit(Window)
  PROVE  /\ tabs \in Seq(Docs) /\ made \in 0 .. MaxDocs /\ Len(tabs) \in Nat
         /\ Open = {d \in Docs : \E i \in DOMAIN tabs : tabs[i] = d}
         /\ \A i \in DOMAIN tabs : tabs[i] \in Docs
<1>1. tabs \in Seq(Docs) /\ made \in 0 .. MaxDocs
  BY Fields DEF TabsFit
<1>2. \A i \in DOMAIN tabs : tabs[i] \in Docs
  BY <1>1, ElementOfSeq
<1> QED BY <1>1, <1>2, LenProperties DEF Open, ToSet

\* The window that is shown is well formed if what was to be shown is.
LEMMA ShownFits ==
  ASSUME NEW w, NEW sp, WindowFits(w, sp), Shows(w), disk' = disk, sp \subseteq spoiled'
  PROVE  WindowFits(Window, spoiled)'
<1>1. /\ Window'.tabs = w.tabs /\ Window'.name = w.name /\ Window'.text = w.text
      /\ Window'.combo = w.combo /\ Window'.made = w.made
  BY DEF Window, Shows
<1>2. TabsFit(Window)' /\ NamesFit(Window)'
  BY <1>1 DEF TabsFit, NamesFit, WindowFits
<1>3. ListsFit(Window)'
  BY <1>1 DEF ListsFit, WindowFits
<1>4. FilesFit(Window, spoiled)'
  BY <1>1 DEF FilesFit, WindowFits
<1> QED BY <1>2, <1>3, <1>4 DEF WindowFits

LEMMA CreateFits == ASSUME DocInv, Create PROVE DocInv'
<1>1. WindowFits(Window, spoiled) /\ Settled /\ TabsFit(Window)
  BY Parts DEF WindowFits
<1>2. made < MaxDocs /\ tabs' = Append(tabs, made + 1) /\ made' = made + 1 /\ Move
      /\ status = "up" /\ UNCHANGED <<name, text, combo, disk, session, status, asks, spoiled>>
  BY DEF Create, files
<1>3. /\ Window'.tabs = tabs' /\ Window'.name = name /\ Window'.text = text
      /\ Window'.combo = combo /\ Window'.made = made'
  BY <1>2 DEF Window
<1>4. /\ TabsFit(Window')
      /\ \A i \in DOMAIN Window.tabs : i \in DOMAIN Window'.tabs /\ Window'.tabs[i] = Window.tabs[i]
  BY <1>1, <1>2, <1>3, Fields, TabAdded
<1>5. NamesFit(Window)' /\ FilesFit(Window, spoiled)'
  BY <1>1, <1>2, <1>3, Fields DEF WindowFits, NamesFit, FilesFit
<1>6. ListsFit(Window)'
  BY <1>1, <1>3, <1>4, Fields DEF WindowFits, ListsFit
<1>7. asks' \in 0 .. Len(tabs')
  <2>1. tabs' \in Seq(Docs)
    BY <1>3, <1>4 DEF TabsFit
  <2>2. Len(tabs') \in Nat
    BY <2>1, LenProperties
  <2>3. asks' = 0
    BY <1>1, <1>2 DEF Settled
  <2> QED BY <2>2, <2>3
<1>8. Settled'
  BY <1>1, <1>2, Moved DEF Settled
<1>9. WindowFits(Window, spoiled)'
  BY <1>4, <1>5, <1>6 DEF WindowFits
<1> QED BY <1>7, <1>8, <1>9, Parts DEF DocInv, Settled

LEMMA OpenFileFits == ASSUME DocInv, NEW p \in Paths, OpenFile(p) PROVE DocInv'
<1>1. WindowFits(Window, spoiled) /\ Settled
  BY Parts
<1>2. made < MaxDocs /\ Shows(LoadFile(Window, p)) /\ Move /\ status = "up"
      /\ UNCHANGED <<disk, session, status, asks, spoiled>>
  BY DEF OpenFile, files
<1>3. WindowFits(LoadFile(Window, p), spoiled)
  <2>1. Window.made < MaxDocs /\ disk \in [Paths -> Texts \cup {NoFile}]
    BY <1>1, <1>2, Fields DEF Settled
  <2> QED BY <1>1, <2>1, LoadFileFits
<1>4. WindowFits(Window, spoiled)'
  BY <1>2, <1>3, ShownFits
<1>5. asks' \in 0 .. Len(tabs')
  <2>1. tabs' \in Seq(Docs)
    BY <1>4 DEF WindowFits, TabsFit, Window
  <2>2. Len(tabs') \in Nat
    BY <2>1, LenProperties
  <2>3. asks' = 0
    BY <1>1, <1>2 DEF Settled
  <2> QED BY <2>2, <2>3
<1>6. Settled'
  BY <1>1, <1>2, Moved DEF Settled
<1> QED BY <1>4, <1>5, <1>6 DEF DocInv, Settled

LEMMA EditFits == ASSUME DocInv, NEW d \in Docs, NEW t \in Texts, Edit(d, t) PROVE DocInv'
<1>1. WindowFits(Window, spoiled) /\ Settled /\ asks \in 0 .. Len(tabs)
  BY Parts
<1>2. text' = [text EXCEPT ![d] = t] /\ Move
      /\ UNCHANGED <<tabs, name, combo, made, disk, session, status, asks, spoiled>>
  BY DEF Edit, files
<1>3. /\ Window'.tabs = tabs /\ Window'.name = name /\ Window'.text = text'
      /\ Window'.combo = combo /\ Window'.made = made
  BY <1>2 DEF Window
<1>4. TabsFit(Window)' /\ ListsFit(Window)' /\ FilesFit(Window, spoiled)'
  BY <1>1, <1>2, <1>3, Fields DEF WindowFits, TabsFit, ListsFit, FilesFit
<1>5. NamesFit(Window)'
  BY <1>1, <1>2, <1>3, Fields DEF WindowFits, NamesFit
<1>6. Settled'
  BY <1>1, <1>2, Moved DEF Settled
<1> QED BY <1>1, <1>2, <1>4, <1>5, <1>6 DEF DocInv, Settled, WindowFits

\* What is closed is in no list.
LEMMA CloseTabFits == ASSUME DocInv, NEW n \in Docs, CloseTab(n) PROVE DocInv'
<1>1. /\ TabsFit(Window) /\ NamesFit(Window) /\ ListsFit(Window)
      /\ FilesFit(Window, spoiled) /\ Settled
  BY Parts DEF WindowFits
<1>2. PICK d : d = tabs[n]
  OBVIOUS
<1>3. /\ n \in DOMAIN tabs /\ combo' \in DelConfig(d) /\ tabs' = RemoveAt(tabs, n)
      /\ name' = [name EXCEPT ![d] = NoPath] /\ text' = [text EXCEPT ![d] = "other"]
      /\ spoiled' = spoiled \ {d} /\ Move /\ status = "up"
      /\ UNCHANGED <<made, disk, session, status, asks>>
  BY <1>2 DEF CloseTab, files
<1>4. /\ Window'.tabs = tabs' /\ Window'.name = name' /\ Window'.text = text'
      /\ Window'.combo = combo' /\ Window'.made = made
  BY <1>3 DEF Window
<1>5. tabs \in Seq(Docs) /\ made \in 0 .. MaxDocs /\ d \in Docs
  BY <1>1, <1>2, <1>3, TabsMean
<1>6. /\ tabs' \in Seq(Docs) /\ Len(tabs') = Len(tabs) - 1
      /\ \A j \in DOMAIN tabs' : tabs'[j] = IF j < n THEN tabs[j] ELSE tabs[j + 1]
  BY <1>3, <1>5, TabRemoved
<1>7. PICK m \in Nat : m = Len(tabs) /\ DOMAIN tabs = 1 .. m /\ n \in 1 .. m
  BY <1>3, <1>5, LenProperties
<1>8. DOMAIN tabs' = 1 .. m - 1 /\ Len(tabs') = m - 1 /\ Len(tabs') \in Nat
  BY <1>6, <1>7, LenProperties
<1>9. TabsFit(Window)'
  <2>1. /\ m <= made /\ \A j \in 1 .. m : tabs[j] <= made
        /\ \A i, j \in 1 .. m : tabs[i] = tabs[j] => i = j
    BY <1>1, <1>7, Fields DEF TabsFit
  <2>2. \A j \in 1 .. m - 1 : j \in 1 .. m /\ j + 1 \in 1 .. m
    BY <1>7
  <2>3. \A j \in 1 .. m - 1 : tabs'[j] = IF j < n THEN tabs[j] ELSE tabs[j + 1]
    BY <1>6, <1>8
  <2>4. \A j \in 1 .. m - 1 : tabs'[j] <= made
    BY <2>1, <2>2, <2>3
  <2>5. \A i, j \in 1 .. m - 1 : tabs'[i] = tabs'[j] => i = j
    <3> TAKE i, j \in 1 .. m - 1
    <3> HAVE tabs'[i] = tabs'[j]
    <3>1. (IF i < n THEN i ELSE i + 1) = (IF j < n THEN j ELSE j + 1)
      BY <2>1, <2>2, <2>3
    <3> QED BY <1>7, <3>1
  <2>6. Len(tabs') <= made
    BY <1>5, <1>7, <1>8, <2>1
  <2> QED BY <1>3, <1>4, <1>5, <1>6, <1>8, <2>4, <2>5, <2>6 DEF TabsFit
<1>10. NamesFit(Window)'
  <2>1. name \in [Docs -> Paths \cup {NoPath}] /\ text \in [Docs -> Texts] /\ "other" \in Texts
    BY <1>1, Fields DEF NamesFit, Texts
  <2>2. name' \in [Docs -> Paths \cup {NoPath}] /\ text' \in [Docs -> Texts]
    BY <1>3, <2>1
  <2> QED BY <1>4, <2>2 DEF NamesFit
<1>11. Selects(combo') /\ \A l \in Kinds : combo'[l].items = combo[l].items \ {d}
  BY <1>1, <1>3, <1>5, Fields, DelConfigSelects DEF ListsFit
<1>12. ListsFit(Window)'
  <2>1. ASSUME NEW k \in Kinds, NEW e \in combo'[k].items
        PROVE  (\E i \in DOMAIN tabs' : tabs'[i] = e) /\ name'[e] # NoPath
    <3>1. e \in combo[k].items /\ e # d
      BY <1>11
    <3>2. PICK i \in DOMAIN tabs : tabs[i] = e
      BY <1>1, <3>1, Fields DEF ListsFit
    <3>3. name[e] # NoPath /\ e \in Docs
      BY <1>1, <3>1, <3>2, Fields, TabsMean DEF ListsFit
    <3>4. i # n /\ i \in 1 .. m
      BY <1>2, <1>7, <3>1, <3>2
    <3>5. PICK j \in 1 .. m - 1 : (IF j < n THEN j ELSE j + 1) = i
      <4>1. CASE i < n
        BY <1>7, <3>4, <4>1
      <4>2. CASE ~(i < n)
        <5>1. i - 1 \in 1 .. m - 1 /\ ~(i - 1 < n) /\ (i - 1) + 1 = i
          BY <1>7, <3>4, <4>2
        <5> QED BY <5>1
      <4> QED BY <4>1, <4>2
    <3>6. tabs'[j] = e
      BY <1>6, <1>8, <3>2, <3>5
    <3>7. name'[e] # NoPath
      BY <1>1, <1>3, <3>1, <3>3, Fields DEF NamesFit
    <3> QED BY <1>8, <3>6, <3>7
  <2>2. combo'["app"].items \cap combo'["deploy"].items = {}
    BY <1>1, <1>11, Fields DEF ListsFit, Kinds
  <2> QED BY <1>4, <1>11, <2>1, <2>2 DEF ListsFit
<1>13. FilesFit(Window, spoiled)'
  <2> SUFFICES ASSUME NEW k \in Kinds, NEW e \in combo'[k].items, e \notin spoiled'
               PROVE  Fits(disk[name'[e]], k)
    BY <1>3, <1>4 DEF FilesFit
  <2>1. e \in combo[k].items /\ e # d /\ e \notin spoiled
    BY <1>3, <1>11
  <2>2. e \in Docs
    BY <1>1, <2>1, ListedEarlier, Fields
  <2>3. name'[e] = name[e]
    BY <1>1, <1>3, <2>1, <2>2, Fields DEF NamesFit
  <2> QED BY <1>1, <2>1, <2>3, Fields DEF FilesFit
<1>14. Settled' /\ asks' \in 0 .. Len(tabs')
  BY <1>1, <1>3, <1>8, Moved DEF Settled
<1> QED BY <1>9, <1>10, <1>12, <1>13, <1>14 DEF DocInv, Settled, WindowFits

\* The same tabs are there in another order.
LEMMA MoveTabFits == ASSUME DocInv, NEW n \in Docs, MoveTab(n) PROVE DocInv'
<1>1. /\ TabsFit(Window) /\ NamesFit(Window) /\ ListsFit(Window)
      /\ FilesFit(Window, spoiled) /\ Settled /\ asks \in 0 .. Len(tabs)
  BY Parts DEF WindowFits
<1>2. /\ n \in DOMAIN tabs /\ n + 1 \in DOMAIN tabs
      /\ tabs' = [tabs EXCEPT ![n] = tabs[n + 1], ![n + 1] = tabs[n]] /\ Move
      /\ UNCHANGED <<name, text, combo, made, disk, session, status, asks, spoiled>>
  BY DEF MoveTab, files
<1>3. /\ Window'.tabs = tabs' /\ Window'.name = name /\ Window'.text = text
      /\ Window'.combo = combo /\ Window'.made = made
  BY <1>2 DEF Window
<1>4. PICK m \in Nat : m = Len(tabs) /\ DOMAIN tabs = 1 .. m
  BY <1>1, TabsMean, LenProperties
<1>5. PICK l \in 1 .. m : l = n + 1 /\ n \in 1 .. m /\ n # l
  BY <1>2, <1>4 DEF Docs
<1>6. /\ DOMAIN tabs' = 1 .. m
      /\ \A i \in 1 .. m :
            tabs'[i] = IF i = l THEN tabs[n] ELSE IF i = n THEN tabs[l] ELSE tabs[i]
  BY <1>2, <1>4, <1>5
<1>7. tabs' \in Seq(Docs) /\ Len(tabs') = m
  <2>1. \A i \in 1 .. m : tabs[i] \in Docs
    BY <1>1, <1>4, TabsMean
  <2>2. tabs' = [i \in 1 .. m |-> tabs'[i]]
    BY <1>2, <1>6
  <2>3. \A i \in 1 .. m : tabs'[i] \in Docs
    BY <1>5, <1>6, <2>1
  <2>4. tabs' \in [1 .. m -> Docs]
    BY <2>2, <2>3
  <2> QED BY <2>4, SeqDef, LenProperties
<1>8. /\ m <= made /\ \A i \in 1 .. m : tabs[i] <= made
      /\ \A i, j \in 1 .. m : tabs[i] = tabs[j] => i = j
  BY <1>1, <1>4, Fields DEF TabsFit
<1>9. TabsFit(Window)'
  <2>1. \A i \in 1 .. m : tabs'[i] <= made
    BY <1>5, <1>6, <1>8
  <2>2. \A i, j \in 1 .. m : tabs'[i] = tabs'[j] => i = j
    BY <1>5, <1>6, <1>8
  <2>3. made \in 0 .. MaxDocs
    BY <1>1, TabsMean
  <2> QED BY <1>2, <1>3, <1>6, <1>7, <1>8, <2>1, <2>2, <2>3 DEF TabsFit
<1>10. ListsFit(Window)'
  <2>1. ASSUME NEW d, \E i \in DOMAIN tabs : tabs[i] = d
        PROVE  \E i \in DOMAIN tabs' : tabs'[i] = d
    <3>1. PICK i \in 1 .. m : tabs[i] = d
      BY <1>4, <2>1
    <3>2. CASE i = n
      BY <1>5, <1>6, <3>1, <3>2
    <3>3. CASE i = l
      BY <1>5, <1>6, <3>1, <3>3
    <3>4. CASE i # n /\ i # l
      BY <1>6, <3>1, <3>4
    <3> QED BY <3>2, <3>3, <3>4
  <2> QED BY <1>1, <1>3, <2>1, Fields DEF ListsFit
<1>11. NamesFit(Window)' /\ FilesFit(Window, spoiled)'
  BY <1>1, <1>2, <1>3, Fields DEF NamesFit, FilesFit
<1>12. Settled' /\ asks' \in 0 .. Len(tabs')
  BY <1>1, <1>2, <1>4, <1>7, Moved DEF Settled
<1> QED BY <1>9, <1>10, <1>11, <1>12 DEF DocInv, Settled, WindowFits

\* A save names the document, and lists it by what it shows once the file is written.
LEMMA SaveDocumentFits ==
  ASSUME DocInv, NEW d \in Docs, \E i \in DOMAIN tabs : tabs[i] = d, SaveDocument(d),
         UNCHANGED <<tabs, made, session, status>>
  PROVE  /\ WindowFits(Window, spoiled)' /\ disk' \in [Paths -> Texts \cup {NoFile}]
         /\ spoiled' \subseteq Docs /\ moves' \in 0 .. MaxMoves
<1>1. /\ TabsFit(Window) /\ NamesFit(Window) /\ ListsFit(Window)
      /\ FilesFit(Window, spoiled) /\ Settled
  BY Parts DEF WindowFits
<1>2. PICK p \in Targets(d) : NotSaved(d, p) \/ Saved(d, p)
  BY DEF SaveDocument
<1>3. /\ name \in [Docs -> Paths \cup {NoPath}] /\ text \in [Docs -> Texts]
      /\ combo \in [Kinds -> Combos] /\ Selects(combo)
      /\ disk \in [Paths -> Texts \cup {NoFile}] /\ spoiled \subseteq Docs
  BY <1>1, Fields DEF NamesFit, ListsFit, Selects, Settled
<1>4. p \in Paths /\ p # NoPath /\ (name[d] # NoPath => p = name[d])
  BY <1>2, <1>3 DEF Targets
<1>5. /\ name' = [name EXCEPT ![d] = p] /\ text' = text
      /\ \A e \in Docs : name'[e] = IF e = d THEN p ELSE name[e]
  BY <1>2, <1>3 DEF NotSaved, Saved
<1>6. /\ Window'.tabs = tabs /\ Window'.name = name' /\ Window'.text = text
      /\ Window'.combo = combo' /\ Window'.made = made
  BY <1>5 DEF Window
<1>7. TabsFit(Window)'
  BY <1>1, <1>6, Fields DEF TabsFit
<1>8. NamesFit(Window)'
  <2>1. name' \in [Docs -> Paths \cup {NoPath}]
    BY <1>3, <1>4, <1>5
  <2> QED BY <1>3, <1>6, <2>1 DEF NamesFit
<1>9. moves' \in 0 .. MaxMoves
  BY <1>1, Moved DEF Settled, SaveDocument
<1>10. \A k \in Kinds : \A e \in combo[k].items :
          /\ e \in Docs /\ name[e] # NoPath /\ \E i \in DOMAIN tabs : tabs[i] = e
  BY <1>1, Fields, ListedEarlier DEF ListsFit
<1>11. combo["app"].items \cap combo["deploy"].items = {}
  BY <1>1, Fields DEF ListsFit
<1>12. CASE NotSaved(d, p)
  <2>1. combo' = combo /\ disk' = disk /\ spoiled' = spoiled
    BY <1>12 DEF NotSaved
  <2>2. \A k \in Kinds : \A e \in combo[k].items : name'[e] = name[e]
    BY <1>4, <1>5, <1>10
  <2>3. ListsFit(Window)'
    BY <1>3, <1>6, <1>10, <1>11, <2>1, <2>2 DEF ListsFit
  <2>4. FilesFit(Window, spoiled)'
    BY <1>1, <1>6, <2>1, <2>2, Fields DEF FilesFit
  <2> QED BY <1>3, <1>7, <1>8, <1>9, <2>1, <2>3, <2>4 DEF WindowFits
<1>13. CASE Saved(d, p)
  <2>1. combo' \in UpdateConfig(d)
    BY <1>13 DEF Saved
  <2>2. \/ disk' = [disk EXCEPT ![p] = text[d]] /\ spoiled' = (spoiled \ {d}) \cup Losers(p, d)
        \/ disk' = [disk EXCEPT ![p] = "other"] /\ spoiled' = spoiled \cup {d} \cup Losers(p, d)
    BY <1>13 DEF Saved
  <2>3. /\ Selects(combo')
        /\ \A l \in Kinds : combo'[l].items =
              IF l = KindOf(text[d]) THEN combo[l].items \cup {d} ELSE combo[l].items \ {d}
    BY <1>3, <2>1, UpdateConfigSelects
  <2>4. \A k \in Kinds : \A e \in combo'[k].items :
            IF e = d THEN k = KindOf(text[d]) ELSE e \in combo[k].items
    <3> TAKE k \in Kinds
    <3> TAKE e \in combo'[k].items
    <3>1. CASE k = KindOf(text[d])
      <4>1. e \in combo[k].items \cup {d}
        BY <2>3, <3>1
      <4> QED BY <3>1, <4>1
    <3>2. CASE k # KindOf(text[d])
      <4>1. e \in combo[k].items \ {d}
        BY <2>3, <3>2
      <4> QED BY <4>1
    <3> QED BY <3>1, <3>2
  <2>5. ListsFit(Window)'
    <3>1. ASSUME NEW k \in Kinds, NEW e \in combo'[k].items
          PROVE  (\E i \in DOMAIN tabs : tabs[i] = e) /\ name'[e] # NoPath
      BY <1>4, <1>5, <1>10, <2>4
    <3>2. combo'["app"].items \cap combo'["deploy"].items = {}
      <4>1. "app" \in Kinds /\ "deploy" \in Kinds /\ "app" # "deploy"
        BY DEF Kinds
      <4> QED BY <1>11, <2>4, <4>1
    <3> QED BY <1>6, <2>3, <3>1, <3>2 DEF ListsFit
  <2>6. Losers(p, d) \subseteq Docs
    BY <1>1, TabsMean DEF Losers
  <2>7. disk' \in [Paths -> Texts \cup {NoFile}] /\ spoiled' \subseteq Docs
    <3>1. "other" \in Texts /\ text[d] \in Texts
      BY <1>3 DEF Texts
    <3> QED BY <1>3, <2>2, <2>6, <3>1
  <2>8. FilesFit(Window, spoiled)'
    <3> SUFFICES ASSUME NEW k \in Kinds, NEW e \in combo'[k].items, e \notin spoiled'
                 PROVE  Fits(disk'[name'[e]], k)
      BY <1>6 DEF FilesFit
    <3>1. CASE e = d
      <4>1. k = KindOf(text[d]) /\ name'[e] = p
        BY <1>5, <2>4, <3>1
      <4>2. disk' = [disk EXCEPT ![p] = text[d]]
        BY <2>2, <3>1
      <4>3. Fits(text[d], k)
        BY <1>3, <4>1, TextsOf
      <4>4. disk'[name'[d]] = text[d]
        BY <1>3, <1>4, <3>1, <4>1, <4>2
      <4> QED BY <3>1, <4>3, <4>4
    <3>2. CASE e # d
      <4>1. e \in combo[k].items /\ e \in Docs /\ name'[e] = name[e] /\ name[e] # NoPath
        BY <1>5, <1>10, <2>4, <3>2
      <4>2. e \in Open
        BY <1>1, <1>10, <4>1, TabsMean
      <4>3. name[e] # p /\ e \notin spoiled
        BY <2>2, <3>2, <4>1, <4>2 DEF Losers
      <4>4. disk'[name[e]] = disk[name[e]]
        BY <1>3, <1>4, <2>2, <4>1, <4>3
      <4>5. Fits(disk[name[e]], k)
        BY <1>1, <4>1, <4>3, Fields DEF FilesFit
      <4> QED BY <4>1, <4>4, <4>5
    <3> QED BY <3>1, <3>2
  <2> QED BY <1>7, <1>8, <1>9, <2>5, <2>7, <2>8 DEF WindowFits
<1> QED BY <1>2, <1>12, <1>13

LEMMA SaveFits == ASSUME DocInv, NEW d \in Docs, Save(d) PROVE DocInv'
<1>1. /\ SaveDocument(d) /\ UNCHANGED <<tabs, made, session, status, asks>>
      /\ \E i \in DOMAIN tabs : tabs[i] = d
  BY Parts, TabsMean DEF Save, WindowFits
<1>2. Settled /\ asks \in 0 .. Len(tabs)
  BY Parts
<1> QED BY <1>1, <1>2, SaveDocumentFits DEF DocInv, Settled

LEMMA AsksFits == ASSUME DocInv, Asks PROVE DocInv'
<1>1. WindowFits(Window, spoiled) /\ Settled /\ asks \in 0 .. Len(tabs)
  BY Parts
<1>2. /\ status = "asking" /\ asks < Len(tabs) /\ asks' = asks + 1
      /\ UNCHANGED <<tabs, made, session, status>>
      /\ \/ SaveDocument(tabs[asks + 1])
         \/ UNCHANGED <<name, text, combo, disk, spoiled, moves>>
  BY DEF Asks
<1>3. asks' \in 0 .. Len(tabs') /\ asks + 1 \in 1 .. Len(tabs)
  BY <1>1, <1>2, TabsMean DEF WindowFits
<1>4. PICK i \in DOMAIN tabs : i = asks + 1
  BY <1>1, <1>3, TabsMean, LenProperties DEF WindowFits
<1>5. PICK d \in Docs : d = tabs[i]
  BY <1>1, TabsMean DEF WindowFits
<1>6. CASE SaveDocument(d)
  BY <1>1, <1>2, <1>3, <1>5, <1>6, SaveDocumentFits DEF DocInv, Settled
<1>7. CASE UNCHANGED <<name, text, combo, disk, spoiled, moves>>
  <2>1. Window' = Window
    BY <1>2, <1>7 DEF Window
  <2>2. WindowFits(Window, spoiled)'
    BY <1>1, <1>7, <2>1 DEF WindowFits, FilesFit
  <2> QED BY <1>1, <1>2, <1>3, <1>7, <2>2 DEF DocInv, Settled
<1> QED BY <1>2, <1>4, <1>5, <1>6, <1>7

LEMMA CrashFits == ASSUME DocInv, Crash PROVE DocInv'
<1>1. Settled
  BY Parts
<1>2. Shows(NoWindow) /\ status' = "crashed" /\ asks' = 0 /\ spoiled' = {}
      /\ UNCHANGED <<disk, session, moves>>
  BY DEF Crash, files
<1>3. WindowFits(Window, spoiled)'
  BY <1>2, NoWindowFits, ShownFits
<1>4. tabs' = <<>> /\ Len(tabs') = 0
  BY <1>2, Fields DEF Shows
<1> QED BY <1>1, <1>2, <1>3, <1>4 DEF DocInv, Settled

LEMMA StartFits == ASSUME DocInv, Start PROVE DocInv'
<1>1. Settled
  BY Parts
<1>2. Shows(Loaded[Len(session)]) /\ status' = "up" /\ spoiled' = {} /\ Move
      /\ status \in {"closed", "crashed"} /\ UNCHANGED <<disk, session, asks>>
  BY DEF Start, files
<1>3. WindowFits(Loaded[Len(session)], {})
  BY <1>1, LoadedFits DEF Settled
<1>4. WindowFits(Window, spoiled)'
  BY <1>2, <1>3, ShownFits
<1>5. asks' \in 0 .. Len(tabs')
  <2>1. tabs' \in Seq(Docs)
    BY <1>4 DEF WindowFits, TabsFit, Window
  <2>2. Len(tabs') \in Nat
    BY <2>1, LenProperties
  <2>3. asks' = 0
    BY <1>1, <1>2 DEF Settled
  <2> QED BY <2>2, <2>3
<1>6. Settled'
  BY <1>1, <1>2, Moved DEF Settled
<1> QED BY <1>4, <1>5, <1>6 DEF DocInv, Settled

LEMMA ChangedFits ==
  ASSUME DocInv, NEW p \in Paths, NEW t \in Texts \cup {NoFile}, Changed(p, t)
  PROVE  DocInv'
<1>1. WindowFits(Window, spoiled) /\ Settled /\ asks \in 0 .. Len(tabs)
  BY Parts
<1>2. /\ disk' = [disk EXCEPT ![p] = t] /\ spoiled' = spoiled \cup {d \in Open : name[d] = p}
      /\ Move /\ Window' = Window /\ UNCHANGED <<tabs, session, status, asks>>
  BY DEF Changed, window, Window
<1>3. disk \in [Paths -> Texts \cup {NoFile}]
  BY <1>1 DEF Settled
<1>4. FilesFit(Window, spoiled)'
  <2> SUFFICES ASSUME NEW k \in Kinds, NEW d \in combo[k].items, d \notin spoiled'
               PROVE  Fits(disk'[name[d]], k)
    BY <1>2, Fields DEF FilesFit
  <2>1. /\ d \in Docs /\ name[d] # NoPath /\ \E i \in DOMAIN tabs : tabs[i] = d
    BY <1>1, Fields, ListedEarlier DEF WindowFits, ListsFit
  <2>2. d \in Open /\ name[d] \in Paths
    BY <1>1, <2>1, Fields, TabsMean DEF WindowFits, NamesFit
  <2>3. name[d] # p /\ d \notin spoiled
    BY <1>2, <2>2
  <2>4. Fits(disk[name[d]], k)
    BY <1>1, <2>3, Fields DEF WindowFits, FilesFit
  <2> QED BY <1>2, <1>3, <2>2, <2>3, <2>4
<1>5. TabsFit(Window)' /\ NamesFit(Window)' /\ ListsFit(Window)'
  BY <1>1, <1>2 DEF WindowFits, TabsFit, NamesFit, ListsFit
<1>6. disk' \in [Paths -> Texts \cup {NoFile}] /\ spoiled' \subseteq Docs
  BY <1>1, <1>2, <1>3, TabsMean DEF Settled, WindowFits
<1>7. Settled'
  BY <1>1, <1>2, <1>6, Moved DEF Settled
<1> QED BY <1>1, <1>2, <1>4, <1>5, <1>7 DEF DocInv, Settled, WindowFits

\* Steps that move none of the documents
LEMMA RestFits ==
  ASSUME DocInv,
         \/ \E k \in Kinds, d \in Docs : Select(k, d)
         \/ Exit
         \/ Exits
         \/ UNCHANGED vars
  PROVE  DocInv'
<1>1. WindowFits(Window, spoiled) /\ Settled /\ asks \in 0 .. Len(tabs)
  BY Parts
<1>2. ASSUME NEW k \in Kinds, NEW d \in Docs, Select(k, d) PROVE DocInv'
  <2>1. d \in combo[k].items /\ combo' = [combo EXCEPT ![k].at = d]
        /\ UNCHANGED <<tabs, name, text, made, disk, session, status, asks, spoiled, moves>>
    BY <1>2 DEF Select, files
  <2>2. /\ Window'.tabs = tabs /\ Window'.name = name /\ Window'.text = text
        /\ Window'.combo = combo' /\ Window'.made = made
    BY <2>1 DEF Window
  <2>3. combo \in [Kinds -> Combos] /\ Selects(combo)
    BY <1>1, Fields DEF WindowFits, ListsFit, Selects
  <2>4. /\ Selects(combo') /\ \A l \in Kinds : combo'[l].items = combo[l].items
    BY <2>1, <2>3 DEF Selects, Combos
  <2>5. "app" \in Kinds /\ "deploy" \in Kinds
    BY DEF Kinds
  <2>6. ListsFit(Window)'
    BY <1>1, <2>1, <2>2, <2>4, <2>5, Fields DEF WindowFits, ListsFit
  <2>7. TabsFit(Window)' /\ NamesFit(Window)' /\ FilesFit(Window, spoiled)'
    BY <1>1, <2>1, <2>2, <2>4, Fields DEF WindowFits, TabsFit, NamesFit, FilesFit
  <2> QED BY <1>1, <2>1, <2>6, <2>7 DEF DocInv, Settled, WindowFits
<1>3. ASSUME UNCHANGED <<tabs, name, text, combo, made, disk, spoiled, moves>>
      PROVE  WindowFits(Window, spoiled)'
  <2>1. Window' = Window
    BY <1>3 DEF Window
  <2> QED BY <1>1, <1>3, <2>1 DEF WindowFits, FilesFit
<1>4. CASE Exit
  BY <1>1, <1>3, <1>4 DEF Exit, DocInv, Settled, window, files
<1>5. CASE UNCHANGED vars
  BY <1>1, <1>3, <1>5 DEF vars, DocInv, Settled, window, files
<1>6. CASE Exits
  <2>1. /\ session' = Names /\ status' = "closed" /\ asks' = 0
        /\ UNCHANGED <<tabs, name, text, combo, made, disk, spoiled, moves>>
    BY <1>6 DEF Exits, window
  <2>2. PICK n \in Nat : n = Len(tabs) /\ DOMAIN tabs = 1 .. n /\ n <= MaxDocs
    <3>1. Len(tabs) \in Nat /\ DOMAIN tabs = 1 .. Len(tabs) /\ Len(tabs) <= made /\ made \in 0 .. MaxDocs
      BY <1>1, Fields, TabsMean, LenProperties DEF WindowFits, TabsFit
    <3>2. Len(tabs) <= MaxDocs
      BY <3>1
    <3> QED BY <3>1, <3>2
  <2>3. \A i \in 1 .. n : name[tabs[i]] \in Paths \cup {NoPath}
    BY <1>1, <2>2, Fields, TabsMean DEF WindowFits, NamesFit
  <2>4. Names = [i \in 1 .. n |-> name[tabs[i]]]
    BY <2>2 DEF Names
  <2>5. Names \in Seq(Paths \cup {NoPath}) /\ Len(Names) = n
    BY <2>3, <2>4, IsASeq
  <2>6. asks' \in 0 .. Len(tabs')
    BY <2>1, <2>2
  <2> QED BY <1>1, <1>3, <2>1, <2>2, <2>5, <2>6 DEF DocInv, Settled
<1> QED BY <1>2, <1>4, <1>5, <1>6

LEMMA DocStep == ASSUME DocInv, [Next]_vars PROVE DocInv'
<1>1. Load => Crash \/ UNCHANGED vars
  BY DEF Load
<1>2. Killed \/ CloseNoTab => Crash
  BY DEF Killed, CloseNoTab
<1> QED BY <1>1, <1>2, CreateFits, OpenFileFits, EditFits, CloseTabFits, MoveTabFits,
      SaveFits, AsksFits,
      CrashFits, StartFits, ChangedFits, RestFits DEF Next

LEMMA DocInit == ASSUME Init PROVE DocInv
<1>1. /\ Window.tabs = NoWindow.tabs /\ Window.name = NoWindow.name
      /\ Window.text = NoWindow.text /\ Window.combo = NoWindow.combo
      /\ Window.made = NoWindow.made
  BY DEF Init, Window
<1>2. TabsFit(Window) /\ NamesFit(Window)
  BY <1>1, NoWindowFits DEF WindowFits, TabsFit, NamesFit
<1>3. ListsFit(Window) /\ FilesFit(Window, spoiled)
  BY <1>1, NoWindowFits DEF WindowFits, ListsFit, FilesFit
<1>4. tabs = <<>> /\ Len(tabs) = 0
  BY Fields DEF Init
<1> QED BY <1>2, <1>3, <1>4 DEF Init, DocInv, WindowFits

LEMMA DocMeans ==
  ASSUME DocInv
  PROVE  TypeOK /\ CombosListOpen /\ ListsMatchFiles
<1>1. /\ TabsFit(Window) /\ NamesFit(Window) /\ ListsFit(Window)
      /\ FilesFit(Window, spoiled)
  BY DEF DocInv, WindowFits
<1>2. TypeOK
  <2>1. /\ tabs \in Seq(Docs) /\ IsInjective(tabs)
    BY <1>1, Fields DEF TabsFit, IsInjective
  <2> QED BY <1>1, <2>1, Fields DEF TypeOK, DocInv, TabsFit, NamesFit, ListsFit, Selects
<1>3. CombosListOpen
  <2>1. \A k \in Kinds : combo[k].items \subseteq {d \in Open : name[d] # NoPath}
    BY <1>1, Fields, TabsMean, ListedEarlier DEF ListsFit
  <2> QED BY <1>1, <2>1, Fields DEF CombosListOpen, ListsFit, Selects
<1>4. ListsMatchFiles
  BY <1>1, Fields DEF ListsMatchFiles, FilesFit
<1> QED BY <1>2, <1>3, <1>4

-----------------------------------------------------------------------------
(* What the next start shows *)

NamesOf(w) == [i \in DOMAIN w.tabs |-> w.name[w.tabs[i]]]

\* While the terminal is closed nothing changes the session that it left.
SessionKept == status = "closed" => session = Names

\* load_file gives the window one name more, if there is such a file.
LEMMA LoadFileNames ==
  ASSUME disk \in [Paths -> Texts \cup {NoFile}], NEW w, WindowFits(w, {}),
         w.made < MaxDocs, NEW p \in Paths \cup {NoPath}
  PROVE  /\ NamesOf(w) \in Seq(Paths \cup {NoPath})
         /\ NamesOf(LoadFile(w, p)) =
               IF Exists(p) THEN Append(NamesOf(w), p) ELSE NamesOf(w)
<1>1. TabsFit(w) /\ NamesFit(w)
  BY DEF WindowFits
<1>2. PICK d \in Nat : d = w.made + 1
  BY <1>1 DEF TabsFit
<1>3. PICK n \in Nat : n = Len(w.tabs) /\ DOMAIN w.tabs = 1 .. n /\ w.tabs \in Seq(Docs)
  BY <1>1, LenProperties DEF TabsFit
<1>4. \A i \in 1 .. n : w.tabs[i] \in Docs /\ w.tabs[i] # d
  <2> TAKE i \in 1 .. n
  <2>1. i \in DOMAIN w.tabs
    BY <1>3
  <2>2. PICK e \in Docs : e = w.tabs[i]
    BY <1>3, <2>1, ElementOfSeq
  <2>3. e <= w.made /\ w.made \in Nat
    BY <1>1, <2>1, <2>2 DEF TabsFit
  <2>4. e \in Nat
    BY DEF Docs
  <2>5. e # d
    BY ONLY <1>2, <2>3, <2>4
  <2> QED BY <2>2, <2>5
<1>5. d \in Docs
  BY <1>1, <1>2 DEF TabsFit, Docs
<1>6. NamesOf(w) \in Seq(Paths \cup {NoPath}) /\ Len(NamesOf(w)) = n
  <2>1. NamesOf(w) = [i \in 1 .. n |-> w.name[w.tabs[i]]]
    BY <1>3 DEF NamesOf
  <2>2. NamesOf(w) \in [1 .. n -> Paths \cup {NoPath}]
    BY <1>1, <1>4, <2>1 DEF NamesFit
  <2> QED BY <2>2, <1>3, SeqDef, LenProperties
<1>7. CASE ~Exists(p)
  BY <1>6, <1>7 DEF LoadFile
<1>8. CASE Exists(p)
  <2>1. PICK v : v = LoadFile(w, p)
    OBVIOUS
  <2>2. v.tabs = Append(w.tabs, d) /\ v.name = [w.name EXCEPT ![d] = p]
    BY <1>2, <1>8, <2>1 DEF LoadFile
  <2>3. PICK m \in Nat : m = n + 1
    OBVIOUS
  <2>4. /\ DOMAIN v.tabs = 1 .. m /\ v.tabs[m] = d
        /\ \A i \in 1 .. n : v.tabs[i] = w.tabs[i]
    BY <1>3, <1>5, <2>2, <2>3, AppendProperties
  <2>5. v.name[d] = p /\ \A e \in Docs : e # d => v.name[e] = w.name[e]
    BY <1>1, <1>5, <2>2 DEF NamesFit
  <2> DEFINE a == Append(NamesOf(w), p)
  <2>6. /\ a = [i \in DOMAIN a |-> a[i]] /\ DOMAIN a = 1 .. m /\ a[m] = p
        /\ \A i \in 1 .. n : a[i] = NamesOf(w)[i]
    <3>1. PICK s \in Seq(Paths \cup {NoPath}) : s = NamesOf(w) /\ Len(s) = n
      BY <1>6
    <3>2. a \in Seq(Paths \cup {NoPath}) /\ Len(a) = m
      BY <2>3, <3>1, AppendProperties
    <3>3. DOMAIN a = 1 .. m /\ a = [i \in DOMAIN a |-> a[i]]
      <4> HIDE DEF a
      <4>1. DOMAIN a = 1 .. m
        BY <3>2, LenProperties
      <4>2. a \in [1 .. m -> Paths \cup {NoPath}]
        BY <3>2, LenProperties
      <4> QED BY <4>1, <4>2
    <3>4. a[m] = p /\ \A i \in 1 .. n : a[i] = s[i]
      BY <2>3, <3>1, AppendProperties
    <3> QED BY <3>1, <3>3, <3>4
  <2>7. \A i \in 1 .. m : NamesOf(v)[i] = a[i]
    <3> HIDE DEF a
    <3> TAKE i \in 1 .. m
    <3>1. NamesOf(v)[i] = v.name[v.tabs[i]]
      BY <2>4 DEF NamesOf
    <3>2. CASE i = m
      BY <2>4, <2>5, <2>6, <3>1, <3>2
    <3>3. CASE i # m
      <4>1. i \in 1 .. n
        BY <2>3, <3>3
      <4>2. NamesOf(w)[i] = w.name[w.tabs[i]]
        BY <1>3, <4>1 DEF NamesOf
      <4> QED BY <1>4, <2>4, <2>5, <2>6, <3>1, <4>1, <4>2
    <3> QED BY <3>2, <3>3
  <2>8. NamesOf(v) = [i \in 1 .. m |-> NamesOf(v)[i]]
    BY <2>4 DEF NamesOf
  <2> HIDE DEF a
  <2>9. NamesOf(v) = a
    BY <2>6, <2>7, <2>8
  <2> QED BY <1>6, <1>8, <2>1, <2>9 DEF a
<1> QED BY <1>7, <1>8

\* load_session gives the window the names in the session whose files exist.
LEMMA StartRestores ==
  ASSUME DocInv, SessionKept, status = "closed", Start
  PROVE  Names' = Remaining[Len(tabs)]
<1>1. /\ session = Names /\ disk \in [Paths -> Texts \cup {NoFile}]
      /\ session \in Seq(Paths \cup {NoPath}) /\ Len(session) <= MaxDocs
  BY DEF SessionKept, DocInv
<1>2. PICK n \in Nat : n = Len(session) /\ n <= MaxDocs /\ DOMAIN session = 1 .. n
  BY <1>1, LenProperties
<1>3. n = Len(tabs)
  <2>1. tabs \in Seq(Docs)
    BY Fields DEF DocInv, WindowFits, TabsFit
  <2>2. PICK m \in Nat : m = Len(tabs) /\ DOMAIN tabs = 1 .. m
    BY <2>1, LenProperties
  <2>3. 1 .. n = 1 .. m
    BY <1>1, <1>2, <2>2 DEF Names
  <2>4. n = m
    <3>1. n > m => n \in 1 .. n /\ n \notin 1 .. m
      OBVIOUS
    <3>2. m > n => m \in 1 .. m /\ m \notin 1 .. n
      OBVIOUS
    <3>3. ~(n > m) /\ ~(m > n) => n = m
      OBVIOUS
    <3> QED BY <2>3, <3>1, <3>2, <3>3
  <2> QED BY <2>2, <2>4
<1>4. \A i \in 0 .. n :
          Loaded[i] = IF i = 0 THEN NoWindow ELSE LoadFile(Loaded[i - 1], session[i])
  BY <1>2, LoadedOpens DEF Opens
<1>5. \A i \in 0 .. n : WindowFits(Loaded[i], {}) /\ Loaded[i].made <= i
  BY <1>1, <1>2, LoadedFits
<1>6. \A i \in 1 .. n : i \in 0 .. n /\ i # 0 /\ i - 1 \in 0 .. n
  BY <1>2
<1> DEFINE g == [i \in 0 .. n |-> NamesOf(Loaded[i])]
<1>7. \A i \in 0 .. n : g[i] = NamesOf(Loaded[i])
  OBVIOUS
<1>8. g = [i \in 0 .. n |-> g[i]]
  OBVIOUS
<1> HIDE DEF g
<1>9. g[0] = <<>>
  <2>1. Loaded[0] = NoWindow /\ g[0] = NamesOf(Loaded[0])
    BY <1>2, <1>4, <1>7
  <2>2. NoWindow.tabs = <<>>
    BY Fields
  <2>3. NamesOf(NoWindow) = <<>>
    BY <2>2 DEF NamesOf
  <2> QED BY <2>1, <2>3
<1>10. ASSUME NEW i \in 1 .. n
       PROVE  g[i] = IF Exists(Names[i]) THEN Append(g[i - 1], Names[i]) ELSE g[i - 1]
  <2>1. PICK p \in Paths \cup {NoPath} : p = session[i] /\ p = Names[i]
    BY <1>1, <1>2, ElementOfSeq
  <2>2. PICK w : w = Loaded[i - 1] /\ WindowFits(w, {}) /\ w.made <= i - 1
    BY <1>5, <1>6
  <2>3. w.made \in Nat
    BY <2>2 DEF WindowFits, TabsFit
  <2>4. w.made < MaxDocs
    BY <1>2, <2>2, <2>3
  <2>5. NamesOf(LoadFile(w, p)) = IF Exists(p) THEN Append(NamesOf(w), p) ELSE NamesOf(w)
    BY <1>1, <2>2, <2>4, LoadFileNames
  <2>6. Loaded[i] = LoadFile(w, p)
    BY <1>4, <1>6, <2>1, <2>2
  <2>7. g[i] = NamesOf(Loaded[i]) /\ g[i - 1] = NamesOf(w)
    BY <1>6, <1>7, <2>2
  <2> QED BY <2>1, <2>5, <2>6, <2>7
<1>11. g = [i \in 0 .. Len(tabs) |->
                IF i = 0 THEN <<>>
                ELSE IF Exists(Names[i]) THEN Append(g[i - 1], Names[i]) ELSE g[i - 1]]
  <2>1. \A i \in 0 .. n : g[i] =
            IF i = 0 THEN <<>>
            ELSE IF Exists(Names[i]) THEN Append(g[i - 1], Names[i]) ELSE g[i - 1]
    <3> TAKE i \in 0 .. n
    <3>1. CASE i = 0
      BY <1>9, <3>1
    <3>2. CASE i # 0
      <4>1. i \in 1 .. n
        BY <3>2
      <4> QED BY <1>10, <3>2, <4>1
    <3> QED BY <3>1, <3>2
  <2> QED BY <1>3, <1>8, <2>1, Zenon
<1>12. \A i \in 0 .. n : Remaining[i] =
           IF i = 0 THEN <<>>
           ELSE IF Exists(Names[i]) THEN Append(Remaining[i - 1], Names[i])
                ELSE Remaining[i - 1]
  <2>1. \E f : f = [i \in 0 .. Len(tabs) |->
                        IF i = 0 THEN <<>>
                        ELSE IF Exists(Names[i]) THEN Append(f[i - 1], Names[i])
                             ELSE f[i - 1]]
    BY <1>11
  <2>2. Remaining = [i \in 0 .. Len(tabs) |->
                        IF i = 0 THEN <<>>
                        ELSE IF Exists(Names[i]) THEN Append(Remaining[i - 1], Names[i])
                             ELSE Remaining[i - 1]]
    BY <2>1, Zenon DEF Remaining
  <2> QED BY <1>3, <2>2
<1>13. g[n] = Remaining[n]
  <2> DEFINE T == {k \in Nat : k <= n => g[k] = Remaining[k]}
  <2>1. 0 \in T
    BY <1>2, <1>9, <1>12
  <2>2. ASSUME NEW k \in Nat, k \in T PROVE k + 1 \in T
    <3> SUFFICES ASSUME k + 1 <= n PROVE g[k + 1] = Remaining[k + 1]
      OBVIOUS
    <3>1. PICK i \in 1 .. n : i = k + 1 /\ i - 1 = k /\ k <= n
      BY <1>2
    <3>2. g[i - 1] = Remaining[i - 1]
      BY <2>2, <3>1
    <3>3. Remaining[i] =
              IF Exists(Names[i]) THEN Append(Remaining[i - 1], Names[i])
              ELSE Remaining[i - 1]
      BY <1>6, <1>12
    <3> QED BY <1>10, <3>1, <3>2, <3>3
  <2> HIDE DEF T
  <2>3. n \in T
    BY <2>1, <2>2, Counting
  <2> QED BY <2>3 DEF T
<1>14. Names' = NamesOf(Loaded[n])
  <2>1. tabs' = Loaded[n].tabs /\ name' = Loaded[n].name
    BY <1>2 DEF Start, Shows
  <2> QED BY <2>1 DEF Names, NamesOf
<1>15. g[n] = NamesOf(Loaded[n])
  BY <1>2, <1>7
<1> QED BY <1>3, <1>13, <1>14, <1>15

\* Only an exit closes the terminal; other programs change files alone.
LEMMA ClosedStep ==
  ASSUME [Next]_vars, status' = "closed"
  PROVE  Exits \/ (status = "closed" /\ UNCHANGED <<tabs, name, session>>)
<1>1. Crash => status' = "crashed"
  BY DEF Crash
<1> QED BY <1>1 DEF Next, vars, window, files, Create, OpenFile, Edit, CloseTab, CloseNoTab,
      MoveTab, Save, Select, Load, Exit, Asks, Start, Killed, Changed

\* Only a start opens it.
LEMMA OpenedStep == ASSUME [Next]_vars, status = "closed", status' = "up" PROVE Start
BY DEF Next, vars, window, files, Create, OpenFile, Edit, CloseTab, CloseNoTab,
      MoveTab, Save, Select, Load, Exit, Asks, Exits, Killed, Changed

LEMMA SessionStays == ASSUME SessionKept, [Next]_vars PROVE SessionKept'
<1> SUFFICES ASSUME status' = "closed" PROVE session' = Names'
  BY DEF SessionKept
<1>1. CASE Exits
  BY <1>1 DEF Exits, window, Names
<1>2. CASE status = "closed" /\ UNCHANGED <<tabs, name, session>>
  BY <1>2 DEF SessionKept, Names
<1> QED BY <1>1, <1>2, ClosedStep

LEMMA SessionInit == ASSUME Init PROVE SessionKept
<1>1. tabs = <<>> /\ session = <<>>
  BY Fields DEF Init
<1>2. Names = <<>>
  BY <1>1 DEF Names
<1> QED BY <1>1, <1>2 DEF SessionKept

-----------------------------------------------------------------------------
\* The window is well formed, its lists hold open documents, and their files are of the
\* kind of the list, but for the documents in spoiled.
THEOREM DocInvariant == Spec => []DocInv
<1>1. Init => DocInv
  BY DocInit
<1>2. DocInv /\ [Next]_vars => DocInv'
  BY DocStep
<1> QED BY <1>1, <1>2, PTL DEF Spec

\* The window of the terminal keeps to its domains.
THEOREM DocumentsTyped == Spec => []TypeOK
<1>1. DocInv => TypeOK
  BY DocMeans
<1> QED BY <1>1, DocInvariant, PTL

\* For any number of documents, files and moves the combo boxes list open documents
\* that have a path, none in both, and select what they list: "Load" follows no
\* pointer to a document that close_tab has deleted.
THEOREM ListedAreOpen == Spec => []CombosListOpen
<1>1. DocInv => CombosListOpen
  BY DocMeans
<1> QED BY <1>1, DocInvariant, PTL

\* What "Load" reads is of the kind of its combo box, however the tabs were edited
\* and however many saves failed, as long as the file was written by no other
\* document or program and in full.
THEOREM ListedFilesFit == Spec => []ListsMatchFiles
<1>1. DocInv => ListsMatchFiles
  BY DocMeans
<1> QED BY <1>1, DocInvariant, PTL

\* Whatever was open, saved or not, and however its files changed in between: a start
\* after a regular exit shows, in their order, the documents whose files still exist.
\* (~MainWindow, save_session, load_session)
THEOREM SessionIsRestored == Spec => SessionRestores
<1> DEFINE Restored ==
      status = "closed" /\ status' = "up" => Names' = Remaining[Len(tabs)]
<1>1. Init => DocInv /\ SessionKept
  BY DocInit, SessionInit
<1>2. DocInv /\ SessionKept /\ [Next]_vars => DocInv' /\ SessionKept'
  BY DocStep, SessionStays
<1>3. DocInv /\ SessionKept /\ [Next]_vars => Restored
  BY OpenedStep, StartRestores
<1>4. DocInv /\ SessionKept /\ [Next]_vars => [Restored]_vars
  BY <1>3
<1> HIDE DEF Restored
<1>5. Spec => [][Restored]_vars
  BY <1>1, <1>2, <1>4, PTL DEF Spec
<1> QED BY <1>5 DEF SessionRestores, Restored
=============================================================================
