--------------------------- MODULE ProtolinkProofs ---------------------------
(***************************************************************************)
(* Proofs about a protolink client and the connection that serves it, for  *)
(* any number of threads, sizes of packets, capacity of the wire and       *)
(* bounds.                                                                 *)
(***************************************************************************)
EXTENDS Protolink, FiniteSetTheorems, SequenceTheorems, TLAPS

-----------------------------------------------------------------------------
(* The invariants *)

\* An operation stays within the buffer, and a header is one word.
Fits(op) ==
    /\ op.at + op.left <= MaxFrame
    /\ op.h = "header" => op.at = 0 /\ op.left = 1

Fit(ops) == \A i \in DOMAIN ops : Fits(ops[i])

\* No header announces more than a buffer holds.
Small(ws) == \A i \in DOMAIN ws : ws[i].size <= MaxFrame

TypeInv ==
    /\ TypeOK
    /\ Fit(writes) /\ Fit(reads) /\ Fit(swrites) /\ Fits(sread)
    /\ Len(toServer) <= Cap /\ Len(toClient) <= Cap
    /\ \A i \in DOMAIN writes : writes[i].h = "sent"
    /\ \A i \in DOMAIN swrites : swrites[i].h = "sent"
    /\ \A i \in DOMAIN reads : reads[i].h # "sent"
    /\ sread.h # "sent"
    /\ Small(buf) /\ Small(sbuf) /\ Small(toServer) /\ Small(toClient)

\* The handlers of q that are in N, and that there is at most one.
Of(q, N) == {q[i] : i \in DOMAIN q} \cap N
Once(q, N) == \A i, j \in DOMAIN q : q[i] \in N /\ q[j] \in N => i = j

\* Handlers that lead to an attempt to connect
Diallers == {n \in Handlers :
                \/ n.h = "retry"
                \/ n.h \in {"connected", "report"} /\ n.err # "ok"}

\* A write that was told of a reset
Resets == {n \in Handlers : n.h = "sent" /\ n.err = "reset"}

DialInv ==
    /\ Once(done, Diallers) /\ Once(done, Resets)
    /\ timer \/ Of(done, Diallers) # {} => sock = "down"
    /\ timer => Of(done, Diallers) = {}
    /\ Of(done, Resets) # {} => sock = "up" /\ peer = "pipe"

\* Operations of the client that are done
InHand == {n \in Handlers : n.h \in {"sent", "header", "packet"}}

-----------------------------------------------------------------------------
(* Numbers and sequences *)

LEMMA MaxFrameBounds ==
  /\ MaxFrame \in Nat \ {0}
  /\ \A k \in Kinds : Size[k] \in Nat \ {0} /\ 1 + Size[k] <= MaxFrame
<1> DEFINE S == {Size[k] : k \in Kinds}
<1>1. \A k \in Kinds : Size[k] \in Nat \ {0}
  BY ProtolinkAssumption DEF ProtolinkAssumption
<1>2. \E x \in S : \A y \in S : x >= y
  <2>1. \A x \in S : \E k \in {"message", "request", "response"} : x = Size[k]
    BY DEF Kinds
  <2>2. Size["message"] \in S /\ Size["request"] \in S /\ Size["response"] \in S
    BY DEF Kinds
  <2>3. /\ Size["message"] \in Nat /\ Size["request"] \in Nat
        /\ Size["response"] \in Nat
    BY <1>1 DEF Kinds
  <2> HIDE DEF S
  <2> QED BY <2>1, <2>2, <2>3
<1>3. Max(S) \in S /\ \A y \in S : Max(S) >= y
  BY <1>2 DEF Max
<1>4. Max(S) \in Nat
  BY <1>1, <1>3
<1>5. MaxFrame = 1 + Max(S)
  BY DEF MaxFrame
<1>6. \A k \in Kinds : Size[k] \in S
  OBVIOUS
<1> HIDE DEF S
<1> QED BY <1>1, <1>3, <1>4, <1>5, <1>6

LEMMA UptoBounds ==
  ASSUME NEW a \in Nat, NEW b \in Nat
  PROVE  /\ Upto(a, b) \in Nat /\ Upto(a, b) <= a /\ Upto(a, b) <= b
         /\ Upto(a, b) = a \/ Upto(a, b) = b
BY DEF Upto

LEMMA UptoLeast ==
  ASSUME NEW a \in Nat, NEW b \in Nat
  PROVE  /\ a <= b => Upto(a, b) = a
         /\ b <= a => Upto(a, b) = b
BY DEF Upto

LEMMA RemoveAtElements ==
  ASSUME NEW S, NEW q \in Seq(S), NEW i \in DOMAIN q
  PROVE  /\ RemoveAt(q, i) \in Seq(S)
         /\ Len(RemoveAt(q, i)) = Len(q) - 1
         /\ \A j \in 1 .. Len(q) - 1 :
                RemoveAt(q, i)[j] = q[IF j < i THEN j ELSE j + 1]
<1> DEFINE a == SubSeq(q, 1, i - 1)  b == SubSeq(q, i + 1, Len(q))
<1>1. Len(q) \in Nat /\ i \in 1 .. Len(q)
  OBVIOUS
<1>2. /\ a \in Seq(S) /\ Len(a) = i - 1
      /\ \A j \in 1 .. i - 1 : a[j] = q[j]
  BY <1>1
<1>3. /\ b \in Seq(S) /\ Len(b) = Len(q) - i
      /\ \A j \in 1 .. Len(q) - i : b[j] = q[j + i]
  BY <1>1
<1>4. RemoveAt(q, i) = a \o b
  BY DEF RemoveAt
<1> HIDE DEF a, b
<1>5. /\ RemoveAt(q, i) \in Seq(S) /\ Len(RemoveAt(q, i)) = Len(q) - 1
      /\ \A j \in 1 .. Len(q) - 1 :
             RemoveAt(q, i)[j] = IF j <= i - 1 THEN a[j] ELSE b[j - (i - 1)]
  <2>1. /\ a \o b \in Seq(S) /\ Len(a \o b) = Len(a) + Len(b)
        /\ \A j \in 1 .. Len(a) + Len(b) :
               (a \o b)[j] = IF j <= Len(a) THEN a[j] ELSE b[j - Len(a)]
    BY <1>2, <1>3, ConcatProperties
  <2>2. Len(a) = i - 1 /\ Len(a) + Len(b) = Len(q) - 1
    BY <1>1, <1>2, <1>3
  <2> QED BY <1>4, <2>1, <2>2
<1>6. ASSUME NEW j \in 1 .. Len(q) - 1
      PROVE  RemoveAt(q, i)[j] = q[IF j < i THEN j ELSE j + 1]
  <2>1. CASE j < i
    <3>1. j \in 1 .. i - 1 /\ j <= i - 1
      BY <1>1, <2>1
    <3> QED BY <1>2, <1>5, <2>1, <3>1
  <2>2. CASE ~(j < i)
    <3>1. j - (i - 1) \in 1 .. Len(q) - i /\ ~(j <= i - 1) /\ (j - (i - 1)) + i = j + 1
      BY <1>1, <2>2
    <3> QED BY <1>3, <1>5, <2>2, <3>1
  <2> QED BY <2>1, <2>2
<1> QED BY <1>5, <1>6

-----------------------------------------------------------------------------
(* The handlers of a kind in a queue *)

LEMMA OfRemoved ==
  ASSUME NEW S, NEW N, NEW q \in Seq(S), NEW i \in DOMAIN q, Once(q, N)
  PROVE  /\ Once(RemoveAt(q, i), N)
         /\ q[i] \notin N => Of(RemoveAt(q, i), N) = Of(q, N)
         /\ q[i] \in N => Of(RemoveAt(q, i), N) = {}
<1> DEFINE r == RemoveAt(q, i)  f(j) == IF j < i THEN j ELSE j + 1
<1>1. /\ r \in Seq(S) /\ Len(r) = Len(q) - 1 /\ Len(q) \in Nat /\ i \in 1 .. Len(q)
      /\ \A j \in DOMAIN r : r[j] = q[f(j)]
  <2>1. Len(q) \in Nat /\ i \in 1 .. Len(q)
    OBVIOUS
  <2>2. /\ r \in Seq(S) /\ Len(r) = Len(q) - 1
        /\ \A j \in 1 .. Len(q) - 1 : r[j] = q[f(j)]
    BY RemoveAtElements
  <2> HIDE DEF r, f
  <2>3. DOMAIN r = 1 .. Len(q) - 1
    BY <2>1, <2>2
  <2> QED BY <2>1, <2>2, <2>3
<1> HIDE DEF r
<1>2. \A j \in DOMAIN r : f(j) \in DOMAIN q /\ f(j) # i
  BY <1>1
<1>3. \A j, k \in DOMAIN r : f(j) = f(k) => j = k
  BY <1>1
<1>4. \A k \in DOMAIN q : k # i => \E j \in DOMAIN r : f(j) = k
  <2> TAKE k \in DOMAIN q
  <2> HAVE k # i
  <2>1. CASE k < i
    <3>1. k \in DOMAIN r /\ f(k) = k
      BY <1>1, <2>1
    <3> QED BY <3>1
  <2>2. CASE k > i
    <3>1. k - 1 \in DOMAIN r /\ f(k - 1) = k
      BY <1>1, <2>2
    <3> QED BY <3>1
  <2> QED BY <1>1, <2>1, <2>2
<1> HIDE DEF f
<1>5. Once(r, N)
  BY <1>1, <1>2, <1>3 DEF Once
<1>6. ASSUME q[i] \notin N PROVE Of(r, N) = Of(q, N)
  <2>1. \A x \in Of(r, N) : x \in Of(q, N)
    BY <1>1, <1>2 DEF Of
  <2>2. \A x \in Of(q, N) : x \in Of(r, N)
    <3> TAKE x \in Of(q, N)
    <3>1. PICK k \in DOMAIN q : q[k] = x /\ x \in N
      BY DEF Of
    <3>2. PICK j \in DOMAIN r : f(j) = k
      BY <1>4, <1>6, <3>1
    <3> QED BY <1>1, <3>1, <3>2 DEF Of
  <2> QED BY <2>1, <2>2
<1>7. ASSUME q[i] \in N PROVE Of(r, N) = {}
  <2>1. \A j \in DOMAIN r : r[j] \notin N
    BY <1>1, <1>2, <1>7 DEF Once
  <2> QED BY <2>1 DEF Of
<1> QED BY <1>5, <1>6, <1>7 DEF r

LEMMA OfAppended ==
  ASSUME NEW S, NEW N, NEW q \in Seq(S), NEW n \in S, Once(q, N),
         n \in N => Of(q, N) = {}
  PROVE  /\ Once(Append(q, n), N)
         /\ n \notin N => Of(Append(q, n), N) = Of(q, N)
         /\ n \in N => Of(Append(q, n), N) = {n}
<1> DEFINE r == Append(q, n)
<1>1. /\ Len(q) \in Nat /\ DOMAIN q = 1 .. Len(q) /\ DOMAIN r = 1 .. Len(q) + 1
      /\ r[Len(q) + 1] = n /\ \A j \in DOMAIN q : r[j] = q[j]
  OBVIOUS
<1> HIDE DEF r
<1>2. \A j \in DOMAIN r : j \in DOMAIN q \/ j = Len(q) + 1
  BY <1>1
<1>3. n \in N => \A j \in DOMAIN q : q[j] \notin N
  BY DEF Of
<1>4. Once(r, N)
  BY <1>1, <1>2, <1>3 DEF Once
<1>5. \A x : x \in Of(r, N) <=> (x \in Of(q, N) \/ (x = n /\ n \in N))
  <2>1. \A x \in Of(r, N) : x \in Of(q, N) \/ (x = n /\ n \in N)
    BY <1>1, <1>2 DEF Of
  <2>2. \A x \in Of(q, N) : x \in Of(r, N)
    BY <1>1 DEF Of
  <2>3. n \in N => n \in Of(r, N)
    BY <1>1 DEF Of
  <2> QED BY <2>1, <2>2, <2>3
<1> QED BY <1>4, <1>5 DEF r

\* An operation that ends the queue of another kind
LEMMA OfJoined ==
  ASSUME NEW S, NEW N, NEW q \in Seq(S), NEW r \in Seq(S), Once(q, N),
         \A j \in DOMAIN r : r[j] \notin N
  PROVE  Once(q \o r, N) /\ Of(q \o r, N) = Of(q, N)
<1> DEFINE t == q \o r
<1>1. /\ Len(q) \in Nat /\ Len(r) \in Nat /\ DOMAIN t = 1 .. Len(q) + Len(r)
      /\ DOMAIN q = 1 .. Len(q) /\ DOMAIN r = 1 .. Len(r)
      /\ \A j \in DOMAIN t : t[j] = IF j <= Len(q) THEN q[j] ELSE r[j - Len(q)]
  OBVIOUS
<1> HIDE DEF t
<1>2. \A j \in DOMAIN q : j \in DOMAIN t /\ t[j] = q[j]
  BY <1>1
<1>3. \A j \in DOMAIN t : t[j] \in N => j \in DOMAIN q
  BY <1>1
<1>4. Once(t, N)
  BY <1>2, <1>3 DEF Once
<1>5. Of(t, N) = Of(q, N)
  BY <1>2, <1>3 DEF Of
<1> QED BY <1>4, <1>5 DEF t

LEMMA OfReplaced ==
  ASSUME NEW N, NEW q, NEW i \in DOMAIN q, NEW n, NEW r, r = [q EXCEPT ![i] = n],
         Once(q, N), n \in N <=> q[i] \in N
  PROVE  /\ Once(r, N)
         /\ Of(r, N) # {} => Of(q, N) # {}
         /\ n \notin N => Of(r, N) = Of(q, N)
<1>1. DOMAIN r = DOMAIN q /\ \A j \in DOMAIN q : r[j] = IF j = i THEN n ELSE q[j]
  OBVIOUS
<1>2. Once(r, N)
  BY <1>1 DEF Once
<1>3. Of(r, N) # {} => Of(q, N) # {}
  BY <1>1 DEF Of
<1>4. n \notin N => Of(r, N) = Of(q, N)
  BY <1>1 DEF Of
<1> QED BY <1>2, <1>3, <1>4

-----------------------------------------------------------------------------
(* Words, frames and buffers *)

\* Word m of the frame of packet p
WordOf(p, m) == IF m = 1 THEN Header(Size[p.kind]) ELSE [size |-> 0, of |-> p, i |-> m - 1]

LEMMA HeaderType ==
  ASSUME NEW n \in Nat, n <= MaxFrame
  PROVE  Header(n) \in Word /\ Header(n).size <= MaxFrame
BY DEF Header, Word

LEMMA BodyElements ==
  ASSUME NEW p \in Packets
  PROVE  /\ Body(p) \in Seq(Word) /\ Len(Body(p)) = Size[p.kind]
         /\ Size[p.kind] \in Nat \ {0} /\ 1 + Size[p.kind] <= MaxFrame
         /\ MaxFrame \in Nat
         /\ \A i \in 1 .. Size[p.kind] : Body(p)[i] = [size |-> 0, of |-> p, i |-> i]
<1>1. /\ Size[p.kind] \in Nat \ {0} /\ 1 + Size[p.kind] <= MaxFrame
      /\ MaxFrame \in Nat
  BY MaxFrameBounds DEF Packets
<1>2. \A i \in 1 .. Size[p.kind] : [size |-> 0, of |-> p, i |-> i] \in Word
  BY <1>1 DEF Word
<1> QED BY <1>1, <1>2 DEF Body

LEMMA FrameElements ==
  ASSUME NEW p \in Packets
  PROVE  /\ Frame(p) \in Seq(Word) /\ Len(Frame(p)) = 1 + Size[p.kind]
         /\ Small(Frame(p))
         /\ \A m \in 1 .. 1 + Size[p.kind] :
                Frame(p)[m] = WordOf(p, m)
<1> DEFINE n == Size[p.kind]  h == <<Header(n)>>
<1>1. /\ n \in Nat \ {0} /\ 1 + n <= MaxFrame /\ MaxFrame \in Nat
      /\ Body(p) \in Seq(Word) /\ Len(Body(p)) = n
      /\ \A i \in 1 .. n : Body(p)[i] = [size |-> 0, of |-> p, i |-> i]
  BY BodyElements
<1> HIDE DEF n
<1>2. Header(n) \in Word /\ Header(n).size <= MaxFrame
  BY <1>1, HeaderType
<1>3. h \in Seq(Word) /\ Len(h) = 1 /\ h[1] = Header(n)
  BY <1>2
<1>4. Frame(p) = h \o Body(p)
  BY DEF Frame, n
<1> HIDE DEF h
<1>5. /\ Frame(p) \in Seq(Word) /\ Len(Frame(p)) = 1 + n
      /\ \A m \in 1 .. 1 + n : Frame(p)[m] = IF m <= 1 THEN h[m] ELSE Body(p)[m - 1]
  <2> DEFINE b == Body(p)
  <2>1. b \in Seq(Word) /\ Len(b) = n
    BY <1>1
  <2> HIDE DEF b
  <2>2. /\ h \o b \in Seq(Word) /\ Len(h \o b) = Len(h) + Len(b)
        /\ \A m \in 1 .. Len(h) + Len(b) :
              (h \o b)[m] = IF m <= Len(h) THEN h[m] ELSE b[m - Len(h)]
    BY <1>3, <2>1, ConcatProperties, Zenon
  <2>3. Len(h) = 1
    BY <1>3
  <2> QED BY <1>4, <2>1, <2>2, <2>3 DEF b
<1>6. ASSUME NEW m \in 1 .. 1 + n
      PROVE  /\ Frame(p)[m] = WordOf(p, m)
             /\ Frame(p)[m].size <= MaxFrame
  <2>1. CASE m = 1
    <3>1. Frame(p)[m] = Header(n)
      BY <1>1, <1>3, <1>5, <2>1
    <3> QED BY <1>2, <2>1, <3>1 DEF WordOf, n
  <2>2. CASE m # 1
    <3>1. m - 1 \in 1 .. n /\ ~(m <= 1)
      BY <1>1, <2>2
    <3>2. Frame(p)[m] = [size |-> 0, of |-> p, i |-> m - 1]
      BY <1>1, <1>5, <3>1
    <3>3. Frame(p)[m].size = 0
      BY <3>2
    <3> QED BY <1>1, <2>2, <3>2, <3>3 DEF WordOf
  <2> QED BY <2>1, <2>2
<1>7. Small(Frame(p))
  <2>1. DOMAIN Frame(p) = 1 .. 1 + n
    BY <1>1, <1>5
  <2> QED BY <1>6, <2>1 DEF Small
<1> QED BY <1>5, <1>6, <1>7 DEF n

\* A buffer
Buffers == [1 .. MaxFrame -> Word]

LEMMA OverwriteElements ==
  ASSUME NEW b \in Buffers, Small(b), NEW ws \in Seq(Word), Small(ws), NEW at \in Nat
  PROVE  /\ Overwrite(b, at, ws) \in Buffers /\ Small(Overwrite(b, at, ws))
         /\ \A i \in 1 .. MaxFrame :
                /\ i <= at \/ i > at + Len(ws) => Overwrite(b, at, ws)[i] = b[i]
                /\ at < i /\ i <= at + Len(ws) => Overwrite(b, at, ws)[i] = ws[i - at]
<1> DEFINE w == Overwrite(b, at, ws)
<1>1. MaxFrame \in Nat /\ Len(ws) \in Nat /\ DOMAIN b = 1 .. MaxFrame
      /\ DOMAIN ws = 1 .. Len(ws)
  BY MaxFrameBounds DEF Buffers
<1>2. w = [i \in 1 .. MaxFrame |-> IF i \in at + 1 .. at + Len(ws) THEN ws[i - at] ELSE b[i]]
  BY <1>1 DEF Overwrite
<1> HIDE DEF w
<1>3. ASSUME NEW i \in 1 .. MaxFrame
      PROVE  /\ w[i] \in Word /\ w[i].size <= MaxFrame
             /\ i <= at \/ i > at + Len(ws) => w[i] = b[i]
             /\ at < i /\ i <= at + Len(ws) => w[i] = ws[i - at]
  <2>1. CASE i \in at + 1 .. at + Len(ws)
    <3>1. w[i] = ws[i - at] /\ i - at \in DOMAIN ws
      BY <1>1, <1>2, <2>1
    <3>2. ws[i - at] \in Word /\ ws[i - at].size <= MaxFrame
      BY <3>1 DEF Small
    <3> QED BY <1>1, <2>1, <3>1, <3>2
  <2>2. CASE i \notin at + 1 .. at + Len(ws)
    <3>1. w[i] = b[i]
      BY <1>2, <2>2
    <3>2. b[i] \in Word /\ b[i].size <= MaxFrame
      BY <1>1 DEF Small, Buffers
    <3> QED BY <1>1, <2>2, <3>1, <3>2
  <2> QED BY <2>1, <2>2
<1>4. DOMAIN w = 1 .. MaxFrame
  BY <1>2
<1>5. w \in Buffers
  BY <1>2, <1>3, <1>4 DEF Buffers
<1> QED BY <1>3, <1>4, <1>5 DEF w, Small

LEMMA BufferElements ==
  ASSUME NEW b \in Buffers
  PROVE  b \in Seq(Word) /\ Len(b) = MaxFrame /\ DOMAIN b = 1 .. MaxFrame
BY MaxFrameBounds DEF Buffers

\* Some words of a buffer or of a wire
LEMMA SliceElements ==
  ASSUME NEW b \in Seq(Word), Small(b), NEW at \in Nat, NEW k \in Nat, at + k <= Len(b)
  PROVE  /\ SubSeq(b, at + 1, at + k) \in Seq(Word)
         /\ Len(SubSeq(b, at + 1, at + k)) = k
         /\ Small(SubSeq(b, at + 1, at + k))
         /\ \A j \in 1 .. k : SubSeq(b, at + 1, at + k)[j] = b[at + j]
<1> DEFINE s == SubSeq(b, at + 1, at + k)
<1>1. Len(b) \in Nat /\ DOMAIN b = 1 .. Len(b)
  OBVIOUS
<1>2. /\ s \in Seq(Word) /\ Len(s) = k
      /\ \A j \in 1 .. k : s[j] = b[at + j]
  BY <1>1
<1>3. \A j \in 1 .. k : at + j \in DOMAIN b
  BY <1>1
<1> HIDE DEF s
<1>4. DOMAIN s = 1 .. k
  BY <1>2
<1>5. Small(s)
  BY <1>2, <1>3, <1>4 DEF Small
<1> QED BY <1>2, <1>5 DEF s

\* Some words of a buffer whose frame ends inside it
LEMMA BufferSlice ==
  ASSUME NEW b \in Buffers, Small(b), NEW at \in Nat, NEW k \in Nat, at + k <= MaxFrame
  PROVE  /\ SubSeq(b, at + 1, at + k) \in Seq(Word)
         /\ Len(SubSeq(b, at + 1, at + k)) = k
         /\ Small(SubSeq(b, at + 1, at + k))
         /\ \A j \in 1 .. k : SubSeq(b, at + 1, at + k)[j] = b[at + j]
<1>1. b \in Seq(Word) /\ Len(b) = MaxFrame
  BY BufferElements
<1>2. at + k <= Len(b)
  BY <1>1
<1> QED BY <1>1, <1>2, SliceElements, Zenon

\* What is left of a wire, and what was taken
LEMMA WireElements ==
  ASSUME NEW s \in Seq(Word), Small(s), NEW k \in Nat, k <= Len(s)
  PROVE  /\ SubSeq(s, 1, k) \in Seq(Word) /\ Len(SubSeq(s, 1, k)) = k
         /\ Small(SubSeq(s, 1, k))
         /\ \A j \in 1 .. k : SubSeq(s, 1, k)[j] = s[j]
         /\ SubSeq(s, k + 1, Len(s)) \in Seq(Word)
         /\ Len(SubSeq(s, k + 1, Len(s))) = Len(s) - k
         /\ Small(SubSeq(s, k + 1, Len(s)))
         /\ \A j \in 1 .. Len(s) - k : SubSeq(s, k + 1, Len(s))[j] = s[k + j]
<1> DEFINE a == SubSeq(s, 1, k)  b == SubSeq(s, k + 1, Len(s))
<1>1. Len(s) \in Nat /\ DOMAIN s = 1 .. Len(s)
  OBVIOUS
<1>2. a \in Seq(Word) /\ Len(a) = k /\ \A j \in 1 .. k : a[j] = s[j]
  BY <1>1
<1>3. b \in Seq(Word) /\ Len(b) = Len(s) - k /\ \A j \in 1 .. Len(s) - k : b[j] = s[k + j]
  <2> DEFINE m == k + 1  n == Len(s)
  <2>1. m \in Int /\ n \in Int /\ \A i \in m .. n : s[i] \in Word
    BY <1>1
  <2>2. m = k + 1 /\ k <= n /\ b = SubSeq(s, m, n)
    OBVIOUS
  <2> HIDE DEF m, n, b
  <2>3. /\ b \in Seq(Word) /\ Len(b) = IF m <= n THEN n - m + 1 ELSE 0
        /\ \A i \in 1 .. n - m + 1 : b[i] = s[m + i - 1]
    BY <2>1, <2>2, SubSeqProperties
  <2>4. n - m + 1 = n - k /\ (~(m <= n) => n - k = 0) /\ \A j \in 1 .. n - k : m + j - 1 = k + j
    BY <2>1, <2>2
  <2> QED BY <2>1, <2>3, <2>4 DEF n
<1>4. \A j \in 1 .. k : j \in DOMAIN s
  BY <1>1
<1>5. \A j \in 1 .. Len(s) - k : k + j \in DOMAIN s
  BY <1>1
<1> HIDE DEF a, b
<1>6. DOMAIN a = 1 .. k /\ DOMAIN b = 1 .. Len(s) - k
  BY <1>2, <1>3
<1>7. Small(a) /\ Small(b)
  BY <1>2, <1>3, <1>4, <1>5, <1>6 DEF Small
<1> QED BY <1>2, <1>3, <1>7 DEF a, b

LEMMA JoinElements ==
  ASSUME NEW s \in Seq(Word), Small(s), NEW w \in Seq(Word), Small(w)
  PROVE  s \o w \in Seq(Word) /\ Small(s \o w) /\ Len(s \o w) = Len(s) + Len(w)
<1> DEFINE t == s \o w
<1>1. /\ t \in Seq(Word) /\ Len(t) = Len(s) + Len(w)
      /\ Len(s) \in Nat /\ Len(w) \in Nat
      /\ DOMAIN s = 1 .. Len(s) /\ DOMAIN w = 1 .. Len(w) /\ DOMAIN t = 1 .. Len(s) + Len(w)
      /\ \A j \in DOMAIN t : t[j] = IF j <= Len(s) THEN s[j] ELSE w[j - Len(s)]
  OBVIOUS
<1> HIDE DEF t
<1>2. ASSUME NEW j \in DOMAIN t PROVE t[j].size <= MaxFrame
  <2>1. CASE j <= Len(s)
    BY <1>1, <2>1 DEF Small
  <2>2. CASE ~(j <= Len(s))
    <3>1. j - Len(s) \in DOMAIN w
      BY <1>1, <2>2
    <3> QED BY <1>1, <2>2, <3>1 DEF Small
  <2> QED BY <2>1, <2>2
<1> QED BY <1>1, <1>2 DEF Small, t

-----------------------------------------------------------------------------
(* Operations *)

LEMMA EndedType ==
  ASSUME NEW op \in Ops, NEW err \in Errors
  PROVE  /\ Ended(op, err) \in Handlers
         /\ Ended(op, err) = [h |-> op.h, kind |-> op.kind, err |-> err, n |-> op.at]
         /\ Ended(op, err) \in InHand /\ Ended(op, err) \notin Diallers
         /\ Ended(op, err) \in Resets <=> op.h = "sent" /\ err = "reset"
<1>1. Ended(op, err) = [h |-> op.h, kind |-> op.kind, err |-> err, n |-> op.at]
  BY DEF Ended, Note
<1>2. Ended(op, err) \in Handlers
  BY <1>1 DEF Handlers, Ops
<1> QED BY <1>1, <1>2 DEF InHand, Diallers, Resets, Ops

LEMMA FailedElements ==
  ASSUME NEW ops \in Seq(Ops)
  PROVE  /\ Failed(ops) \in Seq(Handlers) /\ Len(Failed(ops)) = Len(ops)
         /\ \A j \in DOMAIN Failed(ops) :
                /\ j \in DOMAIN ops /\ Failed(ops)[j] = Ended(ops[j], "other")
                /\ Failed(ops)[j] \notin Diallers /\ Failed(ops)[j] \notin Resets
<1>1. Len(ops) \in Nat /\ DOMAIN ops = 1 .. Len(ops) /\ "other" \in Errors
  BY DEF Errors
<1>2. \A j \in DOMAIN ops :
        /\ ops[j] \in Ops /\ Ended(ops[j], "other") \in Handlers
        /\ Ended(ops[j], "other") \notin Diallers
        /\ Ended(ops[j], "other") \notin Resets
  BY <1>1, EndedType
<1>3. Failed(ops) = [j \in 1 .. Len(ops) |-> Ended(ops[j], "other")]
  BY <1>1 DEF Failed
<1>4. Failed(ops) \in Seq(Handlers) /\ Len(Failed(ops)) = Len(ops)
      /\ DOMAIN Failed(ops) = 1 .. Len(ops)
  BY <1>1, <1>2, <1>3
<1> QED BY <1>1, <1>2, <1>3, <1>4

LEMMA MovedType ==
  ASSUME NEW op \in Ops, Fits(op), NEW k \in Nat, k <= op.left
  PROVE  /\ Moved(op, k) \in Ops
         /\ Moved(op, k).h = op.h /\ Moved(op, k).kind = op.kind
         /\ Moved(op, k).at = op.at + k /\ Moved(op, k).left = op.left - k
         /\ k # op.left => Fits(Moved(op, k))
         /\ op.at + k \in 0 .. MaxFrame
<1>1. /\ MaxFrame \in Nat /\ op.at \in 0 .. MaxFrame /\ op.left \in 0 .. MaxFrame
      /\ op.at + op.left <= MaxFrame
      /\ op.h = "header" => op.at = 0 /\ op.left = 1
  BY MaxFrameBounds DEF Ops, Fits
<1>2. /\ Moved(op, k).h = op.h /\ Moved(op, k).kind = op.kind
      /\ Moved(op, k).at = op.at + k /\ Moved(op, k).left = op.left - k
  BY DEF Moved, Ops
<1>3. op.at + k \in 0 .. MaxFrame /\ op.left - k \in 0 .. MaxFrame
      /\ (op.at + k) + (op.left - k) <= MaxFrame
  BY <1>1
<1>4. Moved(op, k) \in Ops
  BY <1>3 DEF Moved, Ops
<1>5. k # op.left /\ op.h = "header" => op.at + k = 0 /\ op.left - k = 1
  BY <1>1
<1>6. k # op.left => Fits(Moved(op, k))
  BY <1>2, <1>3, <1>5 DEF Fits
<1> QED BY <1>2, <1>3, <1>4, <1>6

LEMMA RequeuedElements ==
  ASSUME NEW ops \in Seq(Ops), ops # <<>>, Fit(ops), NEW k \in Nat, k <= Head(ops).left
  PROVE  /\ Requeued(ops, k) \in Seq(Ops) /\ Fit(Requeued(ops, k))
         /\ k = Head(ops).left => Requeued(ops, k) = Tail(ops)
         /\ \A S : (\A i \in DOMAIN ops : ops[i].h \in S) =>
                (\A i \in DOMAIN Requeued(ops, k) : Requeued(ops, k)[i].h \in S)
<1> DEFINE op == Head(ops)  t == Tail(ops)  m == Moved(op, k)
<1>1. /\ Len(ops) \in Nat \ {0} /\ DOMAIN ops = 1 .. Len(ops) /\ op = ops[1] /\ op \in Ops
      /\ t \in Seq(Ops) /\ Len(t) = Len(ops) - 1 /\ DOMAIN t = 1 .. Len(ops) - 1
      /\ \A i \in DOMAIN t : t[i] = ops[i + 1] /\ i + 1 \in DOMAIN ops
  OBVIOUS
<1>2. Fits(op)
  BY <1>1 DEF Fit
<1>4. m \in Ops /\ (k # op.left => Fits(m)) /\ m.h = op.h
  BY <1>1, <1>2, MovedType
<1>5. Requeued(ops, k) = IF op.left = k THEN t ELSE Append(t, m)
  BY DEF Requeued
<1> HIDE DEF op, t, m
<1>6. CASE op.left = k
  BY <1>1, <1>5, <1>6 DEF Fit, op
<1>7. CASE op.left # k
  <2> DEFINE r == Append(t, m)
  <2>1. /\ r \in Seq(Ops) /\ DOMAIN r = 1 .. Len(ops)
        /\ \A i \in DOMAIN r : (i \in DOMAIN t /\ r[i] = t[i]) \/ r[i] = m
    <3>1. /\ r \in Seq(Ops) /\ Len(r) = Len(t) + 1 /\ r[Len(t) + 1] = m
          /\ \A i \in 1 .. Len(t) : r[i] = t[i]
      <4>1. t \in Seq(Ops) /\ m \in Ops
        BY <1>1, <1>4
      <4> QED BY <4>1, AppendProperties
    <3> HIDE DEF r
    <3> QED BY <1>1, <3>1
  <2> HIDE DEF r
  <2>2. Requeued(ops, k) = r
    BY <1>5, <1>7 DEF r
  <2>3. Fit(r)
    BY <1>1, <1>4, <1>7, <2>1 DEF Fit
  <2>4. ASSUME NEW S, \A i \in DOMAIN ops : ops[i].h \in S
        PROVE  \A i \in DOMAIN r : r[i].h \in S
    BY <1>1, <1>4, <2>1, <2>4
  <2> QED BY <1>7, <2>1, <2>2, <2>3, <2>4 DEF op
<1> QED BY <1>6, <1>7

-----------------------------------------------------------------------------
(* Types *)

LEMMA HandlerQueues ==
  ASSUME NEW q \in Seq(Handlers)
  PROVE  /\ \A n \in Handlers : Append(q, n) \in Seq(Handlers)
         /\ \A i \in DOMAIN q : /\ q[i] \in Handlers
                               /\ RemoveAt(q, i) \in Seq(Handlers)
         /\ \A r \in Seq(Handlers) : q \o r \in Seq(Handlers)
<1>1. \A i \in DOMAIN q : RemoveAt(q, i) \in Seq(Handlers)
  BY RemoveAtElements
<1> QED BY <1>1

LEMMA NoteType ==
  ASSUME NEW h \in {"connected", "report", "retry"}, NEW err \in Errors
  PROVE  /\ Note(h, None, err, 0) \in Handlers
         /\ Note(h, None, err, 0) \notin InHand /\ Note(h, None, err, 0) \notin Resets
         /\ Note(h, None, err, 0) \in Diallers <=> h = "retry" \/ err # "ok"
<1>1. Note(h, None, err, 0) \in Handlers
  BY MaxFrameBounds DEF Note, Handlers
<1> QED BY <1>1 DEF Note, InHand, Resets, Diallers

LEMMA PushType ==
  ASSUME TypeInv, NEW ops \in Seq(Ops), ops # <<>>, Fit(ops),
         \A i \in DOMAIN ops : ops[i].h = "sent",
         NEW b \in Buffers, Small(b), Push(ops, b)
  PROVE  /\ writes' \in Seq(Ops) /\ Fit(writes')
         /\ \A i \in DOMAIN writes' : writes'[i].h = "sent"
         /\ toServer' \in Seq(Word) /\ Small(toServer') /\ Len(toServer') <= Cap
         /\ done' \in Seq(Handlers)
         /\ peer' \in {"serving", "closed", "reset", "pipe"}
<1> DEFINE op == Head(ops)  k == Upto(op.left, Cap - Len(toServer))
           ws == SubSeq(b, op.at + 1, op.at + k)
<1>1. /\ op \in Ops /\ Fits(op) /\ Tail(ops) \in Seq(Ops)
      /\ Fit(Tail(ops)) /\ \A i \in DOMAIN Tail(ops) : Tail(ops)[i].h = "sent"
  BY DEF Fit
<1>2. /\ op.at \in Nat /\ op.left \in Nat /\ op.at + op.left <= MaxFrame
      /\ MaxFrame \in Nat
  BY <1>1, MaxFrameBounds DEF Ops, Fits
<1>3. Cap \in Nat /\ Len(toServer) \in Nat /\ Cap - Len(toServer) \in Nat
  BY ProtolinkAssumption DEF ProtolinkAssumption, TypeInv, TypeOK
<1>4. done \in Seq(Handlers) /\ toServer \in Seq(Word) /\ Small(toServer)
      /\ peer \in {"serving", "closed", "reset", "pipe"} /\ Len(toServer) <= Cap
  BY DEF TypeInv, TypeOK
<1>5. k \in Nat /\ k <= op.left /\ k <= Cap - Len(toServer)
  BY <1>2, <1>3, UptoBounds
<1>6. "ok" \in Errors /\ "reset" \in Errors /\ "other" \in Errors
  BY DEF Errors
<1>7. \A err \in Errors : Append(done, Ended(op, err)) \in Seq(Handlers)
  BY <1>1, <1>4, EndedType, HandlerQueues
<1>8. CASE peer = "serving"
  <2>1. /\ toServer' = toServer \o ws /\ writes' = Requeued(ops, k)
        /\ done' = IF k = op.left THEN Append(done, Ended(op, "ok")) ELSE done
        /\ peer' = peer
    BY <1>8 DEF Push
  <2>2. op.at + k <= MaxFrame
    BY <1>2, <1>5
  <2> HIDE DEF k, op
  <2>3. ws \in Seq(Word) /\ Len(ws) = k /\ Small(ws)
    <3>1. op.at \in Nat /\ k \in Nat
      BY <1>2, <1>5
    <3> QED BY <2>2, <3>1, BufferSlice, Zenon
  <2> HIDE DEF ws
  <2>4. toServer' \in Seq(Word) /\ Small(toServer') /\ Len(toServer') = Len(toServer) + k
    BY <1>4, <2>1, <2>3, JoinElements
  <2>5. /\ writes' \in Seq(Ops) /\ Fit(writes')
        /\ \A i \in DOMAIN writes' : writes'[i].h \in {"sent"}
    BY <1>5, <2>1, RequeuedElements DEF op
  <2>6. Len(toServer') <= Cap
    BY <1>3, <1>5, <2>4
  <2>7. done' \in Seq(Handlers)
    BY <1>4, <1>6, <1>7, <2>1
  <2> QED BY <1>4, <2>1, <2>4, <2>5, <2>6, <2>7
<1>9. CASE peer # "serving"
  <2>1. /\ toServer' = toServer /\ writes' = Tail(ops) /\ peer' = "pipe"
        /\ \E err \in Errors : done' = Append(done, Ended(op, err))
    BY <1>4, <1>6, <1>9 DEF Push
  <2> QED BY <1>1, <1>4, <1>7, <2>1
<1> QED BY <1>8, <1>9

LEMMA SendType ==
  ASSUME TypeInv, NEW kind \in {"message", "request"}, Send(kind)
  PROVE  TypeInv'
<1> DEFINE p == [kind |-> kind, id |-> calls + 1]
           op == Op("sent", kind, 1 + Size[kind])
           b == Overwrite(buf, 0, Frame(p))
<1>1. p \in Packets /\ calls + 1 \in Sent /\ calls' = calls + 1
  BY ProtolinkAssumption DEF Send, TypeInv, TypeOK, Packets, Kinds, Sent, ProtolinkAssumption
<1>2. op = [h |-> "sent", kind |-> kind, at |-> 0, left |-> 1 + Size[kind]]
  BY DEF Op
<1>3. op \in Ops /\ Fits(op)
  <2>1. kind \in Kinds
    BY DEF Kinds
  <2> QED BY <1>2, <2>1, MaxFrameBounds DEF Ops, Fits
<1>4. b \in Buffers /\ Small(b)
  <2>1. buf \in Buffers /\ Small(buf)
    BY DEF TypeInv, TypeOK, Buffers
  <2>2. Frame(p) \in Seq(Word) /\ Small(Frame(p))
    BY <1>1, FrameElements
  <2> HIDE DEF p
  <2> QED BY <2>1, <2>2, OverwriteElements
<1>5. /\ buf' = b
      /\ IF sock = "up" /\ writes = <<>> THEN Push(<<op>>, b)
         ELSE /\ IF sock = "down"
                 THEN done' = Append(done, Ended(op, "other")) /\ UNCHANGED writes
                 ELSE writes' = Append(writes, op) /\ UNCHANGED done
              /\ UNCHANGED <<toServer, peer>>
      /\ trans' \subseteq trans \cup {calls + 1}
      /\ UNCHANGED <<sock, reads, timer, shutdown, head, told, listening, deaths, sread,
                     swrites, sbuf, toClient, got, finished, garbled>>
      /\ mixed' \in BOOLEAN
  BY DEF Send, TypeInv, TypeOK
<1> HIDE DEF p, op, b
<1>6. /\ writes' \in Seq(Ops) /\ Fit(writes')
      /\ \A i \in DOMAIN writes' : writes'[i].h = "sent"
      /\ toServer' \in Seq(Word) /\ Small(toServer') /\ Len(toServer') <= Cap
      /\ done' \in Seq(Handlers)
      /\ peer' \in {"serving", "closed", "reset", "pipe"}
  <2>1. CASE sock = "up" /\ writes = <<>>
    <3>1. <<op>> \in Seq(Ops) /\ <<op>> # <<>> /\ Fit(<<op>>)
          /\ \A i \in DOMAIN <<op>> : <<op>>[i].h = "sent"
      BY <1>2, <1>3 DEF Fit
    <3> QED BY <1>4, <1>5, <2>1, <3>1, PushType
  <2>2. CASE ~(sock = "up" /\ writes = <<>>)
    <3>1. /\ toServer' = toServer /\ peer' = peer
          /\ \/ writes' = writes /\ done' = Append(done, Ended(op, "other"))
             \/ writes' = Append(writes, op) /\ done' = done
      BY <1>5, <2>2
    <3>2. /\ writes \in Seq(Ops) /\ Fit(writes) /\ done \in Seq(Handlers)
          /\ \A i \in DOMAIN writes : writes[i].h = "sent"
          /\ toServer \in Seq(Word) /\ Small(toServer) /\ Len(toServer) <= Cap
          /\ peer \in {"serving", "closed", "reset", "pipe"}
      BY DEF TypeInv, TypeOK
    <3>3. Append(done, Ended(op, "other")) \in Seq(Handlers)
      BY <1>3, <3>2, EndedType, HandlerQueues DEF Errors
    <3>4. /\ Append(writes, op) \in Seq(Ops) /\ Fit(Append(writes, op))
          /\ \A i \in DOMAIN Append(writes, op) : Append(writes, op)[i].h = "sent"
      <4> DEFINE r == Append(writes, op)
      <4>1. /\ r \in Seq(Ops) /\ DOMAIN r = 1 .. Len(writes) + 1 /\ Len(writes) \in Nat
            /\ r[Len(writes) + 1] = op /\ \A i \in 1 .. Len(writes) : r[i] = writes[i]
        BY <1>3, <3>2
      <4>2. DOMAIN writes = 1 .. Len(writes) /\ op.h = "sent"
        BY <1>2, <3>2
      <4> HIDE DEF r
      <4>3. \A i \in DOMAIN r : (i \in DOMAIN writes /\ r[i] = writes[i]) \/ r[i] = op
        BY <4>1, <4>2
      <4> QED BY <1>3, <3>2, <4>1, <4>2, <4>3 DEF Fit, r
    <3> QED BY <3>1, <3>2, <3>3, <3>4
  <2> QED BY <2>1, <2>2
<1>7. buf' \in [1 .. MaxFrame -> Word] /\ Small(buf')
  BY <1>4, <1>5 DEF Buffers
<1>8. trans' \subseteq Sent /\ calls' \in 0 .. MaxSends
  BY <1>1, <1>5, ProtolinkAssumption DEF TypeInv, TypeOK, Sent, ProtolinkAssumption
<1> QED BY <1>5, <1>6, <1>7, <1>8 DEF TypeInv, TypeOK

LEMMA ReadHeaderType ==
  /\ ReadHeader \in Ops /\ Fits(ReadHeader)
  /\ ReadHeader = [h |-> "header", kind |-> None, at |-> 0, left |-> 1]
BY MaxFrameBounds DEF ReadHeader, Op, Ops, Fits

LEMMA PacketType ==
  ASSUME NEW n \in Nat, n <= MaxFrame
  PROVE  /\ Op("packet", None, n) \in Ops /\ Fits(Op("packet", None, n))
         /\ Op("packet", None, n) = [h |-> "packet", kind |-> None, at |-> 0, left |-> n]
BY MaxFrameBounds DEF Op, Ops, Fits

LEMMA BlankType == Blank \in Buffers /\ Small(Blank)
<1>1. Header(0) \in Word /\ Header(0).size <= MaxFrame
  BY MaxFrameBounds, HeaderType
<1>2. Blank = [i \in 1 .. MaxFrame |-> Header(0)]
  BY DEF Blank
<1> QED BY <1>1, <1>2 DEF Buffers, Small

\* Starting a read leaves the queues well formed.
LEMMA StartReadType ==
  ASSUME TypeInv, NEW op \in Ops, Fits(op), op.h # "sent",
         NEW q \in Seq(Handlers), StartRead(op, q)
  PROVE  /\ reads' \in Seq(Ops) /\ Fit(reads')
         /\ \A i \in DOMAIN reads' : reads'[i].h # "sent"
         /\ done' \in Seq(Handlers)
<1>1. /\ reads \in Seq(Ops) /\ Fit(reads)
      /\ \A i \in DOMAIN reads : reads[i].h # "sent"
  BY DEF TypeInv, TypeOK
<1>2. CASE sock = "down"
  <2>1. reads' = reads /\ done' = Append(q, Ended(op, "other"))
    BY <1>2 DEF StartRead
  <2>2. Append(q, Ended(op, "other")) \in Seq(Handlers)
    BY EndedType, HandlerQueues DEF Errors
  <2> QED BY <1>1, <2>1, <2>2
<1>3. CASE sock # "down"
  <2> DEFINE r == Append(reads, op)
  <2>1. /\ r \in Seq(Ops) /\ DOMAIN r = 1 .. Len(reads) + 1 /\ Len(reads) \in Nat
        /\ r[Len(reads) + 1] = op /\ \A i \in 1 .. Len(reads) : r[i] = reads[i]
    BY <1>1
  <2>2. DOMAIN reads = 1 .. Len(reads)
    BY <1>1
  <2>3. reads' = r /\ done' = q
    BY <1>3 DEF StartRead
  <2> HIDE DEF r
  <2>4. \A i \in DOMAIN r : (i \in DOMAIN reads /\ r[i] = reads[i]) \/ r[i] = op
    BY <2>1, <2>2
  <2> QED BY <1>1, <2>1, <2>3, <2>4 DEF Fit
<1> QED BY <1>2, <1>3

LEMMA OnPacketSentType ==
  ASSUME TypeInv, NEW i \in 1 .. Runners, OnPacketSent(i)
  PROVE  TypeInv'
<1> DEFINE rest == RemoveAt(done, i)
           again == IF sock = "connecting" THEN <<Note("connected", None, "other", 0)>>
                    ELSE <<>>
<1>1. i \in DOMAIN done /\ done \in Seq(Handlers)
  BY DEF OnPacketSent, Runs, TypeInv, TypeOK
<1>2. rest \in Seq(Handlers)
  BY <1>1, HandlerQueues
<1>3. again \in Seq(Handlers)
  BY NoteType DEF Errors
<1>4. /\ mixed' \in BOOLEAN
      /\ UNCHANGED <<timer, shutdown, buf, head, trans, calls, told, listening, deaths, peer,
                  sread, swrites, sbuf, toServer, toClient, got, finished, garbled>>
  BY DEF OnPacketSent, serverVars, wires, TypeInv, TypeOK
<1>5. CASE done[i].err = "reset"
  <2>1. /\ sock' = "connecting" /\ writes' = <<>> /\ reads' = <<>>
        /\ done' = rest \o Failed(writes) \o Failed(reads) \o again
    BY <1>5 DEF OnPacketSent
  <2>2. Failed(writes) \in Seq(Handlers) /\ Failed(reads) \in Seq(Handlers)
    BY FailedElements DEF TypeInv, TypeOK
  <2> HIDE DEF rest, again
  <2>3. done' \in Seq(Handlers)
    <3>1. rest \o Failed(writes) \in Seq(Handlers)
      BY <1>2, <2>2, ConcatProperties, Zenon
    <3>2. rest \o Failed(writes) \o Failed(reads) \in Seq(Handlers)
      BY <2>2, <3>1, ConcatProperties, Zenon
    <3>3. rest \o Failed(writes) \o Failed(reads) \o again \in Seq(Handlers)
      BY <1>3, <3>2, ConcatProperties, Zenon
    <3> QED BY <2>1, <3>3
  <2>4. <<>> \in Seq(Ops) /\ Fit(<<>>)
    BY DEF Fit
  <2> QED BY <1>4, <2>1, <2>3, <2>4 DEF TypeInv, TypeOK
<1>6. CASE done[i].err # "reset"
  <2>1. /\ sock' = sock /\ writes' = writes
        /\ StartRead(ReadHeader, rest) \/ (done' = rest /\ reads' = reads)
    BY <1>6 DEF OnPacketSent
  <2> HIDE DEF rest
  <2>2. ReadHeader \in Ops /\ Fits(ReadHeader) /\ ReadHeader.h # "sent"
    BY ReadHeaderType
  <2>3. /\ reads' \in Seq(Ops) /\ Fit(reads')
        /\ \A j \in DOMAIN reads' : reads'[j].h # "sent"
        /\ done' \in Seq(Handlers)
    <3>1. CASE StartRead(ReadHeader, rest)
      BY <1>2, <2>2, <3>1, StartReadType
    <3>2. CASE done' = rest /\ reads' = reads
      BY <1>2, <3>2 DEF TypeInv, TypeOK
    <3> QED BY <2>1, <3>1, <3>2
  <2> QED BY <1>4, <2>1, <2>3 DEF TypeInv, TypeOK
<1> QED BY <1>5, <1>6

LEMMA OnHeaderReadType ==
  ASSUME TypeInv, NEW i \in 1 .. Runners, OnHeaderRead(i)
  PROVE  TypeInv'
<1> DEFINE rest == RemoveAt(done, i)  op == Op("packet", None, head)
<1>1. i \in DOMAIN done /\ done \in Seq(Handlers)
  BY DEF OnHeaderRead, Runs, TypeInv, TypeOK
<1>2. rest \in Seq(Handlers)
  BY <1>1, HandlerQueues
<1>3. /\ UNCHANGED <<sock, writes, timer, shutdown, buf, head, trans, calls, told, listening,
                     deaths, peer, sread, swrites, sbuf, toServer, toClient, got, finished,
                     garbled>>
      /\ StartRead(op, rest) \/ (done' = rest /\ reads' = reads)
      /\ mixed' \in BOOLEAN
  BY DEF OnHeaderRead, serverVars, wires, TypeInv, TypeOK
<1>4. op \in Ops /\ Fits(op) /\ op.h # "sent"
  <2>1. head \in Nat /\ head <= MaxFrame
    BY MaxFrameBounds DEF TypeInv, TypeOK
  <2> QED BY <2>1, PacketType
<1> HIDE DEF rest, op
<1>5. /\ reads' \in Seq(Ops) /\ Fit(reads')
      /\ \A j \in DOMAIN reads' : reads'[j].h # "sent"
      /\ done' \in Seq(Handlers)
  <2>1. CASE StartRead(op, rest)
    BY <1>2, <1>4, <2>1, StartReadType
  <2>2. CASE done' = rest /\ reads' = reads
    BY <1>2, <2>2 DEF TypeInv, TypeOK
  <2> QED BY <1>3, <2>1, <2>2
<1> QED BY <1>3, <1>5 DEF TypeInv, TypeOK

LEMMA ReadsType ==
  ASSUME TypeInv, Reads
  PROVE  TypeInv'
<1> DEFINE op == Head(reads)
           k == Upto(op.left, Len(toClient))
           ws == SubSeq(toClient, 1, k)
<1>1. /\ reads # <<>> /\ toClient # <<>>
      /\ toClient' = SubSeq(toClient, k + 1, Len(toClient))
      /\ reads' = Requeued(reads, k)
      /\ done' = IF k = op.left THEN Append(done, Ended(Moved(op, k), "ok")) ELSE done
      /\ IF op.h = "header" THEN head' = ws[1].size /\ garbled' = (ws[1].of # None) /\ buf' = buf
         ELSE buf' = Overwrite(buf, op.at, ws) /\ head' = head /\ garbled' = garbled
      /\ UNCHANGED <<sock, writes, timer, shutdown, trans, calls, told, listening, deaths,
                     peer, sread, swrites, sbuf, toServer, got, finished, mixed>>
  BY DEF Reads, serverVars
<1>2. /\ reads \in Seq(Ops) /\ Fit(reads) /\ \A i \in DOMAIN reads : reads[i].h # "sent"
      /\ done \in Seq(Handlers) /\ head \in 0 .. MaxFrame /\ garbled \in BOOLEAN
      /\ toClient \in Seq(Word) /\ Small(toClient) /\ Len(toClient) <= Cap
      /\ buf \in Buffers /\ Small(buf)
  BY DEF TypeInv, TypeOK, Buffers
<1>3. op \in Ops /\ Fits(op)
  BY <1>1, <1>2 DEF Fit
<1>4. /\ op.at \in Nat /\ op.left \in Nat /\ MaxFrame \in Nat
      /\ Len(toClient) \in Nat \ {0} /\ Cap \in Nat
  <2>1. op.at \in Nat /\ op.left \in Nat
    BY <1>3, MaxFrameBounds DEF Ops
  <2>2. Len(toClient) \in Nat \ {0}
    BY <1>1, <1>2
  <2> QED BY <2>1, <2>2, MaxFrameBounds, ProtolinkAssumption DEF ProtolinkAssumption
<1>5. k \in Nat /\ k <= op.left /\ k <= Len(toClient)
  BY <1>4, UptoBounds
<1>6. op.h = "header" => k = 1
  <2>1. op.h = "header" => op.left = 1
    BY <1>3 DEF Fits
  <2>2. Len(toClient) >= 1
    BY <1>4
  <2> QED BY <1>4, <2>1, <2>2, UptoLeast
<1> DEFINE rest == SubSeq(toClient, k + 1, Len(toClient))
<1>7. /\ ws \in Seq(Word) /\ Small(ws) /\ Len(ws) = k
      /\ rest \in Seq(Word) /\ Small(rest) /\ Len(rest) = Len(toClient) - k
  <2> HIDE DEF k
  <2> QED BY <1>2, <1>5, WireElements
<1> HIDE DEF k, ws
<1>8. /\ toClient' \in Seq(Word) /\ Small(toClient') /\ Len(toClient') <= Cap
  <2>1. toClient' = rest
    BY <1>1
  <2> HIDE DEF rest
  <2> QED BY <1>2, <1>4, <1>5, <1>7, <2>1
<1> HIDE DEF rest
<1>9. /\ reads' \in Seq(Ops) /\ Fit(reads')
      /\ \A i \in DOMAIN reads' : reads'[i].h # "sent"
  <2>1. \A i \in DOMAIN reads : reads[i] \in Ops /\ reads[i].h # "sent"
    BY <1>2
  <2>2. \A i \in DOMAIN reads : reads[i].h \in {"header", "packet"}
    BY <2>1 DEF Ops
  <2>3. /\ reads' \in Seq(Ops) /\ Fit(reads')
        /\ \A i \in DOMAIN reads' : reads'[i].h \in {"header", "packet"}
    BY <1>1, <1>2, <1>5, <2>2, RequeuedElements
  <2> QED BY <2>3
<1>10. done' \in Seq(Handlers)
  <2>1. Moved(op, k) \in Ops
    BY <1>3, <1>5, MovedType
  <2>2. Append(done, Ended(Moved(op, k), "ok")) \in Seq(Handlers)
    BY <1>2, <2>1, EndedType, HandlerQueues DEF Errors
  <2> QED BY <1>1, <1>2, <2>2
<1>11. head' \in 0 .. MaxFrame /\ garbled' \in BOOLEAN /\ buf' \in Buffers /\ Small(buf')
  <2> HIDE DEF op
  <2>1. CASE op.h = "header"
    <3>1. 1 \in DOMAIN ws
      BY <1>6, <1>7, <2>1
    <3>2. ws[1] \in Word /\ ws[1].size <= MaxFrame
      BY <1>7, <3>1 DEF Small
    <3> QED BY <1>1, <1>2, <1>4, <2>1, <3>2 DEF Word
  <2>2. CASE op.h # "header"
    <3>1. Overwrite(buf, op.at, ws) \in Buffers /\ Small(Overwrite(buf, op.at, ws))
      BY <1>2, <1>4, <1>7, OverwriteElements
    <3> QED BY <1>1, <1>2, <2>2, <3>1
  <2> QED BY <2>1, <2>2
<1> QED BY <1>1, <1>8, <1>9, <1>10, <1>11 DEF TypeInv, TypeOK, Buffers

LEMMA ReadFailsType ==
  ASSUME TypeInv, ReadFails
  PROVE  TypeInv'
<1>1. /\ reads \in Seq(Ops) /\ reads # <<>> /\ Fit(reads) /\ done \in Seq(Handlers)
      /\ \A i \in DOMAIN reads : reads[i].h # "sent"
  BY DEF ReadFails, TypeInv, TypeOK
<1>2. /\ Head(reads) \in Ops /\ reads' \in Seq(Ops) /\ Fit(reads')
      /\ \A i \in DOMAIN reads' : reads'[i].h # "sent"
  <2> DEFINE r == Tail(reads)
  <2>1. /\ Len(reads) \in Nat \ {0} /\ DOMAIN reads = 1 .. Len(reads)
        /\ r \in Seq(Ops) /\ DOMAIN r = 1 .. Len(reads) - 1
        /\ \A i \in DOMAIN r : r[i] = reads[i + 1] /\ i + 1 \in DOMAIN reads
        /\ Head(reads) \in Ops
    BY <1>1
  <2>2. reads' = r
    BY DEF ReadFails
  <2> HIDE DEF r
  <2> QED BY <1>1, <2>1, <2>2 DEF Fit
<1>3. done' \in Seq(Handlers)
  <2>1. done' = Append(done, Ended(Head(reads), "other"))
    BY DEF ReadFails
  <2> QED BY <1>1, <1>2, <2>1, EndedType, HandlerQueues DEF Errors
<1>4. peer' \in {"serving", "closed", "reset", "pipe"}
  BY DEF ReadFails, TypeInv, TypeOK
<1> QED BY <1>2, <1>3, <1>4 DEF ReadFails, TypeInv, TypeOK, wires, histVars

LEMMA WritesType ==
  ASSUME TypeInv, Writes
  PROVE  TypeInv'
<1>1. /\ writes \in Seq(Ops) /\ writes # <<>> /\ Fit(writes)
      /\ \A i \in DOMAIN writes : writes[i].h = "sent"
      /\ buf \in Buffers /\ Small(buf) /\ Push(writes, buf)
  BY DEF Writes, TypeInv, TypeOK, Buffers
<1>2. /\ writes' \in Seq(Ops) /\ Fit(writes')
      /\ \A i \in DOMAIN writes' : writes'[i].h = "sent"
      /\ toServer' \in Seq(Word) /\ Small(toServer') /\ Len(toServer') <= Cap
      /\ done' \in Seq(Handlers)
      /\ peer' \in {"serving", "closed", "reset", "pipe"}
  BY <1>1, PushType
<1> QED BY <1>2 DEF Writes, TypeInv, TypeOK, histVars

LEMMA ConnectsType ==
  ASSUME TypeInv, Connects
  PROVE  TypeInv'
<1>1. /\ sock' = "up" /\ peer' = "serving" /\ toServer' = <<>> /\ toClient' = <<>>
      /\ sread' = ReadHeader /\ swrites' = <<>> /\ sbuf' = Blank
      /\ done' = Append(done, Note("connected", None, "ok", 0))
      /\ UNCHANGED <<writes, reads, timer, shutdown, buf, head, trans, calls, told,
                     listening, deaths, got, finished, garbled, mixed>>
  BY DEF Connects, histVars
<1>2. done' \in Seq(Handlers)
  BY <1>1, NoteType, HandlerQueues DEF Errors, TypeInv, TypeOK
<1>3. /\ <<>> \in Seq(Ops) /\ Fit(<<>>) /\ <<>> \in Seq(Word) /\ Small(<<>>)
      /\ Len(<<>>) = 0 /\ Len(<<>>) <= Cap /\ DOMAIN <<>> = {}
  BY ProtolinkAssumption DEF Fit, Small, ProtolinkAssumption
<1>4. sread'.h # "sent" /\ sread' \in Ops /\ Fits(sread')
  BY <1>1, ReadHeaderType
<1>5. sbuf' \in Buffers /\ Small(sbuf')
  BY <1>1, BlankType
<1> QED BY <1>1, <1>2, <1>3, <1>4, <1>5 DEF TypeInv, TypeOK, Buffers

LEMMA ConnectFailsType ==
  ASSUME TypeInv, ConnectFails
  PROVE  TypeInv'
<1> DEFINE q == Append(done, Note("connected", None, "other", 0))
           fw == Failed(writes)  fr == Failed(reads)
<1>1. /\ sock' = "down" /\ done' = q \o fw \o fr
      /\ writes' = <<>> /\ reads' = <<>>
      /\ UNCHANGED <<timer, shutdown, buf, head, trans, calls, told, listening, deaths, peer,
                     sread, swrites, sbuf, toServer, toClient, got, finished, garbled, mixed>>
  BY DEF ConnectFails, serverVars, wires, histVars
<1>2. q \in Seq(Handlers)
  BY NoteType, HandlerQueues DEF Errors, TypeInv, TypeOK
<1>3. fw \in Seq(Handlers) /\ fr \in Seq(Handlers)
  BY FailedElements DEF TypeInv, TypeOK
<1> HIDE DEF q, fw, fr
<1>4. done' \in Seq(Handlers)
  BY <1>1, <1>2, <1>3
<1>5. <<>> \in Seq(Ops) /\ Fit(<<>>) /\ DOMAIN <<>> = {}
  BY DEF Fit
<1> QED BY <1>1, <1>4, <1>5 DEF TypeInv, TypeOK

LEMMA OnConnectType ==
  ASSUME TypeInv, NEW i \in 1 .. Runners, OnConnect(i)
  PROVE  TypeInv'
<1>1. i \in DOMAIN done /\ done \in Seq(Handlers) /\ done[i] \in Handlers
  BY DEF OnConnect, Runs, TypeInv, TypeOK
<1>2. UNCHANGED <<sock, writes, reads, timer, shutdown, buf, head, trans, calls, told, listening,
                  deaths, peer, sread, swrites, sbuf, toServer, toClient, got, finished,
                  garbled, mixed>>
  BY DEF OnConnect, serverVars, wires, histVars
<1>3. done' \in Seq(Handlers)
  <2>1. RemoveAt(done, i) \in Seq(Handlers)
    BY <1>1, HandlerQueues
  <2>2. [done[i] EXCEPT !.h = "report"] \in Handlers
    BY <1>1 DEF Handlers
  <2>3. [done EXCEPT ![i].h = "report"] = [done EXCEPT ![i] = [done[i] EXCEPT !.h = "report"]]
    BY <1>1
  <2>4. [done EXCEPT ![i].h = "report"] \in Seq(Handlers)
    BY <1>1, <2>2, <2>3
  <2> QED BY <2>1, <2>4 DEF OnConnect
<1> QED BY <1>2, <1>3 DEF TypeInv, TypeOK

LEMMA ReportType ==
  ASSUME TypeInv, NEW i \in 1 .. Runners, Report(i)
  PROVE  TypeInv'
<1>1. i \in DOMAIN done /\ done \in Seq(Handlers)
  BY DEF Report, Runs, TypeInv, TypeOK
<1>2. done' \in Seq(Handlers)
  <2> DEFINE rest == RemoveAt(done, i)
  <2>1. rest \in Seq(Handlers)
    BY <1>1, HandlerQueues
  <2>2. Note("retry", None, "ok", 0) \in Handlers
    BY NoteType DEF Errors
  <2>3. done' = rest \/ done' = Append(rest, Note("retry", None, "ok", 0))
    BY DEF Report
  <2> QED BY <2>1, <2>2, <2>3, HandlerQueues
<1>3. /\ UNCHANGED <<sock, writes, reads, shutdown, buf, head, trans, calls, listening,
                     deaths, peer, sread, swrites, sbuf, toServer, toClient, got, finished,
                     garbled, mixed>>
      /\ told' \in {"nothing", "up", "down"} /\ timer' \in BOOLEAN
  BY DEF Report, serverVars, wires, histVars, TypeInv, TypeOK
<1> QED BY <1>2, <1>3 DEF TypeInv, TypeOK

LEMMA DialType ==
  ASSUME TypeInv, NEW q \in Seq(Handlers), Dial(q)
  PROVE  sock' \in {"down", "connecting", "up"} /\ done' \in Seq(Handlers)
<1>1. Append(q, Note("connected", None, "other", 0)) \in Seq(Handlers)
  BY NoteType, HandlerQueues DEF Errors
<1> QED BY <1>1 DEF Dial, TypeInv, TypeOK

LEMMA RetryType ==
  ASSUME TypeInv, NEW i \in 1 .. Runners, Retry(i)
  PROVE  TypeInv'
<1>1. i \in DOMAIN done /\ done \in Seq(Handlers)
  BY DEF Retry, Runs, TypeInv, TypeOK
<1>2. RemoveAt(done, i) \in Seq(Handlers)
  BY <1>1, HandlerQueues
<1>3. sock' \in {"down", "connecting", "up"} /\ done' \in Seq(Handlers)
  BY <1>2, DialType DEF Retry
<1>4. UNCHANGED <<writes, reads, timer, shutdown, buf, head, trans, calls, told, listening,
                  deaths, peer, sread, swrites, sbuf, toServer, toClient, got, finished,
                  garbled, mixed>>
  BY DEF Retry, serverVars, wires, histVars
<1> QED BY <1>3, <1>4 DEF TypeInv, TypeOK

LEMMA TimersType ==
  ASSUME TypeInv, TimerFires \/ PrepareShutdown \/ Destroyed
  PROVE  TypeInv'
<1>1. /\ UNCHANGED <<writes, reads, buf, head, trans, calls, told, listening, deaths, peer,
                     sread, swrites, sbuf, toServer, toClient, got, finished, garbled, mixed>>
      /\ sock' \in {"down", "connecting", "up"} /\ timer' \in BOOLEAN /\ shutdown' \in BOOLEAN
      /\ done' = done \/ done' = Append(done, Note("retry", None, "ok", 0))
  BY DEF TimerFires, PrepareShutdown, Destroyed, serverVars, wires, histVars, TypeInv, TypeOK
<1>2. done' \in Seq(Handlers)
  BY <1>1, NoteType, HandlerQueues DEF Errors, TypeInv, TypeOK
<1> QED BY <1>1, <1>2 DEF TypeInv, TypeOK

LEMMA ParsedType ==
  ASSUME NEW ws, Parsed(ws) # None
  PROVE  Parsed(ws) \in Packets /\ ws = Body(Parsed(ws))
BY DEF Parsed

LEMMA OnPacketReadType ==
  ASSUME TypeInv, NEW i \in 1 .. Runners, OnPacketRead(i)
  PROVE  TypeInv'
<1> DEFINE p == Parsed(SubSeq(buf, 1, done[i].n))
<1>1. i \in DOMAIN done /\ done \in Seq(Handlers)
  BY DEF OnPacketRead, Runs, TypeInv, TypeOK
<1>2. done' \in Seq(Handlers)
  BY <1>1, HandlerQueues DEF OnPacketRead
<1>3. UNCHANGED <<sock, writes, reads, timer, shutdown, buf, head, calls, told, listening,
                  deaths, peer, sread, swrites, sbuf, toServer, toClient, got, mixed>>
  BY DEF OnPacketRead, serverVars, wires
<1>4. /\ trans' \subseteq trans /\ garbled' \in BOOLEAN
      /\ finished' = finished
         \/ (p # None /\ p.id \in trans /\ finished' = Append(finished, p.id))
  BY DEF OnPacketRead, TypeInv, TypeOK
<1>5. finished' \in Seq(Sent)
  <2>1. finished \in Seq(Sent) /\ trans \subseteq Sent
    BY DEF TypeInv, TypeOK
  <2> HIDE DEF p
  <2> QED BY <1>4, <2>1
<1> QED BY <1>2, <1>3, <1>4, <1>5 DEF TypeInv, TypeOK

LEMMA ServerPushType ==
  ASSUME TypeInv, NEW ops \in Seq(Ops), ops # <<>>, Fit(ops),
         \A i \in DOMAIN ops : ops[i].h = "sent",
         NEW b \in Buffers, Small(b), ServerPush(ops, b)
  PROVE  /\ swrites' \in Seq(Ops) /\ Fit(swrites')
         /\ \A i \in DOMAIN swrites' : swrites'[i].h = "sent"
         /\ toClient' \in Seq(Word) /\ Small(toClient') /\ Len(toClient') <= Cap
<1> DEFINE op == Head(ops)  k == Upto(op.left, Cap - Len(toClient))
           ws == SubSeq(b, op.at + 1, op.at + k)
<1>1. op \in Ops /\ Fits(op)
  BY DEF Fit
<1>2. /\ op.at \in Nat /\ op.left \in Nat /\ op.at + op.left <= MaxFrame
      /\ MaxFrame \in Nat
  BY <1>1, MaxFrameBounds DEF Ops, Fits
<1>3. Cap \in Nat /\ Len(toClient) \in Nat /\ Cap - Len(toClient) \in Nat
  BY ProtolinkAssumption DEF ProtolinkAssumption, TypeInv, TypeOK
<1>4. toClient \in Seq(Word) /\ Small(toClient) /\ Len(toClient) <= Cap
  BY DEF TypeInv, TypeOK
<1>5. k \in Nat /\ k <= op.left /\ k <= Cap - Len(toClient)
  BY <1>2, <1>3, UptoBounds
<1>6. toClient' = toClient \o ws /\ swrites' = Requeued(ops, k)
  BY DEF ServerPush
<1>7. op.at + k <= MaxFrame
  BY <1>2, <1>5
<1> HIDE DEF k, op
<1>8. ws \in Seq(Word) /\ Len(ws) = k /\ Small(ws)
  <2>1. op.at \in Nat /\ k \in Nat
    BY <1>2, <1>5
  <2> QED BY <1>7, <2>1, BufferSlice, Zenon
<1> HIDE DEF ws
<1>9. toClient' \in Seq(Word) /\ Small(toClient') /\ Len(toClient') = Len(toClient) + k
  BY <1>4, <1>6, <1>8, JoinElements
<1>10. /\ swrites' \in Seq(Ops) /\ Fit(swrites')
       /\ \A i \in DOMAIN swrites' : swrites'[i].h \in {"sent"}
  BY <1>5, <1>6, RequeuedElements DEF op
<1>11. Len(toClient') <= Cap
  BY <1>3, <1>5, <1>9
<1> QED BY <1>9, <1>10, <1>11

LEMMA ServerWritesType ==
  ASSUME TypeInv, ServerWrites
  PROVE  TypeInv'
<1>1. /\ swrites \in Seq(Ops) /\ swrites # <<>> /\ Fit(swrites)
      /\ \A i \in DOMAIN swrites : swrites[i].h = "sent"
      /\ sbuf \in Buffers /\ Small(sbuf) /\ ServerPush(swrites, sbuf)
  BY DEF ServerWrites, TypeInv, TypeOK, Buffers
<1>2. /\ swrites' \in Seq(Ops) /\ Fit(swrites')
      /\ \A i \in DOMAIN swrites' : swrites'[i].h = "sent"
      /\ toClient' \in Seq(Word) /\ Small(toClient') /\ Len(toClient') <= Cap
  BY <1>1, ServerPushType
<1> QED BY <1>2 DEF ServerWrites, TypeInv, TypeOK, clientVars, histVars

LEMMA ServerReadsHeaderType ==
  ASSUME TypeInv, ServerReadsHeader
  PROVE  TypeInv'
<1>1. /\ toServer \in Seq(Word) /\ toServer # <<>> /\ Small(toServer) /\ Len(toServer) <= Cap
      /\ Cap \in Nat
  BY ProtolinkAssumption DEF ServerReadsHeader, TypeInv, TypeOK, ProtolinkAssumption
<1>2. /\ sread' = Op("packet", None, Head(toServer).size) /\ toServer' = Tail(toServer)
      /\ garbled' \in BOOLEAN
      /\ UNCHANGED <<sock, writes, reads, done, timer, shutdown, buf, head, trans, calls, told,
                     listening, deaths, peer, swrites, sbuf, toClient, got, finished, mixed>>
  BY DEF ServerReadsHeader, clientVars
<1>3. Head(toServer).size \in Nat /\ Head(toServer).size <= MaxFrame
  <2>1. Head(toServer) = toServer[1] /\ 1 \in DOMAIN toServer /\ toServer[1] \in Word
    BY <1>1
  <2> QED BY <1>1, <2>1 DEF Small, Word
<1>4. sread' \in Ops /\ Fits(sread') /\ sread'.h # "sent"
  BY <1>2, <1>3, PacketType
<1>5. toServer' \in Seq(Word) /\ Small(toServer') /\ Len(toServer') <= Cap
  <2> DEFINE r == Tail(toServer)
  <2>1. /\ Len(toServer) \in Nat \ {0} /\ DOMAIN toServer = 1 .. Len(toServer)
        /\ r \in Seq(Word) /\ Len(r) = Len(toServer) - 1 /\ DOMAIN r = 1 .. Len(toServer) - 1
        /\ \A j \in DOMAIN r : r[j] = toServer[j + 1] /\ j + 1 \in DOMAIN toServer
    BY <1>1
  <2> HIDE DEF r
  <2>2. Small(r)
    BY <1>1, <2>1 DEF Small
  <2>3. Len(r) <= Cap
    BY <1>1, <2>1
  <2> QED BY <1>2, <2>1, <2>2, <2>3 DEF r
<1> QED BY <1>2, <1>4, <1>5 DEF TypeInv, TypeOK

LEMMA RespondType ==
  ASSUME TypeInv, NEW p \in Packets, Respond(p)
  PROVE  /\ swrites' \in Seq(Ops) /\ Fit(swrites')
         /\ \A i \in DOMAIN swrites' : swrites'[i].h = "sent"
         /\ toClient' \in Seq(Word) /\ Small(toClient') /\ Len(toClient') <= Cap
         /\ sbuf' \in Buffers /\ Small(sbuf')
<1> DEFINE op == Op("sent", "response", 1 + Size["response"])
           b == Overwrite(sbuf, 0, Frame(Answer(p)))
<1>1. op = [h |-> "sent", kind |-> "response", at |-> 0, left |-> 1 + Size["response"]]
  BY DEF Op
<1>2. op \in Ops /\ Fits(op)
  <2>1. "response" \in Kinds
    BY DEF Kinds
  <2> QED BY <1>1, <2>1, MaxFrameBounds DEF Ops, Fits
<1>3. b \in Buffers /\ Small(b)
  <2>1. Answer(p) \in Packets
    BY DEF Answer, Packets, Kinds
  <2>2. Frame(Answer(p)) \in Seq(Word) /\ Small(Frame(Answer(p)))
    BY <2>1, FrameElements
  <2> QED BY <2>2, OverwriteElements DEF TypeInv, TypeOK, Buffers
<1>4. /\ sbuf' = b
      /\ \/ ServerPush(<<op>>, b)
         \/ swrites' = Append(swrites, op) /\ toClient' = toClient
  BY DEF Respond
<1> HIDE DEF op, b
<1>5. CASE ServerPush(<<op>>, b)
  <2>1. <<op>> \in Seq(Ops) /\ <<op>> # <<>> /\ Fit(<<op>>)
        /\ \A i \in DOMAIN <<op>> : <<op>>[i].h = "sent"
    BY <1>1, <1>2 DEF Fit
  <2> QED BY <1>3, <1>4, <1>5, <2>1, ServerPushType
<1>6. CASE swrites' = Append(swrites, op) /\ toClient' = toClient
  <2> DEFINE r == Append(swrites, op)
  <2>1. /\ swrites \in Seq(Ops) /\ Fit(swrites)
        /\ \A i \in DOMAIN swrites : swrites[i].h = "sent"
        /\ toClient \in Seq(Word) /\ Small(toClient) /\ Len(toClient) <= Cap
    BY DEF TypeInv, TypeOK
  <2>2. /\ r \in Seq(Ops) /\ DOMAIN r = 1 .. Len(swrites) + 1 /\ Len(swrites) \in Nat
        /\ r[Len(swrites) + 1] = op /\ \A i \in 1 .. Len(swrites) : r[i] = swrites[i]
        /\ DOMAIN swrites = 1 .. Len(swrites)
    BY <1>2, <2>1
  <2>3. op.h = "sent"
    BY <1>1
  <2> HIDE DEF r
  <2>4. \A i \in DOMAIN r : (i \in DOMAIN swrites /\ r[i] = swrites[i]) \/ r[i] = op
    BY <2>2
  <2>5. Fit(r) /\ \A i \in DOMAIN r : r[i].h = "sent"
    BY <1>2, <2>1, <2>3, <2>4 DEF Fit
  <2> QED BY <1>3, <1>4, <1>6, <2>1, <2>2, <2>5 DEF r
<1> QED BY <1>4, <1>5, <1>6

LEMMA ServerReadsPacketType ==
  ASSUME TypeInv, ServerReadsPacket
  PROVE  TypeInv'
<1> DEFINE k == Upto(sread.left, Len(toServer))
           ws == SubSeq(toServer, 1, k)
           rest == SubSeq(toServer, k + 1, Len(toServer))
           b == Overwrite(sbuf, sread.at, ws)
           p == Parsed(SubSeq(b, 1, sread.at + k))
           whole == k = sread.left
<1>1. /\ toServer' = rest
      /\ sread' = IF whole THEN ReadHeader ELSE Moved(sread, k)
      /\ garbled' = (whole /\ p = None)
      /\ got' = IF whole /\ p # None THEN Append(got, p) ELSE got
      /\ IF whole /\ p # None /\ p.kind = "request" THEN Respond(p)
         ELSE sbuf' = b /\ swrites' = swrites /\ toClient' = toClient
      /\ UNCHANGED <<sock, writes, reads, done, timer, shutdown, buf, head, trans, calls, told,
                     listening, deaths, peer, finished>>
      /\ mixed' \in BOOLEAN
  BY DEF ServerReadsPacket, clientVars, TypeInv, TypeOK
<1>2. /\ toServer \in Seq(Word) /\ Small(toServer) /\ Len(toServer) <= Cap
      /\ sread \in Ops /\ Fits(sread) /\ sbuf \in Buffers /\ Small(sbuf)
      /\ swrites \in Seq(Ops) /\ Fit(swrites)
      /\ \A i \in DOMAIN swrites : swrites[i].h = "sent"
      /\ toClient \in Seq(Word) /\ Small(toClient) /\ Len(toClient) <= Cap
      /\ got \in Seq(Packets) /\ sread.h # "sent"
  BY DEF TypeInv, TypeOK, Buffers
<1>3. sread.at \in Nat /\ sread.left \in Nat /\ Len(toServer) \in Nat /\ Cap \in Nat
  BY <1>2, MaxFrameBounds, ProtolinkAssumption DEF Ops, ProtolinkAssumption
<1>4. k \in Nat /\ k <= sread.left /\ k <= Len(toServer)
  BY <1>3, UptoBounds
<1>5. /\ ws \in Seq(Word) /\ Small(ws) /\ Len(ws) = k
      /\ rest \in Seq(Word) /\ Small(rest) /\ Len(rest) = Len(toServer) - k
  <2> HIDE DEF k
  <2> QED BY <1>2, <1>4, WireElements
<1> HIDE DEF k, ws, rest
<1>6. b \in Buffers /\ Small(b)
  BY <1>2, <1>3, <1>5, OverwriteElements
<1> HIDE DEF b
<1>7. p # None => p \in Packets
  BY ParsedType
<1> HIDE DEF p
<1>8. /\ sread' \in Ops /\ Fits(sread') /\ sread'.h # "sent"
  BY <1>1, <1>2, <1>4, ReadHeaderType, MovedType
<1>9. got' \in Seq(Packets) /\ garbled' \in BOOLEAN
  BY <1>1, <1>2, <1>7
<1>10. /\ swrites' \in Seq(Ops) /\ Fit(swrites')
       /\ \A i \in DOMAIN swrites' : swrites'[i].h = "sent"
       /\ toClient' \in Seq(Word) /\ Small(toClient') /\ Len(toClient') <= Cap
       /\ sbuf' \in Buffers /\ Small(sbuf')
  <2>1. CASE p # None /\ Respond(p)
    BY <1>7, <2>1, RespondType
  <2>2. CASE sbuf' = b /\ swrites' = swrites /\ toClient' = toClient
    BY <1>2, <1>6, <2>2
  <2> QED BY <1>1, <2>1, <2>2
<1>11. toServer' \in Seq(Word) /\ Small(toServer') /\ Len(toServer') <= Cap
  <2>1. Len(toServer') = Len(toServer) - k
    BY <1>1, <1>5
  <2>2. Len(toServer') <= Cap
    BY <1>2, <1>3, <1>4, <2>1
  <2> QED BY <1>1, <1>5, <2>2
<1> QED BY <1>1, <1>8, <1>9, <1>10, <1>11 DEF TypeInv, TypeOK, Buffers

LEMMA ServerDiesType ==
  ASSUME TypeInv, NEW end \in {"closed", "reset"}, ServerDies(end)
  PROVE  TypeInv'
<1>1. /\ listening' = FALSE /\ deaths' = deaths + 1 /\ deaths < MaxDeaths
      /\ peer' \in {peer, "closed", "reset"}
      /\ toServer' = <<>> /\ toClient' \in {<<>>, toClient}
      /\ sread' = ReadHeader /\ swrites' = <<>> /\ sbuf' = Blank
      /\ UNCHANGED <<sock, writes, reads, done, timer, shutdown, buf, head, trans, calls, told,
                     got, finished, garbled, mixed>>
  BY DEF ServerDies, clientVars, histVars
<1>2. /\ <<>> \in Seq(Ops) /\ Fit(<<>>) /\ <<>> \in Seq(Word) /\ Small(<<>>)
      /\ Len(<<>>) = 0 /\ Len(<<>>) <= Cap /\ DOMAIN <<>> = {}
  BY ProtolinkAssumption DEF Fit, Small, ProtolinkAssumption
<1>3. sread'.h # "sent" /\ sread' \in Ops /\ Fits(sread')
  BY <1>1, ReadHeaderType
<1>4. sbuf' \in Buffers /\ Small(sbuf')
  BY <1>1, BlankType
<1>5. deaths' \in 0 .. MaxDeaths /\ peer' \in {"serving", "closed", "reset", "pipe"}
  BY <1>1, ProtolinkAssumption DEF TypeInv, TypeOK, ProtolinkAssumption
<1>6. toClient' \in Seq(Word) /\ Small(toClient') /\ Len(toClient') <= Cap
  BY <1>1, <1>2 DEF TypeInv, TypeOK
<1> QED BY <1>1, <1>2, <1>3, <1>4, <1>5, <1>6 DEF TypeInv, TypeOK, Buffers

LEMMA InitType ==
  ASSUME Init
  PROVE  TypeInv
<1>1. /\ <<>> \in Seq(Ops) /\ Fit(<<>>) /\ <<>> \in Seq(Word) /\ Small(<<>>)
      /\ Len(<<>>) = 0 /\ Len(<<>>) <= Cap /\ DOMAIN <<>> = {}
      /\ <<>> \in Seq(Handlers) /\ <<>> \in Seq(Packets) /\ <<>> \in Seq(Sent)
  BY ProtolinkAssumption DEF Fit, Small, ProtolinkAssumption
<1>2. 0 \in 0 .. MaxFrame /\ 0 \in 0 .. MaxSends /\ 0 \in 0 .. MaxDeaths
  BY MaxFrameBounds, ProtolinkAssumption DEF ProtolinkAssumption
<1>3. ReadHeader.h # "sent" /\ ReadHeader \in Ops /\ Fits(ReadHeader)
  BY ReadHeaderType
<1> QED BY <1>1, <1>2, <1>3, BlankType DEF Init, TypeInv, TypeOK, Buffers

\* Every step of the client, the network and the server keeps the types.
LEMMA StepType ==
  ASSUME TypeInv, [Next]_vars
  PROVE  TypeInv'
<1>1. ASSUME NEW i \in 1 .. Runners, Run(i) PROVE TypeInv'
  BY <1>1, OnConnectType, ReportType, RetryType, OnPacketSentType, OnHeaderReadType,
     OnPacketReadType DEF Run
<1>2. CASE Kernel
  BY <1>2, TimersType, ConnectsType, ConnectFailsType, WritesType, ReadsType, ReadFailsType
     DEF Kernel
<1>3. CASE TimerFires \/ PrepareShutdown
  BY <1>3, TimersType
<1>4. CASE Server
  BY <1>4, ServerReadsHeaderType, ServerReadsPacketType, ServerWritesType DEF Server
<1>5. ASSUME NEW kind \in {"message", "request"}, Send(kind) PROVE TypeInv'
  BY <1>5, SendType
<1>6. ASSUME NEW end \in {"closed", "reset"}, ServerDies(end) PROVE TypeInv'
  BY <1>6, ServerDiesType
<1>7. CASE ServerReturns
  BY <1>7 DEF ServerReturns, TypeInv, TypeOK, clientVars, wires, histVars
<1>8. CASE UNCHANGED vars
  BY <1>8 DEF TypeInv, TypeOK, vars, clientVars, serverVars, wires, histVars
<1> QED BY <1>1, <1>2, <1>3, <1>4, <1>5, <1>6, <1>7, <1>8 DEF Next

\* The state of the link is well formed: no operation reaches past its buffer, no
\* header announces more than a buffer holds, no wire holds more than its capacity.
THEOREM TypeInvariant == Spec => []TypeInv
<1> QED BY InitType, StepType, PTL DEF Spec

\* Types of the variables of the link
THEOREM TypeCorrect == Spec => []TypeOK
<1>1. TypeInv => TypeOK
  BY DEF TypeInv
<1> QED BY <1>1, TypeInvariant, PTL

-----------------------------------------------------------------------------
(* One attempt to connect at a time *)

\* A handler that neither dials nor was told of a reset changes nothing.
LEMMA QuietAppended ==
  ASSUME NEW q \in Seq(Handlers), NEW n \in Handlers, n \notin Diallers, n \notin Resets,
         Once(q, Diallers), Once(q, Resets)
  PROVE  /\ Once(Append(q, n), Diallers) /\ Of(Append(q, n), Diallers) = Of(q, Diallers)
         /\ Once(Append(q, n), Resets) /\ Of(Append(q, n), Resets) = Of(q, Resets)
<1>1. Once(Append(q, n), Diallers) /\ Of(Append(q, n), Diallers) = Of(q, Diallers)
  BY OfAppended
<1>2. Once(Append(q, n), Resets) /\ Of(Append(q, n), Resets) = Of(q, Resets)
  BY OfAppended
<1> QED BY <1>1, <1>2

\* Nor do operations that fail with their socket.
LEMMA QuietJoined ==
  ASSUME NEW q \in Seq(Handlers), NEW ops \in Seq(Ops),
         Once(q, Diallers), Once(q, Resets)
  PROVE  /\ q \o Failed(ops) \in Seq(Handlers)
         /\ Once(q \o Failed(ops), Diallers)
         /\ Of(q \o Failed(ops), Diallers) = Of(q, Diallers)
         /\ Once(q \o Failed(ops), Resets)
         /\ Of(q \o Failed(ops), Resets) = Of(q, Resets)
<1> DEFINE r == Failed(ops)
<1>1. r \in Seq(Handlers) /\ \A j \in DOMAIN r : r[j] \notin Diallers /\ r[j] \notin Resets
  BY FailedElements
<1> HIDE DEF r
<1>2. Once(q \o r, Diallers) /\ Of(q \o r, Diallers) = Of(q, Diallers)
  BY <1>1, OfJoined
<1>3. Once(q \o r, Resets) /\ Of(q \o r, Resets) = Of(q, Resets)
  BY <1>1, OfJoined
<1>4. q \o r \in Seq(Handlers)
  BY <1>1
<1> QED BY <1>2, <1>3, <1>4 DEF r

\* The same for what an operation leaves when it ends
LEMMA QuietEnded ==
  ASSUME NEW q \in Seq(Handlers), NEW op \in Ops, NEW err \in Errors,
         op.h # "sent" \/ err # "reset", Once(q, Diallers), Once(q, Resets)
  PROVE  LET r == Append(q, Ended(op, err))
         IN  /\ Once(r, Diallers) /\ Of(r, Diallers) = Of(q, Diallers)
             /\ Once(r, Resets) /\ Of(r, Resets) = Of(q, Resets)
<1> DEFINE n == Ended(op, err)
<1>1. n \in Handlers /\ n \notin Diallers /\ n \notin Resets
  BY EndedType
<1> HIDE DEF n
<1> QED BY <1>1, QuietAppended DEF n

LEMMA QuietRemoved ==
  ASSUME NEW q \in Seq(Handlers), NEW i \in DOMAIN q, Once(q, Diallers), Once(q, Resets)
  PROVE  LET r == RemoveAt(q, i)
         IN  /\ r \in Seq(Handlers) /\ Once(r, Diallers) /\ Once(r, Resets)
             /\ Of(r, Diallers) = IF q[i] \in Diallers THEN {} ELSE Of(q, Diallers)
             /\ Of(r, Resets) = IF q[i] \in Resets THEN {} ELSE Of(q, Resets)
<1> DEFINE r == RemoveAt(q, i)
<1>1. r \in Seq(Handlers)
  BY RemoveAtElements
<1>2. /\ Once(r, Diallers)
      /\ q[i] \notin Diallers => Of(r, Diallers) = Of(q, Diallers)
      /\ q[i] \in Diallers => Of(r, Diallers) = {}
  BY OfRemoved
<1>3. /\ Once(r, Resets)
      /\ q[i] \notin Resets => Of(r, Resets) = Of(q, Resets)
      /\ q[i] \in Resets => Of(r, Resets) = {}
  BY OfRemoved
<1> HIDE DEF r
<1> QED BY <1>1, <1>2, <1>3 DEF r

LEMMA OfMember ==
  ASSUME NEW q, NEW N, NEW i \in DOMAIN q, q[i] \in N
  PROVE  q[i] \in Of(q, N)
BY DEF Of

\* What DialInv says of the queue
QueueDials(q, t, s, p) ==
    /\ Once(q, Diallers) /\ Once(q, Resets)
    /\ t \/ Of(q, Diallers) # {} => s = "down"
    /\ t => Of(q, Diallers) = {}
    /\ Of(q, Resets) # {} => s = "up" /\ p = "pipe"

LEMMA DialQueue == DialInv <=> QueueDials(done, timer, sock, peer)
BY DEF DialInv, QueueDials

LEMMA DialQueueNext == DialInv' <=> QueueDials(done', timer', sock', peer')
BY DEF DialInv, QueueDials

LEMMA PushDials ==
  ASSUME TypeInv, DialInv, NEW ops \in Seq(Ops), ops # <<>>, NEW b, Push(ops, b),
         sock = "up", sock' = sock, timer' = timer
  PROVE  DialInv'
<1> DEFINE op == Head(ops)
<1>1. op \in Ops /\ done \in Seq(Handlers) /\ peer \in {"serving", "closed", "reset", "pipe"}
  BY DEF TypeInv, TypeOK
<1>2. QueueDials(done, timer, sock, peer)
  BY DialQueue
<1>3. Of(done, Resets) # {} => peer = "pipe"
  BY <1>2 DEF QueueDials
<1>4. CASE done' = done /\ peer' = peer
  BY <1>2, <1>4, DialQueueNext
<1>5. CASE done' = Append(done, Ended(op, "ok")) /\ (peer = "pipe" => peer' = "pipe")
  <2>1. "ok" \in Errors
    BY DEF Errors
  <2>2. /\ Once(done', Diallers) /\ Of(done', Diallers) = Of(done, Diallers)
        /\ Once(done', Resets) /\ Of(done', Resets) = Of(done, Resets)
    BY <1>1, <1>2, <1>5, <2>1, QuietEnded DEF QueueDials
  <2> QED BY <1>2, <1>5, <2>2, DialQueueNext DEF QueueDials
<1>6. CASE done' = Append(done, Ended(op, "other")) /\ peer' = "pipe"
  <2>1. "other" \in Errors
    BY DEF Errors
  <2>2. /\ Once(done', Diallers) /\ Of(done', Diallers) = Of(done, Diallers)
        /\ Once(done', Resets) /\ Of(done', Resets) = Of(done, Resets)
    BY <1>1, <1>2, <1>6, <2>1, QuietEnded DEF QueueDials
  <2> QED BY <1>2, <1>6, <2>2, DialQueueNext DEF QueueDials
<1>7. CASE done' = Append(done, Ended(op, "reset")) /\ peer = "reset" /\ peer' = "pipe"
  <2>1. "reset" \in Errors
    BY DEF Errors
  <2> DEFINE n == Ended(op, "reset")
  <2>2. n \in Handlers /\ n \notin Diallers
    BY <1>1, <2>1, EndedType
  <2>3. Of(done, Resets) = {}
    BY <1>3, <1>7
  <2> HIDE DEF n
  <2>4. Once(Append(done, n), Diallers) /\ Of(Append(done, n), Diallers) = Of(done, Diallers)
    BY <1>1, <1>2, <2>2, OfAppended DEF QueueDials
  <2>5. Once(Append(done, n), Resets)
    BY <1>1, <1>2, <2>2, <2>3, OfAppended DEF QueueDials
  <2>6. done' = Append(done, n)
    BY <1>7 DEF n
  <2> QED BY <1>2, <1>7, <2>4, <2>5, <2>6, DialQueueNext DEF QueueDials
<1> QED BY <1>1, <1>4, <1>5, <1>6, <1>7 DEF Push

\* The operations on the socket
LEMMA TransferDials ==
  ASSUME TypeInv, DialInv, Writes \/ Reads \/ ReadFails
  PROVE  DialInv'
<1>1. done \in Seq(Handlers) /\ reads \in Seq(Ops) /\ writes \in Seq(Ops)
      /\ QueueDials(done, timer, sock, peer)
  BY DialQueue DEF TypeInv, TypeOK
<1>2. "ok" \in Errors /\ "other" \in Errors
  BY DEF Errors
<1>3. CASE Writes
  BY <1>1, <1>3, PushDials DEF Writes
<1>4. CASE Reads
  <2> DEFINE op == Head(reads)  k == Upto(op.left, Len(toClient))
  <2>1. /\ reads # <<>> /\ UNCHANGED <<sock, timer, peer>>
        /\ done' = done \/ done' = Append(done, Ended(Moved(op, k), "ok"))
    BY <1>4 DEF Reads, serverVars
  <2>2. op \in Ops /\ Fits(op)
    BY <1>1, <2>1 DEF TypeInv, Fit
  <2>3. op.left \in Nat /\ Len(toClient) \in Nat
    <3>1. op.left \in Nat
      BY <2>2, MaxFrameBounds DEF Ops
    <3>2. toClient \in Seq(Word)
      BY <1>1 DEF TypeInv, TypeOK
    <3> QED BY <3>1, <3>2
  <2>4. k \in Nat /\ k <= op.left
    BY <2>3, UptoBounds
  <2> HIDE DEF k, op
  <2>5. Moved(op, k) \in Ops
    BY <2>2, <2>4, MovedType
  <2>6. LET r == Append(done, Ended(Moved(op, k), "ok"))
        IN  /\ Once(r, Diallers) /\ Of(r, Diallers) = Of(done, Diallers)
            /\ Once(r, Resets) /\ Of(r, Resets) = Of(done, Resets)
    BY <1>1, <1>2, <2>5, QuietEnded DEF QueueDials
  <2> QED BY <1>1, <2>1, <2>6, DialQueueNext DEF QueueDials
<1>5. CASE ReadFails
  <2>1. /\ reads # <<>> /\ UNCHANGED <<sock, timer>> /\ (peer = "pipe" => peer' = "pipe")
        /\ done' = Append(done, Ended(Head(reads), "other"))
    BY <1>5 DEF ReadFails
  <2>2. Head(reads) \in Ops
    BY <1>1, <2>1
  <2>3. /\ Once(done', Diallers) /\ Of(done', Diallers) = Of(done, Diallers)
        /\ Once(done', Resets) /\ Of(done', Resets) = Of(done, Resets)
    BY <1>1, <1>2, <2>1, <2>2, QuietEnded DEF QueueDials
  <2> QED BY <1>1, <2>1, <2>3, DialQueueNext DEF QueueDials
<1> QED BY <1>3, <1>4, <1>5

LEMMA SendDials ==
  ASSUME TypeInv, DialInv, NEW kind \in {"message", "request"}, Send(kind)
  PROVE  DialInv'
<1> DEFINE op == Op("sent", kind, 1 + Size[kind])
           b == Overwrite(buf, 0, Frame([kind |-> kind, id |-> calls + 1]))
<1>1. op \in Ops
  <2>1. op = [h |-> "sent", kind |-> kind, at |-> 0, left |-> 1 + Size[kind]]
    BY DEF Op
  <2>2. kind \in Kinds
    BY DEF Kinds
  <2> QED BY <2>1, <2>2, MaxFrameBounds DEF Ops
<1>2. /\ IF sock = "up" /\ writes = <<>> THEN Push(<<op>>, b)
         ELSE /\ IF sock = "down"
                 THEN done' = Append(done, Ended(op, "other")) /\ UNCHANGED writes
                 ELSE writes' = Append(writes, op) /\ UNCHANGED done
              /\ UNCHANGED <<toServer, peer>>
      /\ UNCHANGED <<sock, timer>>
  BY DEF Send
<1> HIDE DEF op, b
<1>3. done \in Seq(Handlers) /\ QueueDials(done, timer, sock, peer) /\ "other" \in Errors
  BY DialQueue DEF TypeInv, TypeOK, Errors
<1>4. CASE sock = "up" /\ writes = <<>>
  <2>1. <<op>> \in Seq(Ops) /\ <<op>> # <<>>
    BY <1>1
  <2> QED BY <1>2, <1>4, <2>1, PushDials
<1>5. CASE ~(sock = "up" /\ writes = <<>>)
  <2>1. peer' = peer /\ (done' = done \/ done' = Append(done, Ended(op, "other")))
    BY <1>2, <1>5
  <2>2. LET r == Append(done, Ended(op, "other"))
        IN  /\ Once(r, Diallers) /\ Of(r, Diallers) = Of(done, Diallers)
            /\ Once(r, Resets) /\ Of(r, Resets) = Of(done, Resets)
    BY <1>1, <1>3, QuietEnded DEF QueueDials
  <2> QED BY <1>2, <1>3, <2>1, <2>2, DialQueueNext DEF QueueDials
<1> QED BY <1>4, <1>5

LEMMA ConnectsDials ==
  ASSUME TypeInv, DialInv, Connects \/ ConnectFails
  PROVE  DialInv'
<1>1. /\ done \in Seq(Handlers) /\ writes \in Seq(Ops) /\ reads \in Seq(Ops)
      /\ QueueDials(done, timer, sock, peer)
  BY DialQueue DEF TypeInv, TypeOK
<1>2. sock = "connecting" /\ timer' = timer
  BY DEF Connects, ConnectFails
<1>3. ~timer /\ Of(done, Diallers) = {} /\ Of(done, Resets) = {}
      /\ Once(done, Diallers) /\ Once(done, Resets)
  BY <1>1, <1>2 DEF QueueDials, TypeInv, TypeOK
<1>4. CASE Connects
  <2> DEFINE n == Note("connected", None, "ok", 0)
  <2>1. n \in Handlers /\ n \notin Diallers /\ n \notin Resets
    BY NoteType DEF Errors
  <2>2. done' = Append(done, n)
    BY <1>4 DEF Connects
  <2> HIDE DEF n
  <2>3. /\ Once(done', Diallers) /\ Of(done', Diallers) = {}
        /\ Once(done', Resets) /\ Of(done', Resets) = {}
    BY <1>1, <1>3, <2>1, <2>2, QuietAppended
  <2> QED BY <1>2, <1>3, <2>3, DialQueueNext DEF QueueDials
<1>5. CASE ConnectFails
  <2> DEFINE n == Note("connected", None, "other", 0)  q == Append(done, n)
             r == q \o Failed(writes)
  <2>1. n \in Handlers /\ n \notin Resets
    BY NoteType DEF Errors
  <2>2. sock' = "down" /\ done' = r \o Failed(reads)
    BY <1>5 DEF ConnectFails
  <2> HIDE DEF n
  <2>3. q \in Seq(Handlers) /\ Once(q, Diallers)
    BY <1>1, <1>3, <2>1, OfAppended
  <2>4. Once(q, Resets) /\ Of(q, Resets) = {}
    BY <1>1, <1>3, <2>1, OfAppended
  <2> HIDE DEF q
  <2>5. r \in Seq(Handlers) /\ Once(r, Diallers) /\ Once(r, Resets) /\ Of(r, Resets) = {}
    BY <1>1, <2>3, <2>4, QuietJoined
  <2> HIDE DEF r
  <2>6. Once(done', Diallers) /\ Once(done', Resets) /\ Of(done', Resets) = {}
    BY <1>1, <2>2, <2>5, QuietJoined
  <2> QED BY <1>2, <1>3, <2>2, <2>6, DialQueueNext DEF QueueDials
<1> QED BY <1>4, <1>5

LEMMA OnConnectDials ==
  ASSUME TypeInv, DialInv, NEW i \in 1 .. Runners, OnConnect(i)
  PROVE  DialInv'
<1>1. /\ i \in DOMAIN done /\ done \in Seq(Handlers) /\ done[i] \in Handlers
      /\ done[i].h = "connected" /\ QueueDials(done, timer, sock, peer)
      /\ UNCHANGED <<timer, sock, peer>>
  BY DialQueue DEF OnConnect, Runs, TypeInv, TypeOK, serverVars
<1>2. CASE done' = RemoveAt(done, i)
  <2>1. /\ Once(done', Diallers) /\ Once(done', Resets)
        /\ Of(done', Diallers) # {} => Of(done, Diallers) # {}
        /\ Of(done', Resets) # {} => Of(done, Resets) # {}
    BY <1>1, <1>2, QuietRemoved DEF QueueDials
  <2> QED BY <1>1, <2>1, DialQueueNext DEF QueueDials
<1>3. CASE done' = [done EXCEPT ![i].h = "report"]
  <2> DEFINE n == [done[i] EXCEPT !.h = "report"]
  <2>1. n \in Handlers /\ n \notin Resets /\ done[i] \notin Resets
        /\ (n \in Diallers <=> done[i] \in Diallers)
    BY <1>1 DEF Handlers, Diallers, Resets
  <2>2. done' = [done EXCEPT ![i] = n]
    BY <1>1, <1>3
  <2> HIDE DEF n
  <2>3. Once(done, Diallers) /\ Once(done, Resets) /\ (n \in Resets <=> done[i] \in Resets)
    BY <1>1, <2>1 DEF QueueDials
  <2>4. Once(done', Diallers) /\ (Of(done', Diallers) # {} => Of(done, Diallers) # {})
    BY <1>1, <2>1, <2>2, <2>3, OfReplaced
  <2>5. Once(done', Resets) /\ (Of(done', Resets) # {} => Of(done, Resets) # {})
    BY <1>1, <2>1, <2>2, <2>3, OfReplaced
  <2> QED BY <1>1, <2>4, <2>5, DialQueueNext DEF QueueDials
<1> QED BY <1>2, <1>3 DEF OnConnect

LEMMA ReportDials ==
  ASSUME TypeInv, DialInv, NEW i \in 1 .. Runners, Report(i)
  PROVE  DialInv'
<1>1. /\ i \in DOMAIN done /\ done \in Seq(Handlers) /\ done[i] \in Handlers
      /\ done[i].h = "report" /\ QueueDials(done, timer, sock, peer)
      /\ UNCHANGED <<sock, peer>>
  BY DialQueue DEF Report, Runs, TypeInv, TypeOK, serverVars
<1>2. done[i].err # "ok" => done[i] \in Diallers
  BY <1>1 DEF Diallers
<1>3. timer' <=> timer \/ done[i].err # "ok"
  BY DEF Report, TypeInv, TypeOK
<1>4. done' = RemoveAt(done, i)
  <2>1. done[i].err # "ok" => ~timer
    BY <1>1, <1>2, OfMember DEF QueueDials
  <2> QED BY <2>1 DEF Report
<1>5. /\ Once(done', Diallers) /\ Once(done', Resets)
      /\ Of(done', Diallers) = IF done[i] \in Diallers THEN {} ELSE Of(done, Diallers)
      /\ Of(done', Resets) # {} => Of(done, Resets) # {}
  BY <1>1, <1>4, QuietRemoved DEF QueueDials
<1>6. done[i] \in Diallers => Of(done, Diallers) # {}
  BY <1>1, OfMember
<1> QED BY <1>1, <1>2, <1>5, <1>6, <1>3, DialQueueNext DEF QueueDials

LEMMA RetryDials ==
  ASSUME TypeInv, DialInv, NEW i \in 1 .. Runners, Retry(i)
  PROVE  DialInv'
<1>1. /\ i \in DOMAIN done /\ done \in Seq(Handlers) /\ done[i] \in Handlers
      /\ done[i].h = "retry" /\ QueueDials(done, timer, sock, peer)
      /\ UNCHANGED <<timer, peer>> /\ Dial(RemoveAt(done, i))
  BY DialQueue DEF Retry, Runs, TypeInv, TypeOK, serverVars
<1>2. done[i] \in Diallers
  BY <1>1 DEF Diallers
<1>3. Of(done, Diallers) # {}
  BY <1>1, <1>2, OfMember
<1>4. sock = "down" /\ ~timer /\ Of(done, Resets) = {}
  BY <1>1, <1>3 DEF QueueDials, TypeInv, TypeOK
<1>5. sock' = "connecting" /\ done' = RemoveAt(done, i)
  BY <1>1, <1>4 DEF Dial
<1>6. /\ Once(done', Diallers) /\ Once(done', Resets)
      /\ Of(done', Diallers) = {}
      /\ Of(done', Resets) # {} => Of(done, Resets) # {}
  BY <1>1, <1>2, <1>5, QuietRemoved DEF QueueDials
<1> QED BY <1>1, <1>4, <1>6, DialQueueNext DEF QueueDials

LEMMA TimersDials ==
  ASSUME TypeInv, DialInv, TimerFires \/ PrepareShutdown \/ Destroyed
  PROVE  DialInv'
<1>1. /\ done \in Seq(Handlers) /\ QueueDials(done, timer, sock, peer) /\ timer \in BOOLEAN
      /\ peer' = peer
  BY DialQueue DEF TypeInv, TypeOK, TimerFires, PrepareShutdown, Destroyed, serverVars
<1>2. CASE timer /\ timer' = FALSE /\ sock' = sock
           /\ done' = Append(done, Note("retry", None, "ok", 0))
  <2> DEFINE n == Note("retry", None, "ok", 0)
  <2>1. n \in Handlers /\ n \notin Resets
    BY NoteType DEF Errors
  <2>2. done' = Append(done, n)
    BY <1>2
  <2> HIDE DEF n
  <2>3. Of(done, Diallers) = {} /\ sock = "down" /\ Of(done, Resets) = {}
    BY <1>1, <1>2 DEF QueueDials
  <2>4. Once(done', Diallers)
    BY <1>1, <2>1, <2>2, <2>3, OfAppended DEF QueueDials
  <2>5. Once(done', Resets) /\ Of(done', Resets) = {}
    BY <1>1, <2>1, <2>2, <2>3, OfAppended DEF QueueDials
  <2> QED BY <1>2, <2>3, <2>4, <2>5, DialQueueNext DEF QueueDials
<1>3. CASE ~timer /\ timer' = FALSE /\ sock' = sock /\ done' = done
  BY <1>1, <1>3, DialQueueNext DEF QueueDials
<1>4. CASE Destroyed
  <2>1. done' = done /\ done = <<>> /\ timer' = timer /\ ~timer
    BY <1>4 DEF Destroyed, Idle
  <2>2. Of(done, Diallers) = {} /\ Of(done, Resets) = {}
    BY <2>1 DEF Of
  <2> QED BY <1>1, <2>1, <2>2, DialQueueNext DEF QueueDials
<1> QED BY <1>1, <1>2, <1>3, <1>4 DEF TimerFires, PrepareShutdown

LEMMA PacketSentDials ==
  ASSUME TypeInv, DialInv, NEW i \in 1 .. Runners, OnPacketSent(i)
  PROVE  DialInv'
<1> DEFINE rest == RemoveAt(done, i)
<1>1. /\ i \in DOMAIN done /\ done \in Seq(Handlers) /\ done[i] \in Handlers
      /\ done[i].h = "sent" /\ QueueDials(done, timer, sock, peer)
      /\ UNCHANGED <<timer, peer>> /\ writes \in Seq(Ops) /\ reads \in Seq(Ops)
  BY DialQueue DEF OnPacketSent, Runs, TypeInv, TypeOK, serverVars
<1>2. done[i] \notin Diallers
  BY <1>1 DEF Diallers
<1>3. /\ rest \in Seq(Handlers) /\ Once(rest, Diallers) /\ Once(rest, Resets)
      /\ Of(rest, Diallers) = Of(done, Diallers)
      /\ Of(rest, Resets) = IF done[i] \in Resets THEN {} ELSE Of(done, Resets)
  BY <1>1, <1>2, QuietRemoved DEF QueueDials
<1>4. CASE done[i].err = "reset"
  <2>1. done[i] \in Resets
    BY <1>1, <1>4 DEF Resets
  <2>2. Of(done, Resets) # {}
    BY <1>1, <2>1, OfMember
  <2>3. sock = "up" /\ ~timer /\ Of(done, Diallers) = {}
    BY <1>1, <2>2 DEF QueueDials, TypeInv, TypeOK
  <2>4. sock' = "connecting" /\ done' = rest \o Failed(writes) \o Failed(reads) \o <<>>
    BY <1>4, <2>3 DEF OnPacketSent
  <2> HIDE DEF rest
  <2> DEFINE a == rest \o Failed(writes)  b == a \o Failed(reads)
  <2>5. /\ a \in Seq(Handlers) /\ Once(a, Diallers) /\ Of(a, Diallers) = {}
        /\ Once(a, Resets) /\ Of(a, Resets) = {}
    BY <1>1, <1>3, <2>1, <2>3, QuietJoined
  <2>6. done' = b \o <<>>
    BY <2>4
  <2> HIDE DEF a
  <2>7. /\ b \in Seq(Handlers) /\ Once(b, Diallers) /\ Of(b, Diallers) = {}
        /\ Once(b, Resets) /\ Of(b, Resets) = {}
    BY <1>1, <2>5, QuietJoined
  <2> HIDE DEF b
  <2>8. done' = b
    BY <2>6, <2>7, ConcatEmptySeq
  <2> QED BY <1>1, <2>3, <2>4, <2>7, <2>8, DialQueueNext DEF QueueDials
<1>5. CASE done[i].err # "reset"
  <2>1. done[i] \notin Resets
    BY <1>5 DEF Resets
  <2>2. /\ sock' = sock
        /\ \/ done' = rest
           \/ done' = Append(rest, Ended(ReadHeader, "other"))
    BY <1>5 DEF OnPacketSent, StartRead
  <2> HIDE DEF rest
  <2>3. LET r == Append(rest, Ended(ReadHeader, "other"))
        IN  /\ Once(r, Diallers) /\ Of(r, Diallers) = Of(rest, Diallers)
            /\ Once(r, Resets) /\ Of(r, Resets) = Of(rest, Resets)
    <3>1. ReadHeader \in Ops /\ ReadHeader.h # "sent" /\ "other" \in Errors
      BY ReadHeaderType DEF Errors
    <3> QED BY <1>3, <3>1, QuietEnded
  <2>4. /\ Once(done', Diallers) /\ Of(done', Diallers) = Of(done, Diallers)
        /\ Once(done', Resets) /\ Of(done', Resets) = Of(done, Resets)
    BY <1>3, <2>1, <2>2, <2>3
  <2> QED BY <1>1, <2>2, <2>4, DialQueueNext DEF QueueDials
<1> QED BY <1>4, <1>5

LEMMA ResponsesDial ==
  ASSUME TypeInv, DialInv, NEW i \in 1 .. Runners, OnHeaderRead(i) \/ OnPacketRead(i)
  PROVE  DialInv'
<1> DEFINE rest == RemoveAt(done, i)  op == Op("packet", None, head)
<1>1. /\ i \in DOMAIN done /\ done \in Seq(Handlers) /\ done[i] \in Handlers
      /\ done[i].h \in {"header", "packet"} /\ QueueDials(done, timer, sock, peer)
      /\ UNCHANGED <<timer, peer, sock>>
  BY DialQueue DEF OnHeaderRead, OnPacketRead, Runs, TypeInv, TypeOK, serverVars
<1>2. done[i] \notin Diallers /\ done[i] \notin Resets
  BY <1>1 DEF Diallers, Resets
<1>3. /\ rest \in Seq(Handlers) /\ Once(rest, Diallers) /\ Once(rest, Resets)
      /\ Of(rest, Diallers) = Of(done, Diallers)
      /\ Of(rest, Resets) = Of(done, Resets)
  BY <1>1, <1>2, QuietRemoved DEF QueueDials
<1>4. done' = rest \/ done' = Append(rest, Ended(op, "other"))
  BY DEF OnHeaderRead, OnPacketRead, StartRead
<1>5. op \in Ops /\ op.h # "sent" /\ "other" \in Errors
  <2>1. head \in Nat /\ head <= MaxFrame
    BY MaxFrameBounds DEF TypeInv, TypeOK
  <2> QED BY <2>1, PacketType DEF Errors
<1> HIDE DEF rest, op
<1>6. LET r == Append(rest, Ended(op, "other"))
      IN  /\ Once(r, Diallers) /\ Of(r, Diallers) = Of(rest, Diallers)
          /\ Once(r, Resets) /\ Of(r, Resets) = Of(rest, Resets)
  BY <1>3, <1>5, QuietEnded
<1>7. /\ Once(done', Diallers) /\ Of(done', Diallers) = Of(done, Diallers)
      /\ Once(done', Resets) /\ Of(done', Resets) = Of(done, Resets)
  BY <1>3, <1>4, <1>6
<1> QED BY <1>1, <1>7, DialQueueNext DEF QueueDials

LEMMA ServerDials ==
  ASSUME TypeInv, DialInv,
         Server \/ ServerReturns \/ (\E end \in {"closed", "reset"} : ServerDies(end))
  PROVE  DialInv'
<1>1. UNCHANGED <<done, timer, sock>> /\ (peer = "pipe" => peer' = "pipe")
  BY DEF Server, ServerReadsHeader, ServerReadsPacket, ServerWrites, ServerReturns, ServerDies,
         clientVars
<1>2. QueueDials(done, timer, sock, peer)
  BY DialQueue
<1> QED BY <1>1, <1>2, DialQueueNext DEF QueueDials

LEMMA InitDials ==
  ASSUME Init
  PROVE  DialInv
<1>1. done = <<>> /\ timer = FALSE
  BY DEF Init
<1>2. Of(done, Diallers) = {} /\ Of(done, Resets) = {} /\ Once(done, Diallers)
      /\ Once(done, Resets)
  BY <1>1 DEF Of, Once
<1> QED BY <1>1, <1>2 DEF DialInv

LEMMA StepDials ==
  ASSUME TypeInv, DialInv, [Next]_vars
  PROVE  DialInv'
<1>1. ASSUME NEW i \in 1 .. Runners, Run(i) PROVE DialInv'
  BY <1>1, OnConnectDials, ReportDials, RetryDials, PacketSentDials, ResponsesDial DEF Run
<1>2. CASE Kernel
  BY <1>2, TimersDials, ConnectsDials, TransferDials DEF Kernel
<1>3. CASE TimerFires \/ PrepareShutdown
  BY <1>3, TimersDials
<1>4. CASE Server \/ ServerReturns \/ (\E end \in {"closed", "reset"} : ServerDies(end))
  BY <1>4, ServerDials
<1>5. ASSUME NEW kind \in {"message", "request"}, Send(kind) PROVE DialInv'
  BY <1>5, SendDials
<1>6. CASE UNCHANGED vars
  <2>1. UNCHANGED <<done, timer, sock, peer>>
    BY <1>6 DEF vars, clientVars, serverVars
  <2> QED BY <2>1, DialQueue, DialQueueNext
<1> QED BY <1>1, <1>2, <1>3, <1>4, <1>5, <1>6 DEF Next

LEMMA DialsOnce ==
  ASSUME TypeInv, DialInv
  PROVE  OneDial
<1> DEFINE I == {i \in DOMAIN done :
                    \/ done[i].h = "retry"
                    \/ done[i].h \in {"connected", "report"} /\ done[i].err # "ok"}
<1>1. \A i \in DOMAIN done : done[i] \in Handlers
  BY DEF TypeInv, TypeOK
<1>2. \A i \in DOMAIN done : i \in I <=> done[i] \in Diallers
  BY <1>1 DEF Diallers
<1>3. I \subseteq DOMAIN done
  OBVIOUS
<1>4. Attempts = (IF sock = "connecting" THEN 1 ELSE 0) + (IF timer THEN 1 ELSE 0)
                 + Cardinality(I)
  BY DEF Attempts
<1> HIDE DEF I
<1>5. CASE I = {}
  <2>1. Cardinality(I) = 0
    BY <1>5, FS_EmptySet
  <2> QED BY <1>4, <2>1 DEF OneDial, DialInv
<1>6. CASE I # {}
  <2>1. PICK i \in DOMAIN done : i \in I
    BY <1>3, <1>6
  <2>2. \A j \in I : j = i
    BY <1>2, <1>3, <2>1 DEF DialInv, Once
  <2>3. I = {i}
    BY <2>1, <2>2
  <2>4. Cardinality(I) = 1
    BY <2>3, FS_Singleton
  <2>5. Of(done, Diallers) # {}
    BY <1>2, <2>1, OfMember
  <2> QED BY <1>4, <2>4, <2>5 DEF OneDial, DialInv
<1> QED BY <1>5, <1>6

\* The client never has two attempts to connect on the way, and none while it is
\* connected, however its threads, the timer, a reset and prepare_shutdown interleave
\* (on_connect, on_packet_sent, do_connect, prepare_shutdown).
THEOREM DialsOneAtATime == Spec => []OneDial
<1>1. TypeInv /\ DialInv => OneDial
  BY DialsOnce
<1>2. Init => TypeInv /\ DialInv
  BY InitType, InitDials
<1>3. TypeInv /\ DialInv /\ [Next]_vars => TypeInv' /\ DialInv'
  BY StepType, StepDials
<1> QED BY <1>1, <1>2, <1>3, PTL DEF Spec
=============================================================================
