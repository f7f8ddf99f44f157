--------------------------- MODULE NodeChainProofs ---------------------------
(***************************************************************************)
(* A proof about the chains of generate() calls of a node, for any threads,*)
(* connections, components and bounds: every one of them was begun by a    *)
(* call of start().                                                        *)
(***************************************************************************)
EXTENDS NodeProofs

USE NodeAssumption DEF NodeAssumption

-----------------------------------------------------------------------------
(* The chains of one generator as numbers *)

Calls(r, c) == {GenerateHandler(r, c)}
Posted(q, r, c) == Count(q, Calls(r, c))

\* The inductive invariant.  A set of threads has a number only if it is finite.
Few(r, c) ==
    /\ IsFiniteSet(Inside(r, c))
    /\ Posted(ready, r, c) + Cardinality(Inside(r, c)) + One(timer[r][c]) <= begun[r][c]
ChainInv == \A r \in Routers, c \in Comps : Few(r, c)

LEMMA ChainNumbers ==
  ASSUME TypeOK, NEW r \in Routers, NEW c \in Comps, IsFiniteSet(Inside(r, c))
  PROVE  /\ Posted(ready, r, c) \in Nat /\ Cardinality(Inside(r, c)) \in Nat
         /\ One(timer[r][c]) \in Nat /\ begun[r][c] \in Nat
<1>1. ready \in Seq(Handlers) /\ begun \in PerObject(Nat)
  BY DEF TypeOK
<1>2. Posted(ready, r, c) \in Nat
  BY <1>1, PlacesFinite DEF Posted
<1>3. begun[r][c] \in Nat
  BY <1>1, ObjectAt
<1>4. One(timer[r][c]) \in Nat
  BY DEF One
<1> QED BY <1>2, <1>3, <1>4, FS_CardinalityType

\* Handlers of another kind, or of another generator
LEMMA OtherCalls ==
  ASSUME NEW r \in Routers, NEW c \in Comps
  PROVE  /\ \A h : h.op # "generate" => h \notin Calls(r, c)
         /\ \A q \in Routers, d \in Comps :
                GenerateHandler(q, d) \in Calls(r, c) <=> q = r /\ d = c
         /\ \A q, d : RouteHandler(q, d) \notin Calls(r, c)
BY DEF Calls, GenerateHandler, RouteHandler

\* A change of the queue that posts and takes no generate()
Still(q, p) == \A r \in Routers, c \in Comps : Posted(p, r, c) = Posted(q, r, c)

LEMMA StillTail ==
  ASSUME NEW q \in Seq(Handlers), q # <<>>, Head(q).op # "generate"
  PROVE  Still(q, Tail(q))
<1> SUFFICES ASSUME NEW r \in Routers, NEW c \in Comps
             PROVE  Posted(Tail(q), r, c) = Posted(q, r, c)
  BY DEF Still
<1>1. Head(q) \notin Calls(r, c)
  BY OtherCalls
<1>2. Tail(q) \in Seq(Handlers)
  BY HeadTailProperties
<1>3. \A X : Count(Tail(q), X) \in Nat
  BY <1>2, PlacesFinite
<1>4. \A X : Count(q, X) = One(Head(q) \in X) + Count(Tail(q), X)
  BY CountTail
<1> QED BY <1>1, <1>3, <1>4 DEF One, Posted

LEMMA StillAppend ==
  ASSUME NEW q \in Seq(Handlers), NEW h \in Handlers, h.op # "generate"
  PROVE  Still(q, Append(q, h))
<1> SUFFICES ASSUME NEW r \in Routers, NEW c \in Comps
             PROVE  Posted(Append(q, h), r, c) = Posted(q, r, c)
  BY DEF Still
<1>1. h \notin Calls(r, c)
  BY OtherCalls
<1>2. \A X : Count(q, X) \in Nat
  BY PlacesFinite
<1>3. \A X : Count(Append(q, h), X) = Count(q, X) + One(h \in X)
  BY CountAppend
<1> QED BY <1>1, <1>2, <1>3 DEF One, Posted

LEMMA StillItself == \A q : Still(q, q)
BY DEF Still

LEMMA StillTwice == \A q, p, o : Still(q, p) /\ Still(p, o) => Still(q, o)
BY DEF Still

\* One more handler of a generator
LEMMA PostedCall ==
  ASSUME NEW q \in Seq(Handlers), NEW r \in Routers, NEW c \in Comps,
         NEW s \in Routers, NEW d \in Comps
  PROVE  Posted(Append(q, GenerateHandler(r, c)), s, d)
             = Posted(q, s, d) + One(r = s /\ c = d)
<1>1. PICK h \in Handlers : h = GenerateHandler(r, c)
  BY GenerateHandlers
<1>2. \A X : Count(Append(q, h), X) = Count(q, X) + One(h \in X)
  BY CountAppend
<1>3. h \in Calls(s, d) <=> r = s /\ c = d
  BY <1>1, OtherCalls
<1> QED BY <1>1, <1>2, <1>3 DEF Posted, One

\* generate() posts itself, or the handler of the wait it cancels, at most.
LEMMA PostedByGenerate ==
  ASSUME TypeOK, NEW r \in Routers, NEW c \in Comps, NEW s \in Routers, NEW d \in Comps
  PROVE  /\ Posted(GeneratePosts(r, c), s, d) \in Nat
         /\ ~(r = s /\ c = d) => Posted(GeneratePosts(r, c), s, d) = 0
         /\ Kind[c] = "generator" => Posted(GeneratePosts(r, c), s, d) <= 1
         /\ Kind[c] # "generator" => Posted(GeneratePosts(r, c), s, d) <= One(timer[r][c])
<1>1. PICK a : a = IF Emits(r, c) THEN <<RouteHandler(r, c)>> ELSE <<>>
  OBVIOUS
<1>2. PICK b : b = NextGenerate(r, c)
  OBVIOUS
<1>3. a \in Seq(Handlers) /\ b \in Seq(Handlers) /\ GeneratePosts(r, c) = a \o b
  BY <1>1, <1>2, GenerateHandlers, EmptySeq DEF NextGenerate, GeneratePosts
<1>4. \A X : Count(a \o b, X) = Count(a, X) + Count(b, X)
  BY <1>3, CountConcat
<1>5. Count(a, Calls(s, d)) = 0
  <2>1. CASE Emits(r, c)
    BY <1>1, <2>1, CountOne, OtherCalls DEF One
  <2>2. CASE ~Emits(r, c)
    BY <1>1, <2>2, CountNone
  <2> QED BY <2>1, <2>2
<1>6. Count(<<GenerateHandler(r, c)>>, Calls(s, d)) = One(r = s /\ c = d)
  BY CountOne, OtherCalls DEF One
<1>7. /\ Count(b, Calls(s, d)) \in 0 .. 1
      /\ ~(r = s /\ c = d) => Count(b, Calls(s, d)) = 0
      /\ Kind[c] # "generator" => Count(b, Calls(s, d)) <= One(timer[r][c])
  <2>1. CASE b = <<GenerateHandler(r, c)>>
    <3>1. Kind[c] # "generator" => timer[r][c]
      BY <1>2, <2>1 DEF NextGenerate
    <3> QED BY <1>6, <2>1, <3>1 DEF One
  <2>2. CASE b = <<>>
    BY <2>2, CountNone DEF One
  <2> QED BY <1>2, <2>1, <2>2 DEF NextGenerate
<1>8. Posted(GeneratePosts(r, c), s, d) = Count(b, Calls(s, d))
  BY <1>3, <1>4, <1>5, <1>7 DEF Posted
<1> QED BY <1>7, <1>8

\* What generate() leaves of its chain, whoever called it: the handlers it posts and
\* the wait it arms are one more than before, at most.
LEMMA GenerateLeaves ==
  ASSUME TypeOK, NEW r \in Routers, NEW c \in Comps,
         GenerateEffect(r, c, ready), NEW s \in Routers, NEW d \in Comps
  PROVE  /\ Posted(ready', s, d) \in Nat
         /\ Posted(ready', s, d) + One(timer'[s][d])
              <= Posted(ready, s, d) + One(timer[s][d]) + One(r = s /\ c = d)
<1>1. ready \in Seq(Handlers) /\ timer \in PerObject(BOOLEAN)
  BY DEF TypeOK
<1>2. PICK p \in Seq(Handlers) : p = GeneratePosts(r, c)
  BY GeneratePostsType
<1>3. ready' = ready \o p
  BY <1>2 DEF GenerateEffect
<1>4. \A X : Count(ready \o p, X) = Count(ready, X) + Count(p, X)
  BY <1>1, CountConcat
<1>5. PICK n \in Nat : n = Posted(ready, s, d)
  BY <1>1, PlacesFinite DEF Posted
<1>6. PICK m \in Nat : /\ m = Posted(p, s, d)
                       /\ ~(r = s /\ c = d) => m = 0
                       /\ Kind[c] = "generator" => m <= 1
                       /\ Kind[c] # "generator" => m <= One(timer[r][c])
  BY <1>2, PostedByGenerate
<1>7. Posted(ready', s, d) = n + m
  BY <1>3, <1>4, <1>5, <1>6 DEF Posted
<1>8. CASE ~(r = s /\ c = d)
  <2>1. timer'[s][d] = timer[s][d]
    BY <1>1, <1>8 DEF GenerateEffect, PerObject
  <2> QED BY <1>5, <1>6, <1>7, <1>8, <2>1 DEF One
<1>9. CASE r = s /\ c = d
  <2>1. timer'[r][c] = (timer[r][c] \/ Kind[c] = "timed_generator")
    BY <1>1 DEF GenerateEffect, PerObject
  <2>2. CASE Kind[c] = "generator"
    <3>0. timer[r][c] \in BOOLEAN
      BY <1>1, ObjectAt
    <3>1. timer'[s][d] = timer[s][d]
      BY <1>9, <2>1, <2>2, <3>0
    <3> QED BY <1>5, <1>6, <1>7, <1>9, <2>2, <3>1 DEF One
  <2>3. CASE Kind[c] = "timed_generator"
    <3>1. timer'[s][d] /\ Kind[c] # "generator"
      BY <1>9, <2>1, <2>3
    <3> QED BY <1>5, <1>6, <1>7, <1>9, <3>1 DEF One
  <2>4. CASE Kind[c] \notin Generators
    <3>1. timer[r][c] \in BOOLEAN
      BY <1>1, ObjectAt
    <3>2. timer'[s][d] = timer[s][d] /\ Kind[c] # "generator"
      BY <1>9, <2>1, <2>4, <3>1 DEF Generators
    <3> QED BY <1>5, <1>6, <1>7, <1>9, <3>2 DEF One
  <2> QED BY <2>2, <2>3, <2>4 DEF Generators
<1> QED BY <1>8, <1>9

-----------------------------------------------------------------------------
(* The threads inside generate() *)

LEMMA InsideSame ==
  ASSUME NEW t \in Threads, \A u \in Threads : u # t => run'[u] = run[u],
         run[t].pc # "generate", run'[t].pc # "generate", NEW r \in Routers, NEW c \in Comps
  PROVE  Inside(r, c)' = Inside(r, c)
BY DEF Inside

LEMMA InsideGrows ==
  ASSUME NEW t \in Threads, run[t].pc # "generate", NEW r \in Routers, NEW c \in Comps,
         run'[t].pc = "generate", run'[t].r = r, run'[t].c = c,
         \A u \in Threads : u # t => run'[u] = run[u],
         NEW q \in Routers, NEW d \in Comps, IsFiniteSet(Inside(q, d))
  PROVE  /\ IsFiniteSet(Inside(q, d)')
         /\ Cardinality(Inside(q, d)') = Cardinality(Inside(q, d)) + One(r = q /\ c = d)
<1>1. PICK T : T = Inside(q, d)
  OBVIOUS
<1>2. PICK k \in Nat : k = Cardinality(T) /\ IsFiniteSet(T)
  BY <1>1, FS_CardinalityType
<1>3. CASE r = q /\ c = d
  <2>1. Inside(q, d)' = T \cup {t} /\ t \notin T
    BY <1>1, <1>3 DEF Inside
  <2>2. IsFiniteSet(T \cup {t}) /\ Cardinality(T \cup {t}) = k + 1
    BY <1>2, <2>1, FS_AddElement
  <2> QED BY <1>1, <1>2, <1>3, <2>1, <2>2 DEF One
<1>4. CASE ~(r = q /\ c = d)
  <2>1. Inside(q, d)' = T
    BY <1>1, <1>4 DEF Inside
  <2> QED BY <1>1, <1>2, <1>4, <2>1 DEF One
<1> QED BY <1>3, <1>4

LEMMA InsideShrinks ==
  ASSUME NEW t \in Threads, NEW r \in Routers, NEW c \in Comps, run[t].pc = "generate",
         run[t].r = r, run[t].c = c, run'[t].pc # "generate",
         \A u \in Threads : u # t => run'[u] = run[u],
         NEW q \in Routers, NEW d \in Comps, IsFiniteSet(Inside(q, d))
  PROVE  /\ IsFiniteSet(Inside(q, d)')
         /\ Cardinality(Inside(q, d)) = Cardinality(Inside(q, d)') + One(r = q /\ c = d)
<1>1. PICK T : T = Inside(q, d)
  OBVIOUS
<1>2. PICK k \in Nat : k = Cardinality(T) /\ IsFiniteSet(T)
  BY <1>1, FS_CardinalityType
<1>3. CASE r = q /\ c = d
  <2>1. Inside(q, d)' = T \ {t} /\ t \in T
    BY <1>1, <1>3 DEF Inside
  <2>2. IsFiniteSet(T \ {t}) /\ Cardinality(T \ {t}) = k - 1
    BY <1>2, <2>1, FS_RemoveElement
  <2> QED BY <1>1, <1>2, <1>3, <2>1, <2>2 DEF One
<1>4. CASE ~(r = q /\ c = d)
  <2>1. Inside(q, d)' = T
    BY <1>1, <1>4 DEF Inside
  <2> QED BY <1>1, <1>2, <1>4, <2>1 DEF One
<1> QED BY <1>3, <1>4


-----------------------------------------------------------------------------
(* One lemma for each kind of step *)

\* Nothing happens to any chain.
LEMMA ChainQuiet ==
  ASSUME TypeOK, ChainInv, timer' = timer, begun' = begun, Still(ready, ready'),
         \A r \in Routers, c \in Comps : Inside(r, c)' = Inside(r, c)
  PROVE  ChainInv'
<1> SUFFICES ASSUME NEW r \in Routers, NEW c \in Comps PROVE Few(r, c)'
  BY DEF ChainInv
<1>1. Few(r, c) /\ Inside(r, c)' = Inside(r, c)
  BY DEF ChainInv
<1>2. Posted(ready', r, c) = Posted(ready, r, c)
  BY DEF Still
<1> QED BY <1>1, <1>2 DEF Few

\* The same, if only one thread moves.
LEMMA ChainThread ==
  ASSUME TypeOK, ChainInv, timer' = timer, begun' = begun, Still(ready, ready'),
         NEW t \in Threads, NEW f, run' = [run EXCEPT ![t] = f],
         run[t].pc # "generate", f.pc # "generate"
  PROVE  ChainInv'
<1>1. run'[t] = f /\ \A u \in Threads : u # t => run'[u] = run[u]
  BY DEF TypeOK
<1>2. \A r \in Routers, c \in Comps : Inside(r, c)' = Inside(r, c)
  BY <1>1, InsideSame
<1> QED BY <1>2, ChainQuiet

LEMMA TakesThat ==
  ASSUME TypeOK, NEW t \in Threads, NEW op, Takes(t, op)
  PROVE  /\ run[t] = Idle /\ run[t].pc = "idle" /\ ready # <<>> /\ ready \in Seq(Handlers)
         /\ Head(ready) \in Handlers /\ Head(ready).op = op /\ Tail(ready) \in Seq(Handlers)
BY HeadHandler DEF Takes, Free, Idle, TypeOK

\* The handler leaves the queue and the thread enters generate(), or does not.
LEMMA RunGenerateChains ==
  ASSUME TypeOK, ChainInv, NEW t \in Threads, RunGenerate(t) PROVE ChainInv'
<1>1. /\ run[t] = Idle /\ run[t].pc = "idle" /\ ready # <<>> /\ ready \in Seq(Handlers)
      /\ Head(ready) \in Handlers /\ Head(ready).op = "generate"
      /\ Tail(ready) \in Seq(Handlers)
  BY TakesThat DEF RunGenerate
<1>2. PICK r \in Routers, c \in Comps : r = Head(ready).r /\ c = Head(ready).c
  BY <1>1 DEF Handlers
<1>3. Head(ready) = GenerateHandler(r, c)
  BY <1>1, <1>2 DEF Handlers, GenerateHandler
<1>4. /\ ready' = Tail(ready) /\ timer' = timer /\ begun' = begun
      /\ run' = [run EXCEPT ![t] = IF genOn[r][c]
                                   THEN [Idle EXCEPT !.pc = "generate", !.r = r, !.c = c]
                                   ELSE Idle]
  BY <1>2 DEF RunGenerate, compVars, histVars
<1>5. \A u \in Threads : u # t => run'[u] = run[u]
  BY <1>4 DEF TypeOK
<1> SUFFICES ASSUME NEW q \in Routers, NEW d \in Comps PROVE Few(q, d)'
  BY DEF ChainInv
<1>7. Few(q, d)
  BY DEF ChainInv
<1>8. PICK n \in Nat, k \in Nat, w \in Nat, b \in Nat :
         /\ n = Posted(ready, q, d) /\ k = Cardinality(Inside(q, d))
         /\ w = One(timer[q][d]) /\ b = begun[q][d] /\ n + k + w <= b
         /\ IsFiniteSet(Inside(q, d))
  BY <1>7, ChainNumbers DEF Few
<1>9. PICK m \in Nat : m = Posted(ready', q, d) /\ n = One(r = q /\ c = d) + m
  <2>1. Count(ready, Calls(q, d)) = One(Head(ready) \in Calls(q, d))
                                      + Count(Tail(ready), Calls(q, d))
    BY <1>1, CountTail
  <2>2. Head(ready) \in Calls(q, d) <=> r = q /\ c = d
    BY <1>3, OtherCalls
  <2>3. Count(Tail(ready), Calls(q, d)) \in Nat
    BY <1>1, PlacesFinite
  <2> QED BY <1>4, <1>8, <2>1, <2>2, <2>3 DEF Posted, One
<1>10. IsFiniteSet(Inside(q, d)) /\ run[t].pc # "generate"
  BY <1>1, <1>8
<1>11. PICK j \in Nat : /\ j = Cardinality(Inside(q, d)') /\ IsFiniteSet(Inside(q, d)')
                        /\ j <= k + One(r = q /\ c = d)
  <2>1. CASE genOn[r][c]
    <3>1. run'[t].pc = "generate" /\ run'[t].r = r /\ run'[t].c = c
      BY <1>4, <2>1 DEF TypeOK, Idle
    <3>2. /\ IsFiniteSet(Inside(q, d)')
          /\ Cardinality(Inside(q, d)') = Cardinality(Inside(q, d)) + One(r = q /\ c = d)
      BY ONLY <1>5, <1>10, <3>1, InsideGrows, t \in Threads, r \in Routers,
              c \in Comps, q \in Routers, d \in Comps
    <3> QED BY <1>8, <3>2 DEF One
  <2>2. CASE ~genOn[r][c]
    <3>1. run'[t].pc # "generate"
      BY <1>4, <2>2 DEF TypeOK, Idle
    <3>2. Inside(q, d)' = Inside(q, d)
      BY <1>1, <1>5, <3>1, InsideSame
    <3> QED BY <1>8, <3>2 DEF One
  <2> QED BY <2>1, <2>2
<1>12. m + j + w <= b
  BY <1>8, <1>9, <1>11 DEF One
<1> QED BY <1>4, <1>8, <1>9, <1>11, <1>12 DEF Few

\* The thread leaves generate(): what it posts and arms takes its place.
LEMMA GenerateChains ==
  ASSUME TypeOK, ChainInv, NEW t \in Threads, Generate(t) PROVE ChainInv'
<1>1. run[t] \in Frames /\ run[t].pc = "generate"
  BY DEF TypeOK, Generate, At
<1>2. PICK r \in Routers, c \in Comps : r = run[t].r /\ c = run[t].c
  BY <1>1 DEF Frames, FrameShape, PacketSteps
<1>3. GenerateEffect(r, c, ready) /\ run' = [run EXCEPT ![t] = Idle] /\ begun' = begun
  BY <1>2 DEF Generate
<1>4. run'[t].pc # "generate" /\ \A u \in Threads : u # t => run'[u] = run[u]
  BY <1>3 DEF TypeOK, Idle
<1> SUFFICES ASSUME NEW q \in Routers, NEW d \in Comps PROVE Few(q, d)'
  BY DEF ChainInv
<1>5. Few(q, d)
  BY DEF ChainInv
<1>6. PICK n \in Nat, k \in Nat, w \in Nat, b \in Nat :
         /\ n = Posted(ready, q, d) /\ k = Cardinality(Inside(q, d))
         /\ w = One(timer[q][d]) /\ b = begun[q][d] /\ n + k + w <= b
         /\ IsFiniteSet(Inside(q, d))
  BY <1>5, ChainNumbers DEF Few
<1>7. PICK m \in Nat, v \in Nat :
         m = Posted(ready', q, d) /\ v = One(timer'[q][d])
         /\ m + v <= n + w + One(r = q /\ c = d)
  <2>1. /\ Posted(ready', q, d) \in Nat
        /\ Posted(ready', q, d) + One(timer'[q][d])
             <= Posted(ready, q, d) + One(timer[q][d]) + One(r = q /\ c = d)
    <3>1. GenerateEffect(r, c, ready)
      BY <1>3
    <3> QED BY ONLY <3>1, TypeOK, GenerateLeaves, r \in Routers, c \in Comps,
                    q \in Routers, d \in Comps
  <2>2. One(timer'[q][d]) \in Nat
    BY DEF One
  <2> QED BY <1>6, <2>1, <2>2
<1>8. /\ IsFiniteSet(Inside(q, d)')
      /\ Cardinality(Inside(q, d)) = Cardinality(Inside(q, d)') + One(r = q /\ c = d)
  <2>1. run[t].pc = "generate" /\ run[t].r = r /\ run[t].c = c /\ run'[t].pc # "generate"
    BY <1>1, <1>2, <1>4
  <2>2. IsFiniteSet(Inside(q, d)) /\ \A u \in Threads : u # t => run'[u] = run[u]
    BY <1>4, <1>6
  <2> QED BY ONLY <2>1, <2>2, InsideShrinks, t \in Threads, r \in Routers, c \in Comps,
                  q \in Routers, d \in Comps
<1>9. PICK j \in Nat : j = Cardinality(Inside(q, d)') /\ k = j + One(r = q /\ c = d)
  BY <1>6, <1>8, FS_CardinalityType
<1>10. m + j + v <= b
  BY <1>6, <1>7, <1>9 DEF One
<1> QED BY <1>3, <1>6, <1>7, <1>8, <1>9, <1>10 DEF Few

\* A wait becomes a handler: it expired or was cancelled.
LEMMA WaitPosted ==
  ASSUME TypeOK, NEW r \in Routers, NEW c \in Comps, NEW s \in Routers, NEW d \in Comps,
         timer' = [timer EXCEPT ![r][c] = FALSE],
         ready' = IF timer[r][c] THEN Append(ready, GenerateHandler(r, c)) ELSE ready
  PROVE  Posted(ready', s, d) + One(timer'[s][d]) = Posted(ready, s, d) + One(timer[s][d])
<1>1. ready \in Seq(Handlers) /\ timer \in PerObject(BOOLEAN)
  BY DEF TypeOK
<1>2. PICK n \in Nat : n = Posted(ready, s, d)
  BY <1>1, PlacesFinite DEF Posted
<1>3. Posted(Append(ready, GenerateHandler(r, c)), s, d) = n + One(r = s /\ c = d)
  BY <1>1, <1>2, PostedCall
<1>4. timer'[s][d] = IF r = s /\ c = d THEN FALSE ELSE timer[s][d]
  BY <1>1 DEF PerObject
<1>5. CASE timer[r][c]
  <2>1. Posted(ready', s, d) = n + One(r = s /\ c = d)
    BY <1>3, <1>5
  <2>2. CASE r = s /\ c = d
    <3>1. One(r = s /\ c = d) = 1 /\ One(timer[s][d]) = 1 /\ One(timer'[s][d]) = 0
      BY <1>4, <1>5, <2>2 DEF One
    <3>2. Posted(ready', s, d) = n + 1
      BY <2>1, <3>1
    <3> QED BY ONLY <1>2, <3>1, <3>2
  <2>3. CASE ~(r = s /\ c = d)
    <3>1. One(r = s /\ c = d) = 0 /\ One(timer'[s][d]) = One(timer[s][d])
      BY <1>4, <2>3 DEF One
    <3>2. Posted(ready', s, d) = n
      BY <1>2, <2>1, <3>1
    <3> QED BY ONLY <1>2, <3>1, <3>2
  <2> QED BY <2>2, <2>3
<1>6. CASE ~timer[r][c]
  <2>1. Posted(ready', s, d) = n
    BY <1>2, <1>6
  <2>2. r = s /\ c = d => ~timer[s][d]
    BY <1>6
  <2> QED BY <1>2, <1>4, <2>1, <2>2 DEF One
<1> QED BY <1>5, <1>6

\* The queue and the waits have no more of any chain than before but for one that a
\* call of start() begins.
LEMMA ChainPosts ==
  ASSUME TypeOK, TypeOK', ChainInv, \A r \in Routers, c \in Comps : Inside(r, c)' = Inside(r, c),
         \A r \in Routers, c \in Comps :
             begun[r][c] + Posted(ready', r, c) + One(timer'[r][c])
               <= begun'[r][c] + Posted(ready, r, c) + One(timer[r][c])
  PROVE  ChainInv'
<1> SUFFICES ASSUME NEW q \in Routers, NEW d \in Comps PROVE Few(q, d)'
  BY DEF ChainInv
<1>1. Few(q, d) /\ Inside(q, d)' = Inside(q, d)
  BY DEF ChainInv
<1>2. PICK n \in Nat, k \in Nat, w \in Nat, b \in Nat :
         /\ n = Posted(ready, q, d) /\ k = Cardinality(Inside(q, d))
         /\ w = One(timer[q][d]) /\ b = begun[q][d] /\ n + k + w <= b
         /\ IsFiniteSet(Inside(q, d))
  BY <1>1, ChainNumbers DEF Few
<1>3. ready' \in Seq(Handlers) /\ begun' \in PerObject(Nat)
  BY DEF TypeOK
<1>4. PICK m \in Nat, v \in Nat, e \in Nat :
         m = Posted(ready', q, d) /\ v = One(timer'[q][d]) /\ e = begun'[q][d]
  BY <1>3, PlacesFinite, ObjectAt DEF Posted, One
<1>5. b + m + v <= e + n + w
  BY <1>2, <1>4
<1>6. m + k + v <= e
  BY <1>2, <1>4, <1>5
<1> QED BY <1>1, <1>2, <1>4, <1>6 DEF Few

LEMMA TimerFiresChains ==
  ASSUME TypeOK, TypeOK', ChainInv, NEW r \in Routers, NEW c \in Comps, TimerFires(r, c)
  PROVE  ChainInv'
<1>1. /\ timer' = [timer EXCEPT ![r][c] = FALSE] /\ timer[r][c]
      /\ ready' = IF timer[r][c] THEN Append(ready, GenerateHandler(r, c)) ELSE ready
      /\ run' = run /\ begun' = begun
  BY DEF TimerFires, histVars
<1>2. \A q \in Routers, d \in Comps : Inside(q, d)' = Inside(q, d)
  BY <1>1 DEF Inside
<1>3. ASSUME NEW q \in Routers, NEW d \in Comps
      PROVE  begun[q][d] + Posted(ready', q, d) + One(timer'[q][d])
               <= begun'[q][d] + Posted(ready, q, d) + One(timer[q][d])
  <2>1. Posted(ready', q, d) + One(timer'[q][d]) = Posted(ready, q, d) + One(timer[q][d])
    <3>1. timer' = [timer EXCEPT ![r][c] = FALSE]
      BY <1>1
    <3>2. ready' = IF timer[r][c] THEN Append(ready, GenerateHandler(r, c)) ELSE ready
      BY <1>1
    <3> QED BY ONLY <3>1, <3>2, TypeOK, WaitPosted, r \in Routers, c \in Comps,
                    q \in Routers, d \in Comps
  <2>2. begun \in PerObject(Nat) /\ ready \in Seq(Handlers) /\ ready' \in Seq(Handlers)
    BY DEF TypeOK
  <2>3. PICK b \in Nat, n \in Nat, m \in Nat, w \in Nat, v \in Nat :
           /\ b = begun[q][d] /\ n = Posted(ready, q, d) /\ m = Posted(ready', q, d)
           /\ w = One(timer[q][d]) /\ v = One(timer'[q][d])
    BY <2>2, PlacesFinite, ObjectAt DEF Posted, One
  <2>4. m + v = n + w /\ begun' = begun
    BY <1>1, <2>1, <2>3
  <2> QED BY <2>3, <2>4
<1> QED BY <1>2, <1>3, ChainPosts

\* One turn of the loop of start() or stop()
LEMMA SweepOneChains ==
  ASSUME TypeOK, TypeOK', ChainInv, NEW t \in Threads, SweepOne(t) PROVE ChainInv'
<1>0. ready \in Seq(Handlers) /\ ready' \in Seq(Handlers) /\ begun \in PerObject(Nat)
      /\ run[t] \in Frames
  BY DEF TypeOK
<1>1. run[t].pc = "sweep" /\ run[t].todo # {}
  BY DEF SweepOne, At
<1>2. PICK r \in Routers, S \in SUBSET Comps : r = run[t].r /\ S = run[t].todo
  BY <1>0 DEF Frames, FrameShape
<1>3. PICK c \in Comps : c = First(S)
  BY <1>1, <1>2, FirstIn
<1>4. run'[t].pc = "sweep" /\ \A u \in Threads : u # t => run'[u] = run[u]
  BY <1>0, <1>1 DEF SweepOne, TypeOK, Frames, FrameShape
<1>5. \A q \in Routers, d \in Comps : Inside(q, d)' = Inside(q, d)
  BY <1>1, <1>4, InsideSame
<1>6. begun' = IF run[t].on THEN [begun EXCEPT ![r][c] = @ + 1] ELSE begun
  BY <1>2, <1>3 DEF SweepOne
<1>7. ASSUME NEW q \in Routers, NEW d \in Comps
      PROVE  begun[q][d] + Posted(ready', q, d) + One(timer'[q][d])
               <= begun'[q][d] + Posted(ready, q, d) + One(timer[q][d])
  <2>1. PICK b \in Nat, n \in Nat, m \in Nat, w \in Nat, v \in Nat :
           /\ b = begun[q][d] /\ n = Posted(ready, q, d) /\ m = Posted(ready', q, d)
           /\ w = One(timer[q][d]) /\ v = One(timer'[q][d])
    BY <1>0, PlacesFinite, ObjectAt DEF Posted, One
  <2>2. CASE run[t].on /\ Kind[c] \in Generators
    <3>1. GenerateEffect(r, c, ready)
      BY <1>2, <1>3, <2>2 DEF SweepOne, StartComponent
    <3>2. Posted(ready', q, d) + One(timer'[q][d])
            <= Posted(ready, q, d) + One(timer[q][d]) + One(r = q /\ c = d)
      BY ONLY <3>1, TypeOK, GenerateLeaves, r \in Routers, c \in Comps,
              q \in Routers, d \in Comps
    <3>3. begun'[q][d] = b + One(r = q /\ c = d)
      BY <1>0, <1>6, <2>1, <2>2 DEF PerObject, One
    <3>4. PICK o \in Nat : o = One(r = q /\ c = d)
      BY DEF One
    <3>5. m + v <= n + w + o
      BY <2>1, <3>2, <3>4
    <3> QED BY <2>1, <3>3, <3>4, <3>5
  <2>3. CASE run[t].on /\ Kind[c] \notin Generators
    <3>1. ready' = ready /\ timer' = timer
      BY <1>2, <1>3, <2>3 DEF SweepOne, StartComponent
    <3>2. begun'[q][d] = b + One(r = q /\ c = d)
      BY <1>0, <1>6, <2>1, <2>3 DEF PerObject, One
    <3>3. m = n /\ v = w
      BY <2>1, <3>1
    <3> QED BY <2>1, <3>2, <3>3 DEF One
  <2>4. CASE ~run[t].on
    <3>1. /\ ready' = (IF timer[r][c] THEN Append(ready, GenerateHandler(r, c)) ELSE ready)
          /\ timer' = [timer EXCEPT ![r][c] = FALSE]
      BY <1>2, <1>3, <2>4 DEF SweepOne, StopComponent
    <3>2. Posted(ready', q, d) + One(timer'[q][d]) = Posted(ready, q, d) + One(timer[q][d])
      BY ONLY <3>1, TypeOK, WaitPosted, r \in Routers, c \in Comps,
              q \in Routers, d \in Comps
    <3>3. m + v = n + w /\ begun' = begun
      BY <1>6, <2>1, <2>4, <3>2
    <3> QED BY <2>1, <3>3
  <2> QED BY <2>2, <2>3, <2>4
<1> QED BY <1>5, <1>7, ChainPosts

-----------------------------------------------------------------------------
(* Steps that leave every chain alone *)

LEMMA IdleInside == Idle.pc = "idle"
BY DEF Idle

\* Handlers of packets, put behind the queue
LEMMA StillConcat ==
  ASSUME NEW q \in Seq(Handlers), NEW p \in Seq(Handlers),
         \A i \in DOMAIN p : p[i].op # "generate"
  PROVE  Still(q, q \o p)
<1> SUFFICES ASSUME NEW r \in Routers, NEW c \in Comps
             PROVE  Posted(q \o p, r, c) = Posted(q, r, c)
  BY DEF Still
<1>1. \A i \in DOMAIN p : p[i] \notin Calls(r, c)
  BY OtherCalls
<1>2. Count(p, Calls(r, c)) = 0
  BY <1>1, CountZero
<1>3. Count(q, Calls(r, c)) \in Nat
  BY PlacesFinite
<1>4. \A X : Count(q \o p, X) = Count(q, X) + Count(p, X)
  BY CountConcat
<1> QED BY <1>2, <1>3, <1>4 DEF Posted

\* do_route posts no generate().
LEMMA LocalPostsProcess ==
  ASSUME TypeOK, NEW r \in Routers, NEW c \in Comps
  PROVE  \A i \in DOMAIN LocalPosts(r, c) : LocalPosts(r, c)[i].op # "generate"
<1> DEFINE A == Processes(r, conf[r].local[c][0])
           B == Processes(r, conf[r].local[c][1])
<1>1. conf[r] \in ConfigShape
  BY NoConfigShape DEF TypeOK
<1>2. \A p \in OutPorts : conf[r].local[c][p] \in Seq(Dest)
  BY <1>1 DEF ConfigShape
<1>3. 0 \in OutPorts /\ 1 \in OutPorts
  BY DEF OutPorts
<1>4. /\ \A i \in DOMAIN A : A[i].op # "generate"
      /\ \A i \in DOMAIN B : B[i].op # "generate"
  BY DEF Processes
<1>5. A \in Seq(Handlers) /\ B \in Seq(Handlers)
  BY <1>2, <1>3, ProcessesType
<1>6. LocalPosts(r, c) \in {A, A \o B}
  BY DEF LocalPosts
<1> HIDE DEF A, B
<1>7. \A i \in DOMAIN (A \o B) : (A \o B)[i].op # "generate"
  BY <1>4, <1>5, ConcatProperties, LenProperties
<1> QED BY <1>4, <1>6, <1>7

LEMMA RunProcessChains ==
  ASSUME TypeOK, ChainInv, NEW t \in Threads, RunProcess(t) PROVE ChainInv'
<1>1. /\ ready # <<>> /\ ready \in Seq(Handlers) /\ Head(ready) \in Handlers
      /\ Head(ready).op = "process" /\ Tail(ready) \in Seq(Handlers)
  BY TakesThat DEF RunProcess
<1>2. PICK q : q = Tail(ready)
  OBVIOUS
<1>3. Still(ready, q) /\ q \in Seq(Handlers)
  BY <1>1, <1>2, StillTail
<1>4. PICK h : h = RouteHandler(Head(ready).r, Head(ready).c)
  OBVIOUS
<1>5. h \in Handlers /\ h.op # "generate"
  BY <1>1, <1>4 DEF Handlers, RouteHandler
<1>6. ready' = Append(q, h) \/ ready' = q
  BY <1>2, <1>4 DEF RunProcess
<1>7. Still(q, Append(q, h))
  BY <1>3, <1>5, StillAppend
<1>8. Still(ready, ready')
  BY <1>3, <1>6, <1>7, StillTwice
<1>9. run' = run /\ timer' = timer /\ begun' = begun
  BY DEF RunProcess
<1>10. \A r \in Routers, c \in Comps : Inside(r, c)' = Inside(r, c)
  BY <1>9 DEF Inside
<1> QED BY <1>8, <1>9, <1>10, ChainQuiet

LEMMA RunRouteChains ==
  ASSUME TypeOK, ChainInv, NEW t \in Threads, RunRoute(t) PROVE ChainInv'
<1>1. /\ run[t] = Idle /\ run[t].pc = "idle" /\ ready # <<>> /\ ready \in Seq(Handlers)
      /\ Head(ready).op = "route" /\ Head(ready) \in Handlers
  BY TakesThat DEF RunRoute
<1>2. Still(ready, Tail(ready))
  BY <1>1, StillTail
<1> DEFINE f == IF started[Head(ready).r]
                THEN [Idle EXCEPT !.pc = "route", !.r = Head(ready).r, !.c = Head(ready).c,
                                  !.own = {Head(ready).r}]
                ELSE Idle
<1>3. run' = [run EXCEPT ![t] = f]
  BY <1>1 DEF RunRoute, TypeOK
<1>4. f.pc # "generate" /\ run[t].pc # "generate"
  BY <1>1 DEF Idle
<1>5. ready' = Tail(ready) /\ timer' = timer /\ begun' = begun
  BY DEF RunRoute, compVars
<1> HIDE DEF f
<1> QED BY <1>2, <1>3, <1>4, <1>5, ChainThread

LEMMA DoRouteChains ==
  ASSUME TypeOK, ChainInv, NEW t \in Threads, DoRoute(t) PROVE ChainInv'
<1>1. run[t] \in Frames /\ run[t].pc = "route" /\ ready \in Seq(Handlers)
  BY DEF TypeOK, DoRoute, At
<1>2. PICK r \in Routers, c \in Comps : r = run[t].r /\ c = run[t].c
  BY <1>1 DEF Frames, FrameShape, PacketSteps
<1>3. PICK p : p = LocalPosts(r, c)
  OBVIOUS
<1>4. p \in Seq(Handlers) /\ \A i \in DOMAIN p : p[i].op # "generate"
  BY <1>3, LocalPostsType, LocalPostsProcess
<1>5. ready' = ready \o p
  BY <1>2, <1>3 DEF DoRoute
<1>6. Still(ready, ready')
  BY <1>1, <1>4, <1>5, StillConcat
<1>7. run' = [run EXCEPT ![t] = Idle] /\ timer' = timer /\ begun' = begun
  BY DEF DoRoute, compVars, histVars
<1>8. Idle.pc # "generate" /\ run[t].pc # "generate"
  BY <1>1, IdleInside
<1> QED BY <1>6, <1>7, <1>8, ChainThread

LEMMA RunReadChains ==
  ASSUME TypeOK, ChainInv, NEW t \in Threads, RunRead(t) PROVE ChainInv'
<1>1. /\ ready # <<>> /\ ready \in Seq(Handlers) /\ Head(ready).op = "read"
      /\ ready' = Tail(ready) /\ run' = run /\ timer' = timer /\ begun' = begun
  BY TakesThat DEF RunRead, compVars, histVars
<1>2. Still(ready, ready')
  BY <1>1, StillTail
<1>3. \A r \in Routers, c \in Comps : Inside(r, c)' = Inside(r, c)
  BY <1>1 DEF Inside
<1> QED BY <1>1, <1>2, <1>3, ChainQuiet

LEMMA HearMessageChains ==
  ASSUME TypeOK, ChainInv, NEW t \in Threads, NEW k, NEW c, NEW port,
         HearMessage(t, k, c, port)
  PROVE  ChainInv'
<1> DEFINE f == [Idle EXCEPT !.pc = "bytes", !.k = k, !.r = cur, !.c = c, !.port = port]
<1>1. run[t] = Idle /\ run' = [run EXCEPT ![t] = f] /\ ready' = ready
  BY DEF HearMessage, Free
<1>2. f.pc # "generate" /\ run[t].pc # "generate"
  BY <1>1 DEF Idle
<1> HIDE DEF f
<1> QED BY <1>1, <1>2, StillItself, ChainThread DEF HearMessage, compVars, histVars

LEMMA CountBytesChains ==
  ASSUME TypeOK, ChainInv, NEW t \in Threads, CountBytes(t) PROVE ChainInv'
<1> DEFINE f == [run[t] EXCEPT !.pc = "deliver", !.r = cur]
<1>1. run[t].pc = "bytes" /\ run' = [run EXCEPT ![t] = f] /\ ready' = ready
  BY DEF CountBytes, At, TypeOK
<1>2. f.pc # "generate" /\ run[t].pc # "generate"
  BY <1>1 DEF TypeOK, Frames, FrameShape
<1> HIDE DEF f
<1> QED BY <1>1, <1>2, StillItself, ChainThread DEF CountBytes, compVars, histVars

LEMMA DeliverChains ==
  ASSUME TypeOK, ChainInv, NEW t \in Threads, Deliver(t) PROVE ChainInv'
<1>1. run[t] \in Frames /\ run[t].pc = "deliver" /\ ready \in Seq(Handlers)
  BY DEF TypeOK, Deliver, At
<1>2. PICK h : h = [op |-> "process", r |-> run[t].r, c |-> run[t].c, port |-> run[t].port]
  OBVIOUS
<1>3. h \in Handlers /\ h.op # "generate"
  BY <1>1, <1>2 DEF Frames, FrameShape, MessageSteps, Handlers
<1>4. ready' = Append(ready, h) \/ ready' = ready
  BY <1>2 DEF Deliver
<1>5. Still(ready, ready')
  BY <1>1, <1>3, <1>4, StillAppend, StillItself
<1>6. run' = [run EXCEPT ![t] = Idle] /\ timer' = timer /\ begun' = begun
  BY DEF Deliver, compVars
<1>7. Idle.pc # "generate" /\ run[t].pc # "generate"
  BY <1>1, IdleInside
<1> QED BY <1>5, <1>6, <1>7, ChainThread

LEMMA AcceptsChains ==
  ASSUME TypeOK, ChainInv, NEW t \in Threads, NEW k, NEW f, Accepts(t, k, f),
         f.pc # "generate"
  PROVE  ChainInv'
<1>1. run[t] = Idle /\ run' = [run EXCEPT ![t] = f] /\ ready' = ready
  BY DEF Accepts, Free
<1>2. run[t].pc # "generate"
  BY <1>1, IdleInside
<1> QED BY <1>1, <1>2, StillItself, ChainThread DEF Accepts, compVars

LEMMA AcceptChains ==
  ASSUME TypeOK, ChainInv, NEW t \in Threads, Accept(t) PROVE ChainInv'
<1>1. ASSUME NEW k \in Peers, NEW c \in Comps, NEW port \in Ports, HearMessage(t, k, c, port)
      PROVE  ChainInv'
  BY <1>1, HearMessageChains
<1>2. ASSUME NEW k \in Controls, NEW on \in BOOLEAN, AcceptCommand(t, k, on) PROVE ChainInv'
  <2> DEFINE f == [Idle EXCEPT !.pc = "set", !.k = k, !.r = cur, !.on = on]
  <2>1. Accepts(t, k, f) /\ f.pc # "generate"
    BY <1>2 DEF AcceptCommand, Idle
  <2> HIDE DEF f
  <2> QED BY <2>1, AcceptsChains
<1>3. ASSUME NEW k \in Controls, NEW new \in Configs, AcceptDeploy(t, k, new) PROVE ChainInv'
  <2> DEFINE f == [Idle EXCEPT !.pc = "prev", !.k = k, !.r = cur, !.conf = new]
  <2>1. Accepts(t, k, f) /\ f.pc # "generate"
    BY <1>3 DEF AcceptDeploy, Idle
  <2> HIDE DEF f
  <2> QED BY <2>1, AcceptsChains
<1>4. ASSUME NEW k \in Controls, AcceptStatus(t, k) PROVE ChainInv'
  <2> DEFINE f == [Idle EXCEPT !.pc = "status", !.k = k, !.r = cur]
  <2>1. Accepts(t, k, f) /\ f.pc # "generate"
    BY <1>4 DEF AcceptStatus, Idle
  <2> HIDE DEF f
  <2> QED BY <2>1, AcceptsChains
<1> QED BY <1>1, <1>2, <1>3, <1>4 DEF Accept

LEMMA SetStartedChains ==
  ASSUME TypeOK, ChainInv, NEW t \in Threads, SetStarted(t) PROVE ChainInv'
<1> DEFINE f == [run[t] EXCEPT !.pc = "sweep", !.todo = conf[run[t].r].comps]
<1>1. run[t].pc = "set" /\ run' = [run EXCEPT ![t] = f] /\ ready' = ready
  BY DEF SetStarted, At, TypeOK
<1>2. f.pc # "generate" /\ run[t].pc # "generate"
  BY <1>1 DEF TypeOK, Frames, FrameShape
<1> HIDE DEF f
<1> QED BY <1>1, <1>2, StillItself, ChainThread DEF SetStarted, compVars

LEMMA ReadPreviousChains ==
  ASSUME TypeOK, ChainInv, NEW t \in Threads, ReadPrevious(t) PROVE ChainInv'
<1> DEFINE f == [run[t] EXCEPT !.pc = "swap", !.on = started[run[t].r]]
<1>1. run[t].pc = "prev" /\ run' = [run EXCEPT ![t] = f] /\ ready' = ready
  BY DEF ReadPrevious, At, TypeOK
<1>2. f.pc # "generate" /\ run[t].pc # "generate"
  BY <1>1 DEF TypeOK, Frames, FrameShape
<1> HIDE DEF f
<1> QED BY <1>1, <1>2, StillItself, ChainThread DEF ReadPrevious, compVars, histVars

LEMMA ExchangeChains ==
  ASSUME TypeOK, ChainInv, NEW t \in Threads, Exchange(t) PROVE ChainInv'
<1> DEFINE f == [run[t] EXCEPT !.pc = "fill", !.old = cur, !.own = {cur, made + 1}]
<1>1. run[t].pc = "swap" /\ run' = [run EXCEPT ![t] = f] /\ ready' = ready
  BY DEF Exchange, At, TypeOK
<1>2. f.pc # "generate" /\ run[t].pc # "generate"
  BY <1>1 DEF TypeOK, Frames, FrameShape
<1> HIDE DEF f
<1> QED BY <1>1, <1>2, StillItself, ChainThread DEF Exchange, compVars, histVars

LEMMA FillChains ==
  ASSUME TypeOK, ChainInv, NEW t \in Threads, Fill(t) PROVE ChainInv'
<1> DEFINE f == [run[t] EXCEPT !.pc = "set", !.conf = NoConfig,
                               !.r = IF run[t].on THEN cur ELSE run[t].old]
<1>1. run[t].pc = "fill" /\ run' = [run EXCEPT ![t] = f] /\ ready' = ready
  BY DEF Fill, At, TypeOK
<1>2. f.pc # "generate" /\ run[t].pc # "generate"
  BY <1>1 DEF TypeOK, Frames, FrameShape
<1> HIDE DEF f
<1> QED BY <1>1, <1>2, StillItself, ChainThread DEF Fill, compVars, histVars

\* A request is answered.
LEMMA AnswerStill ==
  ASSUME TypeOK, NEW t \in Threads, run[t].pc \in RequestSteps, Answer(t, ready)
  PROVE  Still(ready, ready') /\ run' = [run EXCEPT ![t] = Idle]
<1>1. ready \in Seq(Handlers) /\ run[t] \in Frames
  BY DEF TypeOK
<1>2. PICK h : h = [op |-> "read", k |-> run[t].k]
  OBVIOUS
<1>3. h \in Handlers /\ h.op # "generate"
  BY <1>1, <1>2 DEF Handlers, Frames
<1>4. ready' = Append(ready, h) /\ run' = [run EXCEPT ![t] = Idle]
  BY <1>2 DEF Answer
<1> QED BY <1>1, <1>3, <1>4, StillAppend

LEMMA StatusChains ==
  ASSUME TypeOK, ChainInv, NEW t \in Threads, Status(t) PROVE ChainInv'
<1>1. run[t].pc = "status" /\ Answer(t, ready)
  BY DEF Status, At
<1>2. Still(ready, ready') /\ run' = [run EXCEPT ![t] = Idle]
  BY <1>1, AnswerStill DEF RequestSteps
<1>3. run[t].pc # "generate" /\ Idle.pc # "generate"
  BY <1>1, IdleInside
<1> QED BY <1>2, <1>3, ChainThread DEF Status, compVars, histVars

LEMMA SweepDoneChains ==
  ASSUME TypeOK, ChainInv, NEW t \in Threads, SweepDone(t) PROVE ChainInv'
<1>1. run[t].pc = "sweep" /\ timer' = timer /\ begun' = begun
  BY DEF SweepDone, At, compVars, histVars
<1>2. CASE run[t].on /\ run[t].old # None
  <2> DEFINE f == [run[t] EXCEPT !.pc = "set", !.on = FALSE, !.r = run[t].old]
  <2>1. run' = [run EXCEPT ![t] = f] /\ ready' = ready
    BY <1>2 DEF SweepDone, TypeOK
  <2>2. f.pc # "generate" /\ run[t].pc # "generate"
    BY <1>1 DEF TypeOK, Frames, FrameShape
  <2> HIDE DEF f
  <2> QED BY <1>1, <2>1, <2>2, StillItself, ChainThread
<1>3. CASE ~(run[t].on /\ run[t].old # None)
  <2>1. Answer(t, ready)
    BY <1>3 DEF SweepDone
  <2>2. Still(ready, ready') /\ run' = [run EXCEPT ![t] = Idle]
    BY <1>1, <2>1, AnswerStill DEF RequestSteps
  <2>3. run[t].pc # "generate" /\ Idle.pc # "generate"
    BY <1>1, IdleInside
  <2> QED BY <1>1, <2>2, <2>3, ChainThread
<1> QED BY <1>2, <1>3

-----------------------------------------------------------------------------
(* The invariant *)

LEMMA ChainInit == Init => ChainInv
<1> SUFFICES ASSUME Init, NEW r \in Routers, NEW c \in Comps PROVE Few(r, c)
  BY DEF ChainInv
<1>1. ready = <<>> /\ ~timer[r][c] /\ begun[r][c] = 0 /\ \A t \in Threads : run[t] = Idle
  BY DEF Init, False, Zero
<1>2. Inside(r, c) = {}
  BY <1>1, IdleInside DEF Inside
<1>3. IsFiniteSet({}) /\ Cardinality({}) = 0
  BY FS_EmptySet
<1>4. Posted(ready, r, c) = 0
  BY <1>1, CountNone DEF Posted
<1> QED BY <1>1, <1>2, <1>3, <1>4 DEF Few, One

LEMMA ChainNext ==
  ASSUME TypeOK, TypeOK', ChainInv, [Next]_vars PROVE ChainInv'
<1>1. ASSUME NEW t \in Threads, Works(t) PROVE ChainInv'
  <2>1. CASE RunGenerate(t) BY <2>1, RunGenerateChains
  <2>2. CASE Generate(t) BY <2>2, GenerateChains
  <2>3. CASE RunProcess(t) BY <2>3, RunProcessChains
  <2>4. CASE RunRoute(t) BY <2>4, RunRouteChains
  <2>5. CASE DoRoute(t) BY <2>5, DoRouteChains
  <2>6. CASE RunRead(t) BY <2>6, RunReadChains
  <2>7. CASE CountBytes(t) BY <2>7, CountBytesChains
  <2>8. CASE Deliver(t) BY <2>8, DeliverChains
  <2>9. CASE SetStarted(t) BY <2>9, SetStartedChains
  <2>10. CASE SweepOne(t) BY <2>10, SweepOneChains
  <2>11. CASE SweepDone(t) BY <2>11, SweepDoneChains
  <2>12. CASE ReadPrevious(t) BY <2>12, ReadPreviousChains
  <2>13. CASE Exchange(t) BY <2>13, ExchangeChains
  <2>14. CASE Fill(t) BY <2>14, FillChains
  <2>15. CASE Status(t) BY <2>15, StatusChains
  <2> QED BY <1>1, <2>1, <2>2, <2>3, <2>4, <2>5, <2>6, <2>7, <2>8, <2>9, <2>10, <2>11,
             <2>12, <2>13, <2>14, <2>15 DEF Works
<1>2. ASSUME NEW t \in Threads, Accept(t) PROVE ChainInv'
  BY <1>2, AcceptChains
<1>3. ASSUME NEW r \in Routers, NEW c \in Comps, TimerFires(r, c) PROVE ChainInv'
  BY <1>3, TimerFiresChains
<1>4. CASE UNCHANGED vars
  <2>1. ready' = ready /\ run' = run /\ timer' = timer /\ begun' = begun
    BY <1>4 DEF vars, compVars, histVars
  <2>2. \A r \in Routers, c \in Comps : Inside(r, c)' = Inside(r, c)
    BY <2>1 DEF Inside
  <2> QED BY <2>1, <2>2, StillItself, ChainQuiet
<1> QED BY <1>1, <1>2, <1>3, <1>4 DEF Next, Timers

LEMMA ChainMeans == TypeOK /\ ChainInv => ChainsBounded
<1> SUFFICES ASSUME TypeOK, ChainInv, NEW r \in Routers, NEW c \in Comps
             PROVE  Chains(r, c) <= begun[r][c]
  BY DEF ChainsBounded
<1>1. Few(r, c)
  BY DEF ChainInv
<1>2. {i \in DOMAIN ready : ready[i] = GenerateHandler(r, c)} = Places(ready, Calls(r, c))
  BY DEF Places, Calls
<1>3. Chains(r, c) = Posted(ready, r, c) + Cardinality(Inside(r, c)) + One(timer[r][c])
  BY <1>2 DEF Chains, Posted, Count, One
<1> QED BY <1>1, <1>3 DEF Few

\* For any threads, control connections, neighbours, components and bounds, and over
\* any sequence of Start, Stop and Deploy: a generator never runs more chains of
\* generate() calls than it was started times, however its handlers, its cancelled
\* waits and stop() overlap.
\* (generator::generate_next, timed_generator::generate_next and stop)
THEOREM ChainsStayBounded == Spec => []ChainsBounded
<1>1. Init => TypeOK /\ ChainInv
  BY InitType, ChainInit
<1>2. (TypeOK /\ ChainInv) /\ [Next]_vars => (TypeOK /\ ChainInv)'
  BY NextType, ChainNext
<1>3. TypeOK /\ ChainInv => ChainsBounded
  BY ChainMeans
<1> QED BY <1>1, <1>2, <1>3, PTL DEF Spec
=============================================================================
