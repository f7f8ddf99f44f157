----------------------------- MODULE NodeProofs -----------------------------
(***************************************************************************)
(* Proofs about Node, for any threads, connections, components and bounds. *)
(***************************************************************************)
EXTENDS Node, TLAPS, SequenceTheorems, FiniteSetTheorems, FunctionTheorems,
        WellFoundedInduction

USE NodeAssumption DEF NodeAssumption

-----------------------------------------------------------------------------
(* Lemmas about the operators *)

\* A nonempty set of component names has a first one: the loop over the
\* components always has a next turn.
LEMMA FirstIn == ASSUME NEW S \in SUBSET Comps, S # {} PROVE First(S) \in S
<1>1. PICK x \in S : \A y \in S : ~ (<<y, x>> \in OpToRel(<, Nat))
  BY NatLessThanWellFounded, WFMin
<1>2. \A y \in S : x <= y
  <2> SUFFICES ASSUME NEW y \in S, y < x PROVE FALSE
    OBVIOUS
  <2>1. <<y, x>> \in Nat \X Nat /\ <<y, x>>[1] < <<y, x>>[2]
    OBVIOUS
  <2> QED BY <1>1, <2>1, Zenon DEF OpToRel
<1> QED BY <1>2 DEF First

\* Setting one entry of a table kept per component object.
LEMMA ObjectExcept ==
  ASSUME NEW S, NEW f \in PerObject(S), NEW r \in Routers, NEW c \in Comps,
         NEW v \in S
  PROVE  [f EXCEPT ![r][c] = v] \in PerObject(S)
BY DEF PerObject

LEMMA ObjectAt ==
  ASSUME NEW S, NEW f \in PerObject(S), NEW r \in Routers, NEW c \in Comps
  PROVE  f[r][c] \in S
BY DEF PerObject

\* Counters, whether packets are counted or not
LEMMA PlusNat == ASSUME NEW n \in Nat, NEW k \in Nat PROVE Plus(n, k) \in Nat
BY DEF Plus

LEMMA PlusIs == ASSUME Counting PROVE \A n, k : Plus(n, k) = n + k
BY DEF Plus

LEMMA ObjectCount ==
  ASSUME NEW f \in PerObject(Nat), NEW r \in Routers, NEW c \in Comps
  PROVE  [f EXCEPT ![r][c] = Plus(@, 1)] \in PerObject(Nat)
<1>1. Plus(f[r][c], 1) \in Nat
  BY ObjectAt, PlusNat
<1> QED BY <1>1, ObjectExcept

LEMMA NoConfigShape == NoConfig \in ConfigShape
BY DEF NoConfig, ConfigShape, Dest, Ports

LEMMA RouterZero == 0 \in Routers
BY DEF Routers

LEMMA IdleFrame == Idle \in Frames
BY RouterZero DEF Idle, Frames, FrameShape, PacketSteps, MessageSteps, RequestSteps,
  Ports

\* The local routes of a component become well-formed handlers.
LEMMA ProcessesType ==
  ASSUME NEW r \in Routers, NEW dests \in Seq(Dest)
  PROVE  Processes(r, dests) \in Seq(Handlers)
<1>1. DOMAIN dests = 1 .. Len(dests) /\ Len(dests) \in Nat
  BY LenProperties
<1>2. \A i \in 1 .. Len(dests) : dests[i] \in Dest
  BY ElementOfSeq
<1>3. Processes(r, dests) \in [1 .. Len(dests) -> Handlers]
  BY <1>1, <1>2 DEF Processes, Dest, Handlers
<1> QED BY <1>1, <1>3, SeqDef

LEMMA LocalPostsType ==
  ASSUME TypeOK, NEW r \in Routers, NEW c \in Comps
  PROVE  LocalPosts(r, c) \in Seq(Handlers)
<1>1. conf[r] \in ConfigShape
  BY NoConfigShape DEF TypeOK
<1>2. \A p \in OutPorts : conf[r].local[c][p] \in Seq(Dest)
  BY <1>1 DEF ConfigShape
<1>3. 0 \in OutPorts /\ 1 \in OutPorts
  BY DEF OutPorts
<1>4. /\ Processes(r, conf[r].local[c][0]) \in Seq(Handlers)
      /\ Processes(r, conf[r].local[c][1]) \in Seq(Handlers)
  BY <1>2, <1>3, ProcessesType
<1> QED BY <1>4, ConcatProperties DEF LocalPosts

LEMMA RemoteSendsType ==
  ASSUME TypeOK, NEW r \in Routers, NEW c \in Comps
  PROVE  RemoteSends(r, c) \in Nat
<1>1. conf[r] \in ConfigShape
  BY NoConfigShape DEF TypeOK
<1> QED BY <1>1 DEF ConfigShape, RemoteSends, OutPorts

LEMMA GeneratePostsType ==
  ASSUME NEW r \in Routers, NEW c \in Comps
  PROVE  GeneratePosts(r, c) \in Seq(Handlers)
<1>1. RouteHandler(r, c) \in Handlers /\ GenerateHandler(r, c) \in Handlers
  BY DEF RouteHandler, GenerateHandler, Handlers
<1>2. NextGenerate(r, c) \in Seq(Handlers)
  BY <1>1, EmptySeq DEF NextGenerate
<1>3. (IF Emits(r, c) THEN <<RouteHandler(r, c)>> ELSE <<>>) \in Seq(Handlers)
  BY <1>1, EmptySeq
<1> QED BY <1>2, <1>3, ConcatProperties DEF GeneratePosts

LEMMA GenerateEffectType ==
  ASSUME TypeOK, NEW r \in Routers, NEW c \in Comps, NEW q \in Seq(Handlers),
         GenerateEffect(r, c, q)
  PROVE  /\ ready' \in Seq(Handlers)
         /\ emitted' \in PerObject(Nat)
         /\ timer' \in PerObject(BOOLEAN)
<1>1. ready' \in Seq(Handlers)
  BY GeneratePostsType, ConcatProperties DEF GenerateEffect
<1>2. emitted' \in PerObject(Nat)
  <2> DEFINE v == IF Emits(r, c) THEN Plus(emitted[r][c], 1) ELSE emitted[r][c]
  <2>1. v \in Nat
    <3>1. emitted \in PerObject(Nat)
      BY DEF TypeOK
    <3>2. emitted[r][c] \in Nat
      BY <3>1, ObjectAt
    <3> QED BY <3>2, PlusNat
  <2>2. emitted' = [emitted EXCEPT ![r][c] = v]
    BY DEF GenerateEffect
  <2> HIDE DEF v
  <2> QED BY <2>1, <2>2, ObjectExcept DEF TypeOK
<1>3. timer' \in PerObject(BOOLEAN)
  <2> DEFINE v == timer[r][c] \/ Kind[c] = "timed_generator"
  <2>1. v \in BOOLEAN
    OBVIOUS
  <2>2. timer' = [timer EXCEPT ![r][c] = v]
    BY DEF GenerateEffect
  <2> HIDE DEF v
  <2> QED BY <2>1, <2>2, ObjectExcept DEF TypeOK
<1> QED BY <1>1, <1>2, <1>3

-----------------------------------------------------------------------------
(* Every variable keeps to its domain *)

\* What a step that writes the frame of one thread must show.
LEMMA FrameSet ==
  ASSUME TypeOK, NEW t \in Threads, NEW f \in Frames
  PROVE  [run EXCEPT ![t] = f] \in [Threads -> Frames]
BY DEF TypeOK

LEMMA HeadHandler ==
  ASSUME TypeOK, NEW t \in Threads, NEW op, Takes(t, op)
  PROVE  /\ Head(ready) \in Handlers /\ Head(ready).op = op
         /\ Tail(ready) \in Seq(Handlers)
BY HeadTailProperties DEF TypeOK, Takes

LEMMA RunGenerateType ==
  ASSUME TypeOK, NEW t \in Threads, RunGenerate(t) PROVE TypeOK'
<1> DEFINE h == Head(ready)
           f == IF genOn[h.r][h.c]
                THEN [Idle EXCEPT !.pc = "generate", !.r = h.r, !.c = h.c]
                ELSE Idle
<1>1. h \in Handlers /\ h.op = "generate" /\ Tail(ready) \in Seq(Handlers)
  BY HeadHandler DEF RunGenerate
<1>2. h.r \in Routers /\ h.c \in Comps
  BY <1>1 DEF Handlers
<1>3. f \in Frames
  BY <1>2, IdleFrame DEF Frames, FrameShape, PacketSteps, MessageSteps,
    RequestSteps, Idle
<1>4. run' = [run EXCEPT ![t] = f] /\ ready' = Tail(ready)
  BY DEF RunGenerate
<1> HIDE DEF h, f
<1>5. run' \in [Threads -> Frames]
  BY <1>3, <1>4, FrameSet
<1> QED
  BY <1>1, <1>4, <1>5 DEF RunGenerate, TypeOK, routerVars, compVars, histVars

LEMMA GenerateType ==
  ASSUME TypeOK, NEW t \in Threads, Generate(t) PROVE TypeOK'
<1>1. run[t].r \in Routers /\ run[t].c \in Comps /\ ready \in Seq(Handlers)
  BY DEF Generate, At, TypeOK, Frames, FrameShape, PacketSteps
<1>2. /\ ready' \in Seq(Handlers) /\ emitted' \in PerObject(Nat)
      /\ timer' \in PerObject(BOOLEAN)
  BY <1>1, GenerateEffectType DEF Generate
<1>3. run' \in [Threads -> Frames]
  BY IdleFrame, FrameSet DEF Generate
<1> QED BY <1>2, <1>3 DEF Generate, TypeOK, routerVars

LEMMA RunProcessType ==
  ASSUME TypeOK, NEW t \in Threads, RunProcess(t) PROVE TypeOK'
<1> DEFINE h == Head(ready)
           posts == Forwards(h.c, h.port) /\ Alive(h.r)
<1>1. h \in Handlers /\ h.op = "process" /\ Tail(ready) \in Seq(Handlers)
  BY HeadHandler DEF RunProcess
<1>2. h.r \in Routers /\ h.c \in Comps
  BY <1>1 DEF Handlers
<1>3. /\ inCount' = [inCount EXCEPT ![h.r][h.c] = Plus(@, 1)]
      /\ ready' = IF posts THEN Append(Tail(ready), RouteHandler(h.r, h.c))
                           ELSE Tail(ready)
      /\ emitted' = [emitted EXCEPT ![h.r][h.c] = IF posts THEN Plus(@, 1) ELSE @]
  BY DEF RunProcess
<1> HIDE DEF h, posts
<1>4. inCount' \in PerObject(Nat)
  BY <1>2, <1>3, ObjectCount DEF TypeOK
<1>5. emitted' \in PerObject(Nat)
  <2> DEFINE v == IF posts THEN Plus(emitted[h.r][h.c], 1) ELSE emitted[h.r][h.c]
  <2>0. emitted[h.r][h.c] \in Nat
    BY <1>2, ObjectAt DEF TypeOK
  <2>1. v \in Nat
    BY <2>0, PlusNat
  <2>2. emitted' = [emitted EXCEPT ![h.r][h.c] = v]
    BY <1>3
  <2> HIDE DEF v
  <2> QED BY <1>2, <2>1, <2>2, ObjectExcept DEF TypeOK
<1>6. ready' \in Seq(Handlers)
  <2>1. RouteHandler(h.r, h.c) \in Handlers
    BY <1>2 DEF RouteHandler, Handlers
  <2> QED BY <1>1, <1>3, <2>1
<1> QED BY <1>4, <1>5, <1>6 DEF RunProcess, TypeOK, routerVars

LEMMA RunRouteType ==
  ASSUME TypeOK, NEW t \in Threads, RunRoute(t) PROVE TypeOK'
<1> DEFINE h == Head(ready)
           f == [Idle EXCEPT !.pc = "route", !.r = h.r, !.c = h.c, !.own = {h.r}]
<1>1. h \in Handlers /\ h.op = "route" /\ Tail(ready) \in Seq(Handlers)
  BY HeadHandler DEF RunRoute
<1>2. h.r \in Routers /\ h.c \in Comps
  BY <1>1 DEF Handlers
<1>3. f \in Frames
  BY <1>2, IdleFrame DEF Frames, FrameShape, PacketSteps, MessageSteps,
    RequestSteps, Idle
<1>4. \/ run' = [run EXCEPT ![t] = f] /\ dropped' = dropped
      \/ run' = run /\ dropped' = [dropped EXCEPT ![h.r][h.c] = Plus(@, 1)]
  BY DEF RunRoute
<1>5. ready' = Tail(ready)
  BY DEF RunRoute
<1> HIDE DEF h, f
<1>6. run' \in [Threads -> Frames]
  BY <1>3, <1>4, FrameSet DEF TypeOK
<1>7. dropped' \in PerObject(Nat)
  <2>1. dropped \in PerObject(Nat)
    BY DEF TypeOK
  <2>2. [dropped EXCEPT ![h.r][h.c] = Plus(@, 1)] \in PerObject(Nat)
    BY <1>2, <2>1, ObjectCount
  <2> QED BY <1>4, <2>1, <2>2
<1> QED BY <1>1, <1>5, <1>6, <1>7 DEF RunRoute, TypeOK, routerVars, compVars

LEMMA DoRouteType ==
  ASSUME TypeOK, NEW t \in Threads, DoRoute(t) PROVE TypeOK'
<1> DEFINE r == run[t].r
           c == run[t].c
<1>1. r \in Routers /\ c \in Comps
  BY DEF DoRoute, At, TypeOK, Frames, FrameShape, PacketSteps
<1>2. LocalPosts(r, c) \in Seq(Handlers) /\ RemoteSends(r, c) \in Nat
  BY <1>1, LocalPostsType, RemoteSendsType
<1>3. ready' \in Seq(Handlers)
  BY <1>2, ConcatProperties DEF DoRoute, TypeOK
<1>4. out' \in [Routers -> Nat]
  <2>1. Plus(out[r], RemoteSends(r, c)) \in Nat
    BY <1>1, <1>2, PlusNat DEF TypeOK
  <2> QED BY <1>1, <2>1 DEF DoRoute, TypeOK
<1>5. run' \in [Threads -> Frames]
  BY IdleFrame, FrameSet DEF DoRoute
<1> QED BY <1>3, <1>4, <1>5 DEF DoRoute, TypeOK, routerVars, compVars, histVars

LEMMA RunReadType ==
  ASSUME TypeOK, NEW t \in Threads, RunRead(t) PROVE TypeOK'
<1>1. Tail(ready) \in Seq(Handlers)
  BY HeadHandler DEF RunRead
<1> QED BY <1>1 DEF RunRead, TypeOK, routerVars, compVars, histVars

LEMMA TimerFiresType ==
  ASSUME TypeOK, NEW r \in Routers, NEW c \in Comps, TimerFires(r, c)
  PROVE TypeOK'
<1>1. timer' \in PerObject(BOOLEAN)
  BY ObjectExcept DEF TimerFires, TypeOK
<1>2. GenerateHandler(r, c) \in Handlers
  BY DEF GenerateHandler, Handlers
<1>3. ready' \in Seq(Handlers)
  BY <1>2 DEF TimerFires, TypeOK
<1> QED BY <1>1, <1>3 DEF TimerFires, TypeOK, routerVars, histVars

LEMMA HearMessageType ==
  ASSUME TypeOK, NEW t \in Threads, NEW k \in Peers, NEW c \in Comps,
         NEW port \in Ports, HearMessage(t, k, c, port)
  PROVE TypeOK'
<1> DEFINE f == [Idle EXCEPT !.pc = "bytes", !.k = k, !.r = cur, !.c = c,
                             !.port = port]
<1>1. f \in Frames
  <2>1. cur \in Routers
    BY DEF TypeOK
  <2>2. Idle \in FrameShape
    BY IdleFrame DEF Frames
  <2>3. f \in FrameShape
    BY <2>1, <2>2 DEF FrameShape, PacketSteps, MessageSteps, RequestSteps
  <2> QED BY <2>3 DEF Frames, PacketSteps, MessageSteps, RequestSteps, Idle
<1>2. run' = [run EXCEPT ![t] = f]
  BY DEF HearMessage
<1> HIDE DEF f
<1>3. run' \in [Threads -> Frames]
  BY <1>1, <1>2, FrameSet
<1>4. heard' \in 0 .. MaxMessages
  BY DEF HearMessage, TypeOK
<1> QED BY <1>3, <1>4 DEF HearMessage, TypeOK, routerVars, compVars, histVars

LEMMA CountBytesType ==
  ASSUME TypeOK, NEW t \in Threads, CountBytes(t) PROVE TypeOK'
<1> DEFINE f == [run[t] EXCEPT !.pc = "deliver", !.r = cur]
<1>0. run[t] \in Frames /\ run[t].pc = "bytes" /\ cur \in Routers
  BY DEF CountBytes, At, TypeOK
<1>1. f \in Frames
  BY <1>0 DEF Frames, FrameShape, PacketSteps, MessageSteps, RequestSteps
<1>2. run' = [run EXCEPT ![t] = f]
  BY DEF CountBytes, TypeOK
<1> HIDE DEF f
<1>3. run' \in [Threads -> Frames]
  BY <1>1, <1>2, FrameSet
<1>4. fault' \in {"none", "freed", "race"}
  BY DEF CountBytes, Follow
<1> QED BY <1>3, <1>4 DEF CountBytes, TypeOK, routerVars, compVars, histVars

LEMMA DeliverType ==
  ASSUME TypeOK, NEW t \in Threads, Deliver(t) PROVE TypeOK'
<1> DEFINE f == run[t]
           h == [op |-> "process", r |-> f.r, c |-> f.c, port |-> f.port]
           taken == started[f.r] /\ f.c \in conf[f.r].comps
<1>1. f.r \in Routers /\ f.c \in Comps /\ f.port \in Ports
  BY DEF Deliver, At, TypeOK, Frames, FrameShape, MessageSteps
<1>2. h \in Handlers
  BY <1>1 DEF Handlers
<1>3. /\ ready' = IF taken THEN Append(ready, h) ELSE ready
      /\ fed' = [fed EXCEPT ![f.r][f.c] = IF taken THEN Plus(@, 1) ELSE @]
      /\ fault' = IF started[f.r] THEN FollowIntoTable(t, f.r) ELSE Follow(t, f.r)
  BY DEF Deliver
<1>4. fault' \in {"none", "freed", "race"}
  BY <1>3 DEF Follow, FollowIntoTable
<1> HIDE DEF f, h, taken
<1>5. ready' \in Seq(Handlers)
  BY <1>2, <1>3 DEF TypeOK
<1>6. fed' \in PerObject(Nat)
  <2> DEFINE v == IF taken THEN Plus(fed[f.r][f.c], 1) ELSE fed[f.r][f.c]
  <2>1. fed \in PerObject(Nat)
    BY DEF TypeOK
  <2>2. fed[f.r][f.c] \in Nat
    BY <1>1, <2>1, ObjectAt
  <2>3. v \in Nat
    BY <2>2, PlusNat
  <2>4. fed' = [fed EXCEPT ![f.r][f.c] = v]
    BY <1>3
  <2> HIDE DEF v
  <2> QED BY <1>1, <2>1, <2>3, <2>4, ObjectExcept
<1>7. run' \in [Threads -> Frames]
  BY IdleFrame, FrameSet DEF Deliver
<1> QED BY <1>4, <1>5, <1>6, <1>7 DEF Deliver, TypeOK, routerVars, compVars

\* The three kinds of request differ only in the frame they start with.
LEMMA AcceptsType ==
  ASSUME TypeOK, NEW t \in Threads, NEW k \in Controls, NEW f \in Frames,
         Accepts(t, k, f), asked' \in 0 .. MaxCommands, commanded' \in BOOLEAN
  PROVE  TypeOK'
<1>1. run' \in [Threads -> Frames]
  BY FrameSet DEF Accepts
<1>2. ctl' \in [Controls -> {"reading", "serving", "queued"}]
  BY DEF Accepts, TypeOK
<1> QED BY <1>1, <1>2 DEF Accepts, TypeOK, routerVars, compVars

LEMMA AcceptCommandType ==
  ASSUME TypeOK, NEW t \in Threads, NEW k \in Controls, NEW on \in BOOLEAN,
         AcceptCommand(t, k, on)
  PROVE  TypeOK'
<1> DEFINE f == [Idle EXCEPT !.pc = "set", !.k = k, !.r = cur, !.on = on]
<1>1. f \in Frames
  <2>1. cur \in Routers
    BY DEF TypeOK
  <2>2. Idle \in FrameShape
    BY IdleFrame DEF Frames
  <2>3. f \in FrameShape
    BY <2>1, <2>2 DEF FrameShape, PacketSteps, MessageSteps, RequestSteps
  <2> QED BY <2>3 DEF Frames, PacketSteps, MessageSteps, RequestSteps, Idle
<1>2. Accepts(t, k, f)
  BY DEF AcceptCommand
<1> HIDE DEF f
<1>3. asked' \in 0 .. MaxCommands /\ commanded' \in BOOLEAN
  BY DEF AcceptCommand, TypeOK
<1> QED BY <1>1, <1>2, <1>3, AcceptsType

LEMMA AcceptDeployType ==
  ASSUME TypeOK, NEW t \in Threads, NEW k \in Controls, NEW new \in Configs,
         AcceptDeploy(t, k, new)
  PROVE  TypeOK'
<1> DEFINE f == [Idle EXCEPT !.pc = "prev", !.k = k, !.r = cur, !.conf = new]
<1>1. f \in Frames
  <2>1. cur \in Routers
    BY DEF TypeOK
  <2>2. Idle \in FrameShape
    BY IdleFrame DEF Frames
  <2>3. f \in FrameShape
    BY <2>1, <2>2 DEF FrameShape, PacketSteps, MessageSteps, RequestSteps
  <2> QED BY <2>3 DEF Frames, PacketSteps, MessageSteps, RequestSteps, Idle
<1>2. Accepts(t, k, f)
  BY DEF AcceptDeploy
<1> HIDE DEF f
<1>3. asked' \in 0 .. MaxCommands /\ commanded' \in BOOLEAN
  BY DEF AcceptDeploy, TypeOK
<1> QED BY <1>1, <1>2, <1>3, AcceptsType

LEMMA AcceptStatusType ==
  ASSUME TypeOK, NEW t \in Threads, NEW k \in Controls, AcceptStatus(t, k)
  PROVE  TypeOK'
<1> DEFINE f == [Idle EXCEPT !.pc = "status", !.k = k, !.r = cur]
<1>1. f \in Frames
  <2>1. cur \in Routers
    BY DEF TypeOK
  <2>2. Idle \in FrameShape
    BY IdleFrame DEF Frames
  <2>3. f \in FrameShape
    BY <2>1, <2>2 DEF FrameShape, PacketSteps, MessageSteps, RequestSteps
  <2> QED BY <2>3 DEF Frames, PacketSteps, MessageSteps, RequestSteps, Idle
<1>2. Accepts(t, k, f)
  BY DEF AcceptStatus
<1> HIDE DEF f
<1>3. asked' \in 0 .. MaxCommands /\ commanded' \in BOOLEAN
  BY DEF AcceptStatus, TypeOK
<1> QED BY <1>1, <1>2, <1>3, AcceptsType

LEMMA AnswerType ==
  ASSUME TypeOK, NEW t \in Threads, run[t].k \in Controls,
         NEW q \in Seq(Handlers), Answer(t, q)
  PROVE  /\ run' \in [Threads -> Frames]
         /\ ctl' \in [Controls -> {"reading", "serving", "queued"}]
         /\ ready' \in Seq(Handlers)
<1>1. [op |-> "read", k |-> run[t].k] \in Handlers
  BY DEF Handlers
<1>2. run' \in [Threads -> Frames]
  BY IdleFrame, FrameSet DEF Answer
<1> QED BY <1>1, <1>2 DEF Answer, TypeOK

LEMMA SetStartedType ==
  ASSUME TypeOK, NEW t \in Threads, SetStarted(t) PROVE TypeOK'
<1> DEFINE r == run[t].r
           f == [run[t] EXCEPT !.pc = "sweep", !.todo = conf[r].comps]
<1>1. /\ run[t] \in Frames /\ run[t].pc = "set" /\ r \in Routers
      /\ run[t].on \in BOOLEAN
  BY DEF SetStarted, At, TypeOK, Frames, FrameShape
<1>2. conf[r] \in ConfigShape
  BY <1>1, NoConfigShape DEF TypeOK
<1>3. conf[r].comps \in SUBSET Comps
  BY <1>2 DEF ConfigShape
<1>4. f \in Frames
  BY <1>1, <1>3 DEF Frames, FrameShape, PacketSteps, MessageSteps, RequestSteps
<1>5. run' = [run EXCEPT ![t] = f]
  BY DEF SetStarted, TypeOK
<1> HIDE DEF f
<1>6. run' \in [Threads -> Frames]
  BY <1>4, <1>5, FrameSet
<1>7. fault' \in {"none", "freed", "race"}
  BY DEF SetStarted, FollowIntoTable
<1>8. started' \in [Routers -> BOOLEAN]
  BY <1>1 DEF SetStarted, TypeOK
<1>9. restarted' \in [Routers -> BOOLEAN]
  <2> DEFINE v == restarted[r] \/ (run[t].on /\ started[r])
  <2>1. restarted' = [restarted EXCEPT ![r] = v] /\ v \in BOOLEAN
    BY DEF SetStarted
  <2> HIDE DEF v
  <2> QED BY <1>1, <2>1 DEF TypeOK
<1> QED BY <1>6, <1>7, <1>8, <1>9 DEF SetStarted, TypeOK, compVars

LEMMA SweepOneType ==
  ASSUME TypeOK, NEW t \in Threads, SweepOne(t) PROVE TypeOK'
<1> DEFINE r == run[t].r
           c == First(run[t].todo)
           f == [run[t] EXCEPT !.todo = @ \ {c}]
<1>1. /\ run[t] \in Frames /\ run[t].pc = "sweep" /\ r \in Routers
      /\ run[t].todo \in SUBSET Comps /\ run[t].todo # {}
  BY DEF SweepOne, At, TypeOK, Frames, FrameShape
<1>2. c \in Comps
  BY <1>1, FirstIn
<1>3. /\ fault' = FollowIntoTable(t, r)
      /\ StartComponent(r, c) \/ StopComponent(r, c)
      /\ run' = [run EXCEPT ![t] = f]
      /\ begun' = [begun EXCEPT ![r][c] = @ + 1] \/ begun' = begun
  BY DEF SweepOne, TypeOK
<1>4. f \in Frames
  BY <1>1 DEF Frames, FrameShape
<1> HIDE DEF c, f
<1>5. run' \in [Threads -> Frames]
  BY <1>3, <1>4, FrameSet
<1>6. /\ ready' \in Seq(Handlers) /\ emitted' \in PerObject(Nat)
      /\ timer' \in PerObject(BOOLEAN) /\ genOn' \in PerObject(BOOLEAN)
  <2>1. CASE StartComponent(r, c)
    <3>1. CASE Kind[c] \in Generators
      <4>1. genOn' = [genOn EXCEPT ![r][c] = TRUE] /\ GenerateEffect(r, c, ready)
        BY <2>1, <3>1 DEF StartComponent
      <4>2. genOn' \in PerObject(BOOLEAN)
        BY <1>1, <1>2, <4>1, ObjectExcept DEF TypeOK
      <4>3. ready \in Seq(Handlers)
        BY DEF TypeOK
      <4> HIDE DEF r
      <4> QED BY <1>1, <1>2, <4>1, <4>2, <4>3, GenerateEffectType
    <3>2. CASE Kind[c] \notin Generators
      BY <2>1, <3>2 DEF StartComponent, TypeOK
    <3> QED BY <3>1, <3>2
  <2>2. CASE StopComponent(r, c)
    <3>1. genOn' \in PerObject(BOOLEAN) /\ timer' \in PerObject(BOOLEAN)
      BY <1>1, <1>2, <2>2, ObjectExcept DEF StopComponent, TypeOK
    <3>2. GenerateHandler(r, c) \in Handlers
      BY <1>1, <1>2 DEF GenerateHandler, Handlers
    <3>3. ready' \in Seq(Handlers)
      BY <2>2, <3>2 DEF StopComponent, TypeOK
    <3> QED BY <2>2, <3>1, <3>3 DEF StopComponent, TypeOK
  <2> QED BY <1>3, <2>1, <2>2
<1>7. fault' \in {"none", "freed", "race"}
  BY <1>3 DEF FollowIntoTable
<1> HIDE DEF r
<1>8. begun' \in PerObject(Nat)
  <2>1. begun \in PerObject(Nat)
    BY DEF TypeOK
  <2>2. begun[r][c] \in Nat
    BY <1>1, <1>2, <2>1, ObjectAt
  <2>3. PICK n \in Nat : n = begun[r][c] + 1
    BY <2>2
  <2>4. [begun EXCEPT ![r][c] = n] \in PerObject(Nat)
    BY <1>1, <1>2, <2>1, ObjectExcept
  <2> QED BY <1>3, <2>1, <2>3, <2>4
<1> QED BY <1>5, <1>6, <1>7, <1>8 DEF SweepOne, TypeOK, routerVars

LEMMA SweepDoneType ==
  ASSUME TypeOK, NEW t \in Threads, SweepDone(t) PROVE TypeOK'
<1>1. /\ run[t] \in Frames /\ run[t].pc = "sweep" /\ run[t].k \in Controls
      /\ run[t].old \in Routers \cup {None}
  BY DEF SweepDone, At, TypeOK, Frames, FrameShape, RequestSteps
<1>2. CASE run[t].on /\ run[t].old # None
  <2> DEFINE f == [run[t] EXCEPT !.pc = "set", !.on = FALSE, !.r = run[t].old]
  <2>1. run[t].old \in Routers
    BY <1>1, <1>2
  <2>2. f \in Frames
    BY <1>1, <2>1 DEF Frames, FrameShape, PacketSteps, MessageSteps, RequestSteps
  <2>3. run' = [run EXCEPT ![t] = f] /\ UNCHANGED <<ready, ctl>>
    BY <1>2 DEF SweepDone, TypeOK
  <2> HIDE DEF f
  <2>4. run' \in [Threads -> Frames]
    BY <2>2, <2>3, FrameSet
  <2> QED
    BY <2>3, <2>4 DEF SweepDone, TypeOK, routerVars, compVars, histVars
<1>3. CASE ~(run[t].on /\ run[t].old # None)
  <2>1. Answer(t, ready) /\ ready \in Seq(Handlers)
    BY <1>3 DEF SweepDone, TypeOK
  <2>2. /\ run' \in [Threads -> Frames]
        /\ ctl' \in [Controls -> {"reading", "serving", "queued"}]
        /\ ready' \in Seq(Handlers)
    BY <1>1, <2>1, AnswerType
  <2> QED BY <2>2 DEF SweepDone, TypeOK, routerVars, compVars, histVars
<1> QED BY <1>2, <1>3

LEMMA ReadPreviousType ==
  ASSUME TypeOK, NEW t \in Threads, ReadPrevious(t) PROVE TypeOK'
<1> DEFINE f == [run[t] EXCEPT !.pc = "swap", !.on = started[run[t].r]]
<1>1. run[t] \in Frames /\ run[t].pc = "prev" /\ started[run[t].r] \in BOOLEAN
  BY DEF ReadPrevious, At, TypeOK, Frames, FrameShape
<1>2. f \in Frames
  BY <1>1 DEF Frames, FrameShape, PacketSteps, MessageSteps, RequestSteps
<1>3. run' = [run EXCEPT ![t] = f] /\ fault' = Follow(t, run[t].r)
  BY DEF ReadPrevious, TypeOK
<1> HIDE DEF f
<1>4. run' \in [Threads -> Frames]
  BY <1>2, <1>3, FrameSet
<1>5. fault' \in {"none", "freed", "race"}
  BY <1>3 DEF Follow
<1> QED BY <1>4, <1>5 DEF ReadPrevious, TypeOK, routerVars, compVars, histVars

LEMMA ExchangeType ==
  ASSUME TypeOK, NEW t \in Threads, Exchange(t) PROVE TypeOK'
<1> DEFINE f == [run[t] EXCEPT !.pc = "fill", !.old = cur,
                               !.own = {cur, made + 1}]
<1>1. /\ run[t] \in Frames /\ run[t].pc = "swap" /\ cur \in Routers
      /\ made + 1 \in Routers
  BY DEF Exchange, At, TypeOK, Routers
<1>2. f \in Frames
  BY <1>1 DEF Frames, FrameShape, PacketSteps, MessageSteps, RequestSteps
<1>3. run' = [run EXCEPT ![t] = f] /\ cur' = made + 1 /\ made' = made + 1
  BY DEF Exchange, TypeOK
<1> HIDE DEF f
<1>4. run' \in [Threads -> Frames]
  BY <1>2, <1>3, FrameSet
<1> QED BY <1>1, <1>3, <1>4 DEF Exchange, TypeOK, compVars, histVars

LEMMA FillType ==
  ASSUME TypeOK, NEW t \in Threads, Fill(t) PROVE TypeOK'
<1> DEFINE r == IF run[t].on THEN cur ELSE run[t].old
           f == [run[t] EXCEPT !.pc = "set", !.conf = NoConfig, !.r = r]
<1>1. /\ run[t] \in Frames /\ run[t].pc = "fill" /\ cur \in Routers
      /\ run[t].old \in Routers /\ run[t].conf \in Configs \cup {NoConfig}
  BY DEF Fill, At, TypeOK, Frames, FrameShape
<1>2. r \in Routers
  BY <1>1
<1>3. run' = [run EXCEPT ![t] = f] /\ fault' = FollowIntoTable(t, cur)
  BY DEF Fill, TypeOK
<1> HIDE DEF r
<1>4. f \in Frames
  BY <1>1, <1>2 DEF Frames, FrameShape, PacketSteps, MessageSteps, RequestSteps
<1> HIDE DEF f
<1>5. run' \in [Threads -> Frames]
  BY <1>3, <1>4, FrameSet
<1>6. fault' \in {"none", "freed", "race"}
  BY <1>3 DEF FollowIntoTable
<1>7. conf' \in [Routers -> Configs \cup {NoConfig}]
  BY <1>1 DEF Fill, TypeOK
<1> QED BY <1>5, <1>6, <1>7 DEF Fill, TypeOK, compVars, histVars

LEMMA StatusType ==
  ASSUME TypeOK, NEW t \in Threads, Status(t) PROVE TypeOK'
<1> DEFINE f == run[t]
<1>1. f.k \in Controls /\ f.r \in Routers
  BY DEF Status, At, TypeOK, Frames, FrameShape, RequestSteps
<1>2. Answer(t, ready) /\ ready \in Seq(Handlers)
  BY DEF Status, TypeOK
<1>3. /\ run' \in [Threads -> Frames]
      /\ ctl' \in [Controls -> {"reading", "serving", "queued"}]
      /\ ready' \in Seq(Handlers)
  BY <1>1, <1>2, AnswerType
<1>4. conf[f.r] \in ConfigShape
  BY <1>1, NoConfigShape DEF TypeOK
<1>5. conf[f.r].comps \subseteq Comps
  BY <1>4 DEF ConfigShape
<1>6. \A c \in Comps : inCount[f.r][c] \in Nat
  BY <1>1, ObjectAt DEF TypeOK
<1>7. {StatusOf(f.r, c) : c \in conf[f.r].comps}
        \in SUBSET [r : Routers, c : Comps, in : Nat, out : Nat]
  <2>1. \A c \in Comps :
          StatusOf(f.r, c) \in [r : Routers, c : Comps, in : Nat, out : Nat]
    BY <1>1, <1>6 DEF StatusOf
  <2> QED BY <1>5, <2>1
<1>8. fault' \in {"none", "freed", "race"}
  BY DEF Status, FollowIntoTable
<1>9. reply' = [reply EXCEPT ![f.k] = {StatusOf(f.r, c) : c \in conf[f.r].comps}]
  BY DEF Status
<1>10. reply' \in [Controls -> SUBSET [r : Routers, c : Comps, in : Nat, out : Nat]]
  BY <1>7, <1>9 DEF TypeOK
<1> QED
  BY <1>3, <1>8, <1>10 DEF Status, TypeOK, routerVars, compVars, histVars

LEMMA InitType == Init => TypeOK
<1> SUFFICES ASSUME Init PROVE TypeOK
  OBVIOUS
<1>1. ready \in Seq(Handlers)
  BY EmptySeq DEF Init
<1>2. run \in [Threads -> Frames]
  BY IdleFrame DEF Init
<1>3. /\ genOn \in PerObject(BOOLEAN) /\ timer \in PerObject(BOOLEAN)
      /\ inCount \in PerObject(Nat) /\ begun \in PerObject(Nat) /\ emitted \in PerObject(Nat)
      /\ dropped \in PerObject(Nat) /\ fed \in PerObject(Nat)
  BY DEF Init, PerObject, Zero, False
<1>4. /\ ctl \in [Controls -> {"reading", "serving", "queued"}]
      /\ reply \in [Controls -> SUBSET [r : Routers, c : Comps, in : Nat, out : Nat]]
  BY DEF Init
<1>5. /\ started \in [Routers -> BOOLEAN] /\ restarted \in [Routers -> BOOLEAN]
      /\ conf \in [Routers -> Configs \cup {NoConfig}]
      /\ out \in [Routers -> Nat]
  BY DEF Init
<1>6. /\ cur \in Routers /\ made \in Routers /\ commanded \in BOOLEAN
      /\ fault \in {"none", "freed", "race"}
      /\ asked \in 0 .. MaxCommands /\ heard \in 0 .. MaxMessages
  BY RouterZero DEF Init
<1> QED BY <1>1, <1>2, <1>3, <1>4, <1>5, <1>6 DEF TypeOK

LEMMA NextType == ASSUME TypeOK, [Next]_vars PROVE TypeOK'
<1>1. ASSUME NEW t \in Threads, Works(t) PROVE TypeOK'
  BY <1>1, RunGenerateType, GenerateType, RunProcessType, RunRouteType, DoRouteType,
     RunReadType, CountBytesType, DeliverType, SetStartedType, SweepOneType,
     SweepDoneType, ReadPreviousType, ExchangeType, FillType, StatusType DEF Works
<1>2. ASSUME NEW t \in Threads, Accept(t) PROVE TypeOK'
  BY <1>2, HearMessageType, AcceptCommandType, AcceptDeployType, AcceptStatusType
     DEF Accept
<1>3. ASSUME Timers PROVE TypeOK'
  BY <1>3, TimerFiresType DEF Timers
<1>4. ASSUME UNCHANGED vars PROVE TypeOK'
  BY <1>4 DEF vars, routerVars, compVars, histVars, TypeOK
<1> QED BY <1>1, <1>2, <1>3, <1>4 DEF Next

\* Every variable keeps to its domain; in particular every handler in the queue
\* names a component, and every thread serving a request its connection.
THEOREM TypeCorrect == Spec => []TypeOK
<1>1. Init => TypeOK
  BY InitType
<1>2. TypeOK /\ [Next]_vars => TypeOK'
  BY NextType
<1> QED BY <1>1, <1>2, PTL DEF Spec

-----------------------------------------------------------------------------
(* A freed router stays freed *)

LEMMA HeldByTail ==
  ASSUME NEW q \in Seq(Handlers), q # <<>>, NEW r, HeldBy(Tail(q), r)
  PROVE  HeldBy(q, r)
<1>1. /\ Tail(q) \in Seq(Handlers) /\ Len(Tail(q)) = Len(q) - 1
      /\ \A i \in 1 .. Len(Tail(q)) : Tail(q)[i] = q[i + 1]
  BY HeadTailProperties
<1>2. PICK i \in 1 .. Len(Tail(q)) : HandlerHolds(Tail(q)[i], r)
  BY <1>1, LenProperties DEF HeldBy
<1>3. i + 1 \in DOMAIN q /\ HandlerHolds(q[i + 1], r)
  BY <1>1, <1>2, LenProperties
<1> QED BY <1>3 DEF HeldBy

LEMMA HeldByConcat ==
  ASSUME NEW q \in Seq(Handlers), NEW s \in Seq(Handlers), NEW r,
         HeldBy(q \o s, r)
  PROVE  HeldBy(q, r) \/ HeldBy(s, r)
<1>1. /\ q \o s \in Seq(Handlers) /\ Len(q \o s) = Len(q) + Len(s)
      /\ \A i \in 1 .. Len(q) + Len(s) :
            (q \o s)[i] = IF i <= Len(q) THEN q[i] ELSE s[i - Len(q)]
  BY ConcatProperties
<1>2. PICK i \in 1 .. Len(q) + Len(s) : HandlerHolds((q \o s)[i], r)
  BY <1>1, LenProperties DEF HeldBy
<1>3. CASE i <= Len(q)
  <2>1. i \in DOMAIN q /\ HandlerHolds(q[i], r)
    BY <1>1, <1>2, <1>3, LenProperties
  <2> QED BY <2>1 DEF HeldBy
<1>4. CASE ~(i <= Len(q))
  <2>1. Len(q) \in Nat /\ Len(s) \in Nat
    BY LenProperties
  <2>2. i - Len(q) \in DOMAIN s /\ HandlerHolds(s[i - Len(q)], r)
    BY <1>1, <1>2, <1>4, <2>1, LenProperties
  <2> QED BY <2>2 DEF HeldBy
<1> QED BY <1>3, <1>4

LEMMA HeldByAppend ==
  ASSUME NEW q \in Seq(Handlers), NEW h \in Handlers, NEW r,
         HeldBy(Append(q, h), r)
  PROVE  HeldBy(q, r) \/ HandlerHolds(h, r)
<1>1. PICK i \in 1 .. Len(q) + 1 : HandlerHolds(Append(q, h)[i], r)
  BY DEF HeldBy
<1>2. CASE i <= Len(q)
  <2>1. i \in DOMAIN q /\ HandlerHolds(q[i], r)
    BY <1>1, <1>2
  <2> QED BY <2>1 DEF HeldBy
<1>3. CASE i = Len(q) + 1
  BY <1>1, <1>3
<1> QED BY <1>2, <1>3, LenProperties

\* generate() posts a do_route only for a router it could lock.
LEMMA HeldByGeneratePosts ==
  ASSUME NEW r \in Routers, NEW c \in Comps, NEW x,
         HeldBy(GeneratePosts(r, c), x)
  PROVE  x = r /\ Alive(r)
<1> DEFINE first == IF Emits(r, c) THEN <<RouteHandler(r, c)>> ELSE <<>>
<1>1. RouteHandler(r, c) \in Handlers /\ GenerateHandler(r, c) \in Handlers
  BY DEF RouteHandler, GenerateHandler, Handlers
<1>2. first \in Seq(Handlers) /\ NextGenerate(r, c) \in Seq(Handlers)
  BY <1>1, EmptySeq DEF NextGenerate
<1>3. HeldBy(first, x) \/ HeldBy(NextGenerate(r, c), x)
  BY <1>2, HeldByConcat DEF GeneratePosts
<1>4. ~HeldBy(NextGenerate(r, c), x)
  BY DEF HeldBy, NextGenerate, GenerateHandler, HandlerHolds
<1>5. HeldBy(first, x) => x = r /\ Alive(r)
  BY DEF HeldBy, HandlerHolds, RouteHandler, Emits
<1> QED BY <1>3, <1>4, <1>5

LEMMA HeldByLocalPosts ==
  ASSUME TypeOK, NEW r \in Routers, NEW c \in Comps, NEW x
  PROVE  ~HeldBy(LocalPosts(r, c), x)
<1>1. conf[r] \in ConfigShape
  BY NoConfigShape DEF TypeOK
<1>2. \A p \in OutPorts : conf[r].local[c][p] \in Seq(Dest)
  BY <1>1 DEF ConfigShape
<1>3. 0 \in OutPorts /\ 1 \in OutPorts
  BY DEF OutPorts
<1>4. \A p \in OutPorts : ~HeldBy(Processes(r, conf[r].local[c][p]), x)
  BY DEF HeldBy, Processes, HandlerHolds
<1>5. \A p \in OutPorts : Processes(r, conf[r].local[c][p]) \in Seq(Handlers)
  BY <1>2, ProcessesType
<1>6. ~HeldBy(Processes(r, conf[r].local[c][0]) \o Processes(r, conf[r].local[c][1]), x)
  BY <1>3, <1>4, <1>5, HeldByConcat
<1> QED BY <1>3, <1>4, <1>6 DEF LocalPosts

LEMMA LocalPostsNoRead ==
  ASSUME TypeOK, NEW r \in Routers, NEW c \in Comps
  PROVE  \A i \in DOMAIN LocalPosts(r, c) : LocalPosts(r, c)[i].op # "read"
<1> DEFINE A == Processes(r, conf[r].local[c][0])
           B == Processes(r, conf[r].local[c][1])
<1>1. conf[r] \in ConfigShape
  BY NoConfigShape DEF TypeOK
<1>2. \A p \in OutPorts : conf[r].local[c][p] \in Seq(Dest)
  BY <1>1 DEF ConfigShape
<1>3. 0 \in OutPorts /\ 1 \in OutPorts
  BY DEF OutPorts
<1>4. /\ \A i \in DOMAIN A : A[i].op # "read"
      /\ \A i \in DOMAIN B : B[i].op # "read"
  BY DEF Processes
<1>5. A \in Seq(Handlers) /\ B \in Seq(Handlers)
  BY <1>2, <1>3, ProcessesType
<1>6. LocalPosts(r, c) \in {A, A \o B}
  BY DEF LocalPosts
<1> HIDE DEF A, B
<1>7. \A i \in DOMAIN (A \o B) : (A \o B)[i].op # "read"
  BY <1>4, <1>5, ConcatProperties, LenProperties
<1> QED BY <1>4, <1>6, <1>7

\* Nobody comes to hold a router of 0 .. made that was free before the step.
LEMMA NoNewHolder ==
  ASSUME TypeOK, Next, NEW r \in 0 .. made
  PROVE  /\ cur' = r => cur = r
         /\ HeldBy(ready', r) => Alive(r)
         /\ \A t \in Threads : r \in run'[t].own => Alive(r)
<1> DEFINE Goal == /\ cur' = r => cur = r
                   /\ HeldBy(ready', r) => Alive(r)
                   /\ \A t \in Threads : r \in run'[t].own => Alive(r)
<1>0. /\ HeldBy(ready, r) => Alive(r)
      /\ \A t \in Threads : r \in run[t].own => Alive(r)
      /\ Idle.own = {} /\ Idle \in Frames
  BY IdleFrame DEF Alive, Idle
<1>00. /\ ready \in Seq(Handlers) /\ run \in [Threads -> Frames]
       /\ made \in Nat /\ cur \in Nat
  BY DEF TypeOK, Routers
<1>t. \A t \in Threads : \A op : Takes(t, op) /\ HeldBy(Tail(ready), r) => Alive(r)
  BY <1>0, <1>00, HeldByTail DEF Takes
<1>app. \A h \in Handlers :
          ~HandlerHolds(h, r) /\ HeldBy(Append(ready, h), r) => Alive(r)
  BY <1>0, <1>00, HeldByAppend
<1>gen. \A x \in Routers, c \in Comps :
          HeldBy(ready \o GeneratePosts(x, c), r) => Alive(r)
  <2> SUFFICES ASSUME NEW x \in Routers, NEW c \in Comps,
                      HeldBy(ready \o GeneratePosts(x, c), r)
               PROVE  Alive(r)
    OBVIOUS
  <2>1. HeldBy(ready, r) \/ HeldBy(GeneratePosts(x, c), r)
    BY <1>00, GeneratePostsType, HeldByConcat
  <2>2. HeldBy(GeneratePosts(x, c), r) => Alive(r)
    BY HeldByGeneratePosts
  <2> QED BY <1>0, <2>1, <2>2
<1>loc. \A x \in Routers, c \in Comps :
          HeldBy(ready \o LocalPosts(x, c), r) => Alive(r)
  <2> SUFFICES ASSUME NEW x \in Routers, NEW c \in Comps,
                      HeldBy(ready \o LocalPosts(x, c), r)
               PROVE  Alive(r)
    OBVIOUS
  <2>1. HeldBy(ready, r) \/ HeldBy(LocalPosts(x, c), r)
    BY <1>00, LocalPostsType, HeldByConcat
  <2> QED BY <1>0, <2>1, HeldByLocalPosts
<1>1. ASSUME NEW t \in Threads, RunGenerate(t) PROVE Goal
  <2>1. ready' = Tail(ready) /\ cur' = cur /\ Takes(t, "generate")
    BY <1>1 DEF RunGenerate, routerVars
  <2>2. \A u \in Threads : run'[u].own \in {run[u].own, {}}
    BY <1>0, <1>00, <1>1 DEF RunGenerate, Idle
  <2> QED BY <1>0, <1>t, <2>1, <2>2
<1>2. ASSUME NEW t \in Threads, Generate(t) PROVE Goal
  <2>1. run[t].r \in Routers /\ run[t].c \in Comps
    BY <1>2 DEF Generate, At, TypeOK, Frames, FrameShape, PacketSteps
  <2>2. /\ ready' = ready \o GeneratePosts(run[t].r, run[t].c)
        /\ cur' = cur
    BY <1>2 DEF Generate, GenerateEffect, routerVars
  <2>3. HeldBy(ready', r) => Alive(r)
    BY <1>gen, <2>1, <2>2
  <2>4. \A u \in Threads : run'[u].own \in {run[u].own, {}}
    BY <1>0, <1>00, <1>2 DEF Generate
  <2> QED BY <1>0, <2>2, <2>3, <2>4
<1>3. ASSUME NEW t \in Threads, RunProcess(t) PROVE Goal
  <2> DEFINE h == Head(ready)
  <2>1. h \in Handlers /\ h.op = "process" /\ Tail(ready) \in Seq(Handlers)
    BY <1>3, HeadHandler DEF RunProcess
  <2>2. h.r \in Routers /\ h.c \in Comps
    BY <2>1 DEF Handlers
  <2>3. RouteHandler(h.r, h.c) \in Handlers
    BY <2>2 DEF RouteHandler, Handlers
  <2>4. /\ ready' = Tail(ready)
           \/ (Alive(h.r) /\ ready' = Append(Tail(ready), RouteHandler(h.r, h.c)))
        /\ cur' = cur /\ run' = run /\ Takes(t, "process")
    BY <1>3 DEF RunProcess, routerVars
  <2>5. HeldBy(ready', r) => Alive(r)
    <3>1. HandlerHolds(RouteHandler(h.r, h.c), r) => h.r = r
      BY DEF HandlerHolds, RouteHandler
    <3>2. HeldBy(Tail(ready), r) => Alive(r)
      BY <1>t, <2>4
    <3>3. HeldBy(Append(Tail(ready), RouteHandler(h.r, h.c)), r)
            => HeldBy(Tail(ready), r) \/ HandlerHolds(RouteHandler(h.r, h.c), r)
      BY <2>1, <2>3, HeldByAppend
    <3> QED BY <2>4, <3>1, <3>2, <3>3
  <2> QED BY <1>0, <2>4, <2>5
<1>4. ASSUME NEW t \in Threads, RunRoute(t) PROVE Goal
  <2> DEFINE h == Head(ready)
  <2>1. h \in Handlers /\ h.op = "route"
    BY <1>4, HeadHandler DEF RunRoute
  <2>2. ready' = Tail(ready) /\ cur' = cur /\ Takes(t, "route")
    BY <1>4 DEF RunRoute, routerVars
  <2>3. h.r = r => Alive(r)
    <3>1. 1 \in DOMAIN ready /\ h = ready[1]
      BY <1>00, <2>2 DEF Takes
    <3> QED BY <1>0, <2>1, <3>1 DEF HeldBy, HandlerHolds
  <2>4. \A u \in Threads : run'[u].own \in {run[u].own, {h.r}}
    <3> DEFINE f == [Idle EXCEPT !.pc = "route", !.r = h.r, !.c = h.c,
                                 !.own = {h.r}]
    <3>1. f.own = {h.r}
      BY DEF Idle
    <3>2. run' = run \/ run' = [run EXCEPT ![t] = f]
      BY <1>4 DEF RunRoute
    <3> HIDE DEF f
    <3> QED BY <1>00, <3>1, <3>2
  <2> QED BY <1>0, <1>t, <2>2, <2>3, <2>4
<1>5. ASSUME NEW t \in Threads, DoRoute(t) PROVE Goal
  <2>1. run[t].r \in Routers /\ run[t].c \in Comps
    BY <1>5 DEF DoRoute, At, TypeOK, Frames, FrameShape, PacketSteps
  <2>2. ready' = ready \o LocalPosts(run[t].r, run[t].c) /\ cur' = cur
    BY <1>5 DEF DoRoute, routerVars
  <2>3. HeldBy(ready', r) => Alive(r)
    BY <1>loc, <2>1, <2>2
  <2>4. \A u \in Threads : run'[u].own \in {run[u].own, {}}
    BY <1>0, <1>00, <1>5 DEF DoRoute
  <2> QED BY <1>0, <2>2, <2>3, <2>4
<1>6. ASSUME NEW t \in Threads, RunRead(t) PROVE Goal
  <2>1. ready' = Tail(ready) /\ cur' = cur /\ run' = run /\ Takes(t, "read")
    BY <1>6 DEF RunRead, routerVars
  <2> QED BY <1>0, <1>t, <2>1
<1>7. ASSUME NEW t \in Threads, CountBytes(t) PROVE Goal
  <2>1. /\ ready' = ready /\ cur' = cur
        /\ \A u \in Threads : run'[u].own = run[u].own
    BY <1>00, <1>7 DEF CountBytes, routerVars, Frames, FrameShape
  <2> QED BY <1>0, <2>1
<1>8. ASSUME NEW t \in Threads, Deliver(t) PROVE Goal
  <2> DEFINE h == [op |-> "process", r |-> run[t].r, c |-> run[t].c,
                   port |-> run[t].port]
  <2>1. h \in Handlers
    BY <1>8 DEF Deliver, At, TypeOK, Frames, FrameShape, MessageSteps, Handlers
  <2>2. (ready' = ready \/ ready' = Append(ready, h)) /\ cur' = cur
    BY <1>8 DEF Deliver, routerVars
  <2>3. ~HandlerHolds(h, r)
    BY DEF HandlerHolds
  <2>4. \A u \in Threads : run'[u].own \in {run[u].own, {}}
    BY <1>0, <1>00, <1>8 DEF Deliver
  <2> HIDE DEF h
  <2>5. HeldBy(ready', r) => Alive(r)
    BY <1>0, <1>app, <2>1, <2>2, <2>3
  <2> QED BY <1>0, <2>2, <2>4, <2>5
<1>a. ASSUME NEW t \in Threads, run[t].k \in Controls, Answer(t, ready), cur' = cur
      PROVE  Goal
  <2> DEFINE h == [op |-> "read", k |-> run[t].k]
  <2>1. h \in Handlers /\ ~HandlerHolds(h, r)
    BY <1>a DEF Handlers, HandlerHolds
  <2>2. ready' = Append(ready, h)
    BY <1>a DEF Answer
  <2>3. \A u \in Threads : run'[u].own \in {run[u].own, {}}
    BY <1>0, <1>00, <1>a DEF Answer
  <2> HIDE DEF h
  <2> QED BY <1>0, <1>a, <1>app, <2>1, <2>2, <2>3
<1>9. ASSUME NEW t \in Threads, SetStarted(t) PROVE Goal
  <2>1. /\ ready' = ready /\ cur' = cur
        /\ \A u \in Threads : run'[u].own = run[u].own
    BY <1>00, <1>9 DEF SetStarted, Frames, FrameShape
  <2> QED BY <1>0, <2>1
<1>10. ASSUME NEW t \in Threads, SweepOne(t) PROVE Goal
  <2> DEFINE c == First(run[t].todo)
  <2>1. run[t].r \in Routers /\ c \in Comps
    BY <1>10, FirstIn DEF SweepOne, TypeOK, Frames, FrameShape
  <2>2. /\ StartComponent(run[t].r, c) \/ StopComponent(run[t].r, c)
        /\ cur' = cur
        /\ \A u \in Threads : run'[u].own = run[u].own
    BY <1>00, <1>10 DEF SweepOne, routerVars, Frames, FrameShape
  <2>3. \/ ready' = ready
        \/ ready' = ready \o GeneratePosts(run[t].r, c)
        \/ ready' = Append(ready, GenerateHandler(run[t].r, c))
    BY <2>2 DEF StartComponent, StopComponent, GenerateEffect
  <2>4. /\ GenerateHandler(run[t].r, c) \in Handlers
        /\ ~HandlerHolds(GenerateHandler(run[t].r, c), r)
    BY <2>1 DEF GenerateHandler, Handlers, HandlerHolds
  <2> HIDE DEF c
  <2>5. HeldBy(ready', r) => Alive(r)
    BY <1>0, <1>app, <1>gen, <2>1, <2>3, <2>4
  <2> QED BY <1>0, <2>2, <2>5
<1>11. ASSUME NEW t \in Threads, SweepDone(t) PROVE Goal
  <2>1. run[t].k \in Controls /\ cur' = cur
    BY <1>11 DEF SweepDone, At, TypeOK, Frames, RequestSteps, routerVars
  <2>2. CASE run[t].on /\ run[t].old # None
    <3>1. /\ ready' = ready
          /\ run' = [run EXCEPT ![t].pc = "set", ![t].on = FALSE, ![t].r = run[t].old]
      BY <1>11, <2>2 DEF SweepDone
    <3>2. \A u \in Threads : run'[u].own = run[u].own
      BY <1>00, <3>1 DEF Frames, FrameShape
    <3> QED BY <1>0, <2>1, <3>1, <3>2
  <2>3. CASE ~(run[t].on /\ run[t].old # None)
    BY <1>11, <1>a, <2>1, <2>3 DEF SweepDone
  <2> QED BY <2>2, <2>3
<1>12. ASSUME NEW t \in Threads, ReadPrevious(t) PROVE Goal
  <2>1. /\ ready' = ready /\ cur' = cur
        /\ \A u \in Threads : run'[u].own = run[u].own
    BY <1>00, <1>12 DEF ReadPrevious, routerVars, Frames, FrameShape
  <2> QED BY <1>0, <2>1
<1>13. ASSUME NEW t \in Threads, Exchange(t) PROVE Goal
  <2>1. /\ ready' = ready /\ cur' = made + 1
        /\ \A u \in Threads : run'[u].own \in {run[u].own, {cur, made + 1}}
    BY <1>00, <1>13 DEF Exchange, Frames, FrameShape
  <2>2. cur = r => Alive(r)
    BY DEF Alive
  <2> QED BY <1>0, <1>00, <2>1, <2>2
<1>14. ASSUME NEW t \in Threads, Fill(t) PROVE Goal
  <2>1. /\ ready' = ready /\ cur' = cur
        /\ \A u \in Threads : run'[u].own = run[u].own
    BY <1>00, <1>14 DEF Fill, Frames, FrameShape
  <2> QED BY <1>0, <2>1
<1>15. ASSUME NEW t \in Threads, Status(t) PROVE Goal
  <2>1. run[t].k \in Controls /\ cur' = cur /\ Answer(t, ready)
    BY <1>15 DEF Status, At, TypeOK, Frames, RequestSteps, routerVars
  <2> QED BY <1>a, <2>1
<1>16. ASSUME NEW t \in Threads, Accept(t) PROVE Goal
  <2>1. /\ ready' = ready /\ cur' = cur
        /\ \A u \in Threads : run'[u].own \in {run[u].own, {}}
    <3>1. PICK f : f.own = {} /\ run' = [run EXCEPT ![t] = f]
                  /\ ready' = ready /\ cur' = cur
      BY <1>16 DEF Accept, HearMessage, AcceptCommand, AcceptDeploy,
        AcceptStatus, Accepts, routerVars, Idle
    <3> QED BY <1>00, <3>1
  <2> QED BY <1>0, <2>1
<1>17. ASSUME NEW x \in Routers, NEW c \in Comps, TimerFires(x, c) PROVE Goal
  <2>1. /\ ready' = Append(ready, GenerateHandler(x, c))
        /\ cur' = cur /\ run' = run
    BY <1>17 DEF TimerFires, routerVars
  <2>2. GenerateHandler(x, c) \in Handlers /\ ~HandlerHolds(GenerateHandler(x, c), r)
    BY DEF GenerateHandler, Handlers, HandlerHolds
  <2> QED BY <1>0, <1>app, <2>1, <2>2
<1> HIDE DEF Goal
<1>18. Goal
  BY <1>1, <1>2, <1>3, <1>4, <1>5, <1>6, <1>7, <1>8, <1>9, <1>10, <1>11, <1>12,
     <1>13, <1>14, <1>15, <1>16, <1>17 DEF Next, Works, Timers
<1> QED BY <1>18 DEF Goal

\* A router object that was freed is never reached again: whoever may post a
\* do_route on it holds it or locked it while it was alive.
THEOREM FreedStaysFreed == Spec => NoRevival
<1>1. ASSUME TypeOK, [Next]_vars
      PROVE  [\A r \in 0 .. made : ~Alive(r) => ~Alive(r)']_vars
  <2>1. CASE UNCHANGED vars
    BY <2>1
  <2>2. CASE Next
    BY <1>1, <2>2, NoNewHolder DEF Alive
  <2> QED BY <1>1, <2>1, <2>2
<1> QED BY <1>1, TypeCorrect, PTL DEF Spec, NoRevival

-----------------------------------------------------------------------------
(* One terminal: no request meets undefined behaviour *)

LEMMA ReadOnceTail ==
  ASSUME NEW q \in Seq(Handlers), q # <<>>, NEW state, ReadOnce(q, state),
         Head(q).op # "read"
  PROVE  ReadOnce(Tail(q), state)
<1>1. /\ DOMAIN Tail(q) = 1 .. Len(q) - 1 /\ DOMAIN q = 1 .. Len(q) /\ Len(q) \in Nat
      /\ \A i \in DOMAIN Tail(q) : Tail(q)[i] = q[i + 1]
  BY HeadTailProperties, LenProperties
<1>2. \A i \in DOMAIN Tail(q) : i + 1 \in DOMAIN q
  BY <1>1
<1> SUFFICES ASSUME NEW i \in DOMAIN Tail(q), Tail(q)[i].op = "read"
             PROVE  /\ state[Tail(q)[i].k] = "queued"
                    /\ \A j \in DOMAIN Tail(q) :
                        Tail(q)[j].op = "read" /\ Tail(q)[j].k = Tail(q)[i].k
                          => i = j
  BY DEF ReadOnce
<1>3. state[q[i + 1].k] = "queued" /\ q[i + 1] = Tail(q)[i]
  BY <1>1, <1>2 DEF ReadOnce
<1>4. ASSUME NEW j \in DOMAIN Tail(q), Tail(q)[j].op = "read",
             Tail(q)[j].k = Tail(q)[i].k
      PROVE  i = j
  <2>1. i + 1 = j + 1
    BY <1>1, <1>2, <1>4 DEF ReadOnce
  <2> QED BY <1>1, <2>1
<1> QED BY <1>3, <1>4

LEMMA ReadOnceRead ==
  ASSUME NEW q \in Seq(Handlers), q # <<>>, NEW S,
         NEW state \in [Controls -> S],
         ReadOnce(q, state), Head(q).op = "read"
  PROVE  ReadOnce(Tail(q), [state EXCEPT ![Head(q).k] = "reading"])
<1>1. /\ DOMAIN Tail(q) = 1 .. Len(q) - 1 /\ DOMAIN q = 1 .. Len(q)
      /\ Len(q) \in Nat \ {0} /\ Head(q) = q[1]
      /\ \A i \in DOMAIN Tail(q) : Tail(q)[i] = q[i + 1]
  BY HeadTailProperties, LenProperties, EmptySeq
<1>2. \A i \in DOMAIN Tail(q) : i + 1 \in DOMAIN q /\ i + 1 # 1 /\ 1 \in DOMAIN q
  BY <1>1
<1> DEFINE new == [state EXCEPT ![Head(q).k] = "reading"]
<1> SUFFICES ASSUME NEW i \in DOMAIN Tail(q), Tail(q)[i].op = "read"
             PROVE  /\ new[Tail(q)[i].k] = "queued"
                    /\ \A j \in DOMAIN Tail(q) :
                        Tail(q)[j].op = "read" /\ Tail(q)[j].k = Tail(q)[i].k
                          => i = j
  BY DEF ReadOnce
<1>3. state[q[i + 1].k] = "queued" /\ q[i + 1] = Tail(q)[i] /\ q[i + 1].k # q[1].k
  BY <1>1, <1>2 DEF ReadOnce
<1>5. new[Tail(q)[i].k] = "queued"
  <2>1. Tail(q)[i] \in Handlers
    BY <1>1, <1>2, <1>3, ElementOfSeq
  <2>2. Tail(q)[i].k \in Controls
    BY <2>1 DEF Handlers
  <2> QED BY <1>1, <1>3, <2>2
<1>4. ASSUME NEW j \in DOMAIN Tail(q), Tail(q)[j].op = "read",
             Tail(q)[j].k = Tail(q)[i].k
      PROVE  i = j
  <2>1. i + 1 = j + 1
    BY <1>1, <1>2, <1>4 DEF ReadOnce
  <2> QED BY <1>1, <2>1
<1> QED BY <1>4, <1>5

LEMMA ReadOnceConcat ==
  ASSUME NEW q \in Seq(Handlers), NEW s \in Seq(Handlers), NEW state,
         ReadOnce(q, state), \A i \in DOMAIN s : s[i].op # "read"
  PROVE  ReadOnce(q \o s, state)
<1>1. /\ DOMAIN (q \o s) = 1 .. Len(q) + Len(s)
      /\ DOMAIN q = 1 .. Len(q) /\ DOMAIN s = 1 .. Len(s)
      /\ Len(q) \in Nat /\ Len(s) \in Nat
      /\ \A i \in 1 .. Len(q) + Len(s) :
            (q \o s)[i] = IF i <= Len(q) THEN q[i] ELSE s[i - Len(q)]
  BY ConcatProperties, LenProperties
<1>2. \A i \in DOMAIN (q \o s) : (q \o s)[i].op = "read" =>
        i \in DOMAIN q /\ (q \o s)[i] = q[i]
  <2> SUFFICES ASSUME NEW i \in DOMAIN (q \o s), (q \o s)[i].op = "read"
               PROVE  i \in DOMAIN q /\ (q \o s)[i] = q[i]
    OBVIOUS
  <2>1. CASE i <= Len(q)
    BY <1>1, <2>1
  <2>2. CASE ~(i <= Len(q))
    <3>1. i - Len(q) \in DOMAIN s /\ (q \o s)[i] = s[i - Len(q)]
      BY <1>1, <2>2
    <3> QED BY <3>1
  <2> QED BY <2>1, <2>2
<1> QED BY <1>2 DEF ReadOnce

\* Appending one handler that is no completion is a special case.
LEMMA ReadOnceAppend ==
  ASSUME NEW q \in Seq(Handlers), NEW h \in Handlers, NEW state,
         ReadOnce(q, state), h.op # "read"
  PROVE  ReadOnce(Append(q, h), state)
<1>1. Append(q, h) = q \o <<h>> /\ <<h>> \in Seq(Handlers)
  OBVIOUS
<1>2. \A i \in DOMAIN <<h>> : <<h>>[i].op # "read"
  OBVIOUS
<1> QED BY <1>1, <1>2, ReadOnceConcat

LEMMA ReadOnceAnswer ==
  ASSUME NEW q \in Seq(Handlers), NEW k \in Controls, NEW S,
         NEW state \in [Controls -> S],
         ReadOnce(q, state), state[k] = "serving"
  PROVE  ReadOnce(Append(q, [op |-> "read", k |-> k]), [state EXCEPT ![k] = "queued"])
<1> DEFINE h == [op |-> "read", k |-> k]
           p == Append(q, h)
           new == [state EXCEPT ![k] = "queued"]
<1>1. /\ DOMAIN p = 1 .. Len(q) + 1 /\ DOMAIN q = 1 .. Len(q) /\ Len(q) \in Nat
      /\ p[Len(q) + 1] = h /\ \A i \in DOMAIN q : p[i] = q[i]
  BY LenProperties
<1>2. \A i \in DOMAIN p : i \in DOMAIN q \/ i = Len(q) + 1
  BY <1>1
<1>3. \A i \in DOMAIN q : q[i].op = "read" => q[i].k # k /\ q[i].k \in Controls
  <2>1. \A i \in DOMAIN q : q[i] \in Handlers
    BY <1>1, ElementOfSeq
  <2> QED BY <2>1 DEF ReadOnce, Handlers
<1>4. new[k] = "queued" /\ \A j \in Controls : j # k => new[j] = state[j]
  OBVIOUS
<1>5. h.op = "read" /\ h.k = k
  OBVIOUS
<1> HIDE DEF p, new, h
<1>6. ReadOnce(p, new)
  <2> SUFFICES ASSUME NEW i \in DOMAIN p, p[i].op = "read"
               PROVE  /\ new[p[i].k] = "queued"
                      /\ \A j \in DOMAIN p : p[j].op = "read" /\ p[j].k = p[i].k
                            => i = j
    BY DEF ReadOnce
  <2>1. CASE i \in DOMAIN q
    BY <1>1, <1>2, <1>3, <1>4, <1>5, <2>1 DEF ReadOnce
  <2>2. CASE i = Len(q) + 1
    BY <1>1, <1>2, <1>3, <1>4, <1>5, <2>2
  <2> QED BY <1>2, <2>1, <2>2
<1> QED BY <1>6 DEF p, new, h

LEMMA ReadOnceAccept ==
  ASSUME NEW q \in Seq(Handlers), NEW k \in Controls, NEW S,
         NEW state \in [Controls -> S],
         ReadOnce(q, state), state[k] = "reading"
  PROVE  ReadOnce(q, [state EXCEPT ![k] = "serving"])
<1>1. \A i \in DOMAIN q : q[i] \in Handlers
  BY ElementOfSeq, LenProperties
<1>2. \A i \in DOMAIN q : q[i].op = "read" => q[i].k # k /\ q[i].k \in Controls
  BY <1>1 DEF ReadOnce, Handlers
<1> QED BY <1>2 DEF ReadOnce

\* A step that neither accepts nor answers a request.
LEMMA OneRequestFrame ==
  ASSUME OneRequestEach, ctl' = ctl, ReadOnce(ready', ctl),
         \A u \in Threads : InRequest(u)' => InRequest(u) /\ run'[u].k = run[u].k
  PROVE  OneRequestEach'
BY DEF OneRequestEach, InRequest

LEMMA OneRequestAccept ==
  ASSUME TypeOK, OneRequestEach, NEW t \in Threads, NEW k \in Controls,
         NEW f \in Frames, f.k = k, Accepts(t, k, f)
  PROVE  OneRequestEach'
<1>1. /\ ctl \in [Controls -> {"reading", "serving", "queued"}]
      /\ run \in [Threads -> Frames] /\ ready \in Seq(Handlers)
  BY DEF TypeOK
<1>2. /\ run[t] = Idle /\ ctl[k] = "reading" /\ ctl' = [ctl EXCEPT ![k] = "serving"]
      /\ run' = [run EXCEPT ![t] = f] /\ ready' = ready
  BY DEF Accepts, Free
<1>3. \A u \in Threads : InRequest(u) => run[u].k # k /\ run[u].k \in Controls
  BY <1>1, <1>2 DEF OneRequestEach, InRequest, Frames
<1>4. ctl'[k] = "serving" /\ \A j \in Controls : j # k => ctl'[j] = ctl[j]
  BY <1>1, <1>2
<1>5. ReadOnce(ready', ctl')
  BY <1>1, <1>2, ReadOnceAccept DEF OneRequestEach
<1>6. run'[t].k = k /\ \A u \in Threads : u # t => run'[u] = run[u]
  BY <1>1, <1>2
<1>7. \A u \in Threads : InRequest(u)' => ctl'[run'[u].k] = "serving"
  BY <1>3, <1>4, <1>6 DEF OneRequestEach, InRequest
<1>8. \A u, v \in Threads :
        InRequest(u)' /\ InRequest(v)' /\ run'[u].k = run'[v].k => u = v
  BY <1>3, <1>6 DEF OneRequestEach, InRequest
<1> QED BY <1>5, <1>7, <1>8 DEF OneRequestEach

LEMMA OneRequestAnswer ==
  ASSUME TypeOK, OneRequestEach, NEW t \in Threads, InRequest(t), Answer(t, ready)
  PROVE  OneRequestEach'
<1> DEFINE k == run[t].k
<1>1. /\ ctl \in [Controls -> {"reading", "serving", "queued"}]
      /\ run \in [Threads -> Frames] /\ ready \in Seq(Handlers) /\ k \in Controls
  BY DEF TypeOK, InRequest, Frames
<1>2. /\ ctl[k] = "serving" /\ ctl' = [ctl EXCEPT ![k] = "queued"]
      /\ run' = [run EXCEPT ![t] = Idle]
      /\ ready' = Append(ready, [op |-> "read", k |-> k])
  BY DEF Answer, OneRequestEach
<1>3. ReadOnce(ready', ctl')
  BY <1>1, <1>2, ReadOnceAnswer DEF OneRequestEach
<1>4. \A u \in Threads : InRequest(u)' => u # t /\ InRequest(u) /\ run'[u] = run[u]
  BY <1>1, <1>2 DEF InRequest, Idle, RequestSteps
<1>5. \A u \in Threads : InRequest(u) /\ u # t => run[u].k # k /\ run[u].k \in Controls
  BY <1>1 DEF OneRequestEach, InRequest, Frames
<1>6. \A j \in Controls : j # k => ctl'[j] = ctl[j]
  BY <1>1, <1>2
<1>7. \A u \in Threads : InRequest(u)' => ctl'[run'[u].k] = "serving"
  BY <1>4, <1>5, <1>6 DEF OneRequestEach
<1>8. \A u, v \in Threads :
        InRequest(u)' /\ InRequest(v)' /\ run'[u].k = run'[v].k => u = v
  BY <1>4 DEF OneRequestEach
<1> QED BY <1>3, <1>7, <1>8 DEF OneRequestEach

LEMMA OneRequestNext ==
  ASSUME TypeOK, OneRequestEach, Next PROVE OneRequestEach'
<1>0. /\ ready \in Seq(Handlers) /\ run \in [Threads -> Frames]
      /\ ReadOnce(ready, ctl) /\ Idle.pc \notin RequestSteps
      /\ ctl \in [Controls -> {"reading", "serving", "queued"}]
  BY DEF TypeOK, OneRequestEach, Idle, RequestSteps
<1>tail. \A t \in Threads : \A op : Takes(t, op) /\ op # "read" =>
            ReadOnce(Tail(ready), ctl)
  BY <1>0, ReadOnceTail DEF Takes
<1>gen. \A r \in Routers, c \in Comps : ReadOnce(ready \o GeneratePosts(r, c), ctl)
  <2> SUFFICES ASSUME NEW r \in Routers, NEW c \in Comps
               PROVE  ReadOnce(ready \o GeneratePosts(r, c), ctl)
    OBVIOUS
  <2>1. \A i \in DOMAIN GeneratePosts(r, c) : GeneratePosts(r, c)[i].op # "read"
    BY DEF GeneratePosts, NextGenerate, RouteHandler, GenerateHandler
  <2> QED BY <1>0, <2>1, GeneratePostsType, ReadOnceConcat
<1>app. \A h \in Handlers : h.op # "read" => ReadOnce(Append(ready, h), ctl)
  BY <1>0, ReadOnceAppend
<1>1. ASSUME NEW t \in Threads, RunGenerate(t) PROVE OneRequestEach'
  <2>1. ready' = Tail(ready) /\ ctl' = ctl /\ Takes(t, "generate")
    BY <1>1 DEF RunGenerate
  <2> DEFINE f == IF genOn[Head(ready).r][Head(ready).c]
                  THEN [Idle EXCEPT !.pc = "generate", !.r = Head(ready).r,
                                    !.c = Head(ready).c]
                  ELSE Idle
  <2>2. run' = [run EXCEPT ![t] = f] /\ f.pc \in {"idle", "generate"}
    BY <1>1 DEF RunGenerate, Idle
  <2> HIDE DEF f
  <2>3. \A u \in Threads : InRequest(u)' => InRequest(u) /\ run'[u].k = run[u].k
    BY <1>0, <2>2 DEF InRequest, RequestSteps
  <2>4. ReadOnce(ready', ctl)
    BY <1>tail, <2>1
  <2> QED BY <2>1, <2>3, <2>4, OneRequestFrame
<1>2. ASSUME NEW t \in Threads, Generate(t) PROVE OneRequestEach'
  <2>1. run[t].r \in Routers /\ run[t].c \in Comps
    BY <1>2 DEF Generate, At, TypeOK, Frames, FrameShape, PacketSteps
  <2>2. /\ ready' = ready \o GeneratePosts(run[t].r, run[t].c)
        /\ ctl' = ctl /\ run' = [run EXCEPT ![t] = Idle]
    BY <1>2 DEF Generate, GenerateEffect
  <2>3. ReadOnce(ready', ctl)
    BY <1>gen, <2>1, <2>2
  <2>4. \A u \in Threads : InRequest(u)' => InRequest(u) /\ run'[u].k = run[u].k
    BY <1>0, <2>2 DEF InRequest
  <2> QED BY <2>2, <2>3, <2>4, OneRequestFrame
<1>3. ASSUME NEW t \in Threads, RunProcess(t) PROVE OneRequestEach'
  <2> DEFINE h == Head(ready)
  <2>1. h \in Handlers /\ h.op = "process" /\ Tail(ready) \in Seq(Handlers)
    BY <1>3, HeadHandler DEF RunProcess
  <2>2. RouteHandler(h.r, h.c) \in Handlers /\ RouteHandler(h.r, h.c).op # "read"
    BY <2>1 DEF RouteHandler, Handlers
  <2>3. /\ ready' = Tail(ready) \/ ready' = Append(Tail(ready), RouteHandler(h.r, h.c))
        /\ ctl' = ctl /\ run' = run /\ Takes(t, "process")
    BY <1>3 DEF RunProcess
  <2> HIDE DEF h
  <2>4. ReadOnce(Tail(ready), ctl)
    BY <1>tail, <2>3
  <2>5. ReadOnce(Append(Tail(ready), RouteHandler(h.r, h.c)), ctl)
    BY <2>1, <2>2, <2>4, ReadOnceAppend
  <2>6. ReadOnce(ready', ctl)
    BY <2>3, <2>4, <2>5
  <2>7. \A u \in Threads : InRequest(u)' => InRequest(u) /\ run'[u].k = run[u].k
    BY <2>3 DEF InRequest
  <2> QED BY <2>3, <2>6, <2>7, OneRequestFrame
<1>4. ASSUME NEW t \in Threads, RunRoute(t) PROVE OneRequestEach'
  <2>1. ready' = Tail(ready) /\ ctl' = ctl /\ Takes(t, "route")
    BY <1>4 DEF RunRoute
  <2> DEFINE f == [Idle EXCEPT !.pc = "route", !.r = Head(ready).r,
                               !.c = Head(ready).c, !.own = {Head(ready).r}]
  <2>2. (run' = run \/ run' = [run EXCEPT ![t] = f]) /\ f.pc = "route"
    BY <1>4 DEF RunRoute, Idle
  <2> HIDE DEF f
  <2>3. \A u \in Threads : InRequest(u)' => InRequest(u) /\ run'[u].k = run[u].k
    BY <1>0, <2>2 DEF InRequest, RequestSteps
  <2>4. ReadOnce(ready', ctl)
    BY <1>tail, <2>1
  <2> QED BY <2>1, <2>3, <2>4, OneRequestFrame
<1>5. ASSUME NEW t \in Threads, DoRoute(t) PROVE OneRequestEach'
  <2> DEFINE s == LocalPosts(run[t].r, run[t].c)
  <2>1. run[t].r \in Routers /\ run[t].c \in Comps
    BY <1>5 DEF DoRoute, At, TypeOK, Frames, FrameShape, PacketSteps
  <2>2. ready' = ready \o s /\ ctl' = ctl /\ run' = [run EXCEPT ![t] = Idle]
    BY <1>5 DEF DoRoute
  <2>3. s \in Seq(Handlers)
    BY <2>1, LocalPostsType
  <2>4. \A i \in DOMAIN s : s[i].op # "read"
    BY <2>1, LocalPostsNoRead
  <2> HIDE DEF s
  <2>5. ReadOnce(ready', ctl)
    BY <1>0, <2>2, <2>3, <2>4, ReadOnceConcat
  <2>6. \A u \in Threads : InRequest(u)' => InRequest(u) /\ run'[u].k = run[u].k
    BY <1>0, <2>2 DEF InRequest
  <2> QED BY <2>2, <2>5, <2>6, OneRequestFrame
<1>6. ASSUME NEW t \in Threads, RunRead(t) PROVE OneRequestEach'
  <2> DEFINE k == Head(ready).k
  <2>1. /\ ready' = Tail(ready) /\ ctl' = [ctl EXCEPT ![k] = "reading"]
        /\ run' = run /\ Takes(t, "read")
    BY <1>6 DEF RunRead
  <2>2. Head(ready).op = "read" /\ ready # <<>>
    BY <2>1 DEF Takes
  <2>3. ReadOnce(ready', ctl')
    BY <1>0, <2>1, <2>2, ReadOnceRead
  <2>4. ctl[k] = "queued"
    <3>1. 1 \in DOMAIN ready /\ Head(ready) = ready[1]
      BY <1>0, <2>2
    <3> QED BY <1>0, <2>2, <3>1 DEF ReadOnce
  <2>5. \A u \in Threads : InRequest(u) => run[u].k # k /\ run[u].k \in Controls
    BY <1>0, <2>4 DEF OneRequestEach, InRequest, Frames
  <2>6. \A u \in Threads : InRequest(u) => ctl'[run[u].k] = "serving"
    BY <1>0, <2>1, <2>5 DEF OneRequestEach
  <2> QED BY <2>1, <2>3, <2>6 DEF OneRequestEach, InRequest
<1>7. ASSUME NEW t \in Threads, CountBytes(t) PROVE OneRequestEach'
  <2>1. /\ ready' = ready /\ ctl' = ctl
        /\ \A u \in Threads : InRequest(u)' => InRequest(u) /\ run'[u].k = run[u].k
    BY <1>0, <1>7 DEF CountBytes, InRequest, RequestSteps, Frames, FrameShape
  <2> QED BY <1>0, <2>1, OneRequestFrame
<1>8. ASSUME NEW t \in Threads, Deliver(t) PROVE OneRequestEach'
  <2> DEFINE h == [op |-> "process", r |-> run[t].r, c |-> run[t].c,
                   port |-> run[t].port]
  <2>1. h \in Handlers /\ h.op # "read"
    BY <1>8 DEF Deliver, At, TypeOK, Frames, FrameShape, MessageSteps, Handlers
  <2>2. /\ ready' = ready \/ ready' = Append(ready, h)
        /\ ctl' = ctl /\ run' = [run EXCEPT ![t] = Idle]
    BY <1>8 DEF Deliver
  <2> HIDE DEF h
  <2>3. ReadOnce(ready', ctl)
    BY <1>0, <1>app, <2>1, <2>2
  <2>4. \A u \in Threads : InRequest(u)' => InRequest(u) /\ run'[u].k = run[u].k
    BY <1>0, <2>2 DEF InRequest
  <2> QED BY <2>2, <2>3, <2>4, OneRequestFrame
<1>9. ASSUME NEW t \in Threads,
             SetStarted(t) \/ ReadPrevious(t) \/ Exchange(t) \/ Fill(t)
      PROVE  OneRequestEach'
  <2>1. /\ ready' = ready /\ ctl' = ctl /\ InRequest(t)
        /\ run'[t].k = run[t].k
        /\ \A u \in Threads : u # t => run'[u] = run[u]
    BY <1>0, <1>9 DEF SetStarted, ReadPrevious, Exchange, Fill, At, InRequest,
      RequestSteps, Frames, FrameShape
  <2>2. \A u \in Threads : InRequest(u)' => InRequest(u) /\ run'[u].k = run[u].k
    BY <2>1 DEF InRequest
  <2> QED BY <1>0, <2>1, <2>2, OneRequestFrame
<1>10. ASSUME NEW t \in Threads, SweepOne(t) PROVE OneRequestEach'
  <2> DEFINE c == First(run[t].todo)
  <2>1. run[t].r \in Routers /\ c \in Comps
    BY <1>10, FirstIn DEF SweepOne, TypeOK, Frames, FrameShape
  <2>2. /\ StartComponent(run[t].r, c) \/ StopComponent(run[t].r, c)
        /\ ctl' = ctl
        /\ \A u \in Threads : InRequest(u)' => InRequest(u) /\ run'[u].k = run[u].k
    BY <1>0, <1>10 DEF SweepOne, InRequest, Frames, FrameShape
  <2>3. \/ ready' = ready
        \/ ready' = ready \o GeneratePosts(run[t].r, c)
        \/ ready' = Append(ready, GenerateHandler(run[t].r, c))
    BY <2>2 DEF StartComponent, StopComponent, GenerateEffect
  <2>4. /\ GenerateHandler(run[t].r, c) \in Handlers
        /\ GenerateHandler(run[t].r, c).op # "read"
    BY <2>1 DEF GenerateHandler, Handlers
  <2> HIDE DEF c
  <2>5. ReadOnce(ready', ctl)
    <3>1. ReadOnce(ready \o GeneratePosts(run[t].r, c), ctl)
      BY <1>gen, <2>1
    <3>2. ReadOnce(Append(ready, GenerateHandler(run[t].r, c)), ctl)
      BY <1>app, <2>4
    <3> QED BY <1>0, <2>3, <3>1, <3>2
  <2> QED BY <2>2, <2>5, OneRequestFrame
<1>11. ASSUME NEW t \in Threads, SweepDone(t) PROVE OneRequestEach'
  <2>1. InRequest(t)
    BY <1>11 DEF SweepDone, At, InRequest, RequestSteps
  <2>2. CASE run[t].on /\ run[t].old # None
    <3>1. /\ ready' = ready /\ ctl' = ctl
          /\ run' = [run EXCEPT ![t].pc = "set", ![t].on = FALSE, ![t].r = run[t].old]
      BY <1>11, <2>2 DEF SweepDone
    <3>2. \A u \in Threads : InRequest(u)' => InRequest(u) /\ run'[u].k = run[u].k
      BY <1>0, <2>1, <3>1 DEF InRequest, Frames, FrameShape
    <3> QED BY <1>0, <3>1, <3>2, OneRequestFrame
  <2>3. CASE ~(run[t].on /\ run[t].old # None)
    BY <1>11, <2>1, <2>3, OneRequestAnswer DEF SweepDone
  <2> QED BY <2>2, <2>3
<1>12. ASSUME NEW t \in Threads, Status(t) PROVE OneRequestEach'
  <2>1. InRequest(t) /\ Answer(t, ready)
    BY <1>12 DEF Status, At, InRequest, RequestSteps
  <2> QED BY <2>1, OneRequestAnswer
<1>13. ASSUME NEW t \in Threads, NEW k \in Peers, NEW c \in Comps,
              NEW port \in Ports, HearMessage(t, k, c, port)
       PROVE  OneRequestEach'
  <2> DEFINE f == [Idle EXCEPT !.pc = "bytes", !.k = k, !.r = cur, !.c = c,
                               !.port = port]
  <2>1. run' = [run EXCEPT ![t] = f] /\ f.pc = "bytes"
    BY <1>13 DEF HearMessage, Idle
  <2> HIDE DEF f
  <2>2. /\ ready' = ready /\ ctl' = ctl
        /\ \A u \in Threads : InRequest(u)' => InRequest(u) /\ run'[u].k = run[u].k
    BY <1>0, <1>13, <2>1 DEF HearMessage, InRequest, RequestSteps
  <2> QED BY <1>0, <2>2, OneRequestFrame
<1>14. ASSUME NEW t \in Threads, NEW k \in Controls,
              \/ \E on \in BOOLEAN : AcceptCommand(t, k, on)
              \/ \E new \in Configs : AcceptDeploy(t, k, new)
              \/ AcceptStatus(t, k)
       PROVE  OneRequestEach'
  <2>1. PICK f : Accepts(t, k, f) /\ f.k = k
    <3>1. ASSUME NEW on \in BOOLEAN, AcceptCommand(t, k, on)
          PROVE  \E f : Accepts(t, k, f) /\ f.k = k
      <4> DEFINE f == [Idle EXCEPT !.pc = "set", !.k = k, !.r = cur, !.on = on]
      <4>1. Accepts(t, k, f) /\ f.k = k
        BY <3>1 DEF AcceptCommand, Idle
      <4> HIDE DEF f
      <4> QED BY <4>1
    <3>2. ASSUME NEW new \in Configs, AcceptDeploy(t, k, new)
          PROVE  \E f : Accepts(t, k, f) /\ f.k = k
      <4> DEFINE f == [Idle EXCEPT !.pc = "prev", !.k = k, !.r = cur, !.conf = new]
      <4>1. Accepts(t, k, f) /\ f.k = k
        BY <3>2 DEF AcceptDeploy, Idle
      <4> HIDE DEF f
      <4> QED BY <4>1
    <3>3. ASSUME AcceptStatus(t, k) PROVE \E f : Accepts(t, k, f) /\ f.k = k
      <4> DEFINE f == [Idle EXCEPT !.pc = "status", !.k = k, !.r = cur]
      <4>1. Accepts(t, k, f) /\ f.k = k
        BY <3>3 DEF AcceptStatus, Idle
      <4> HIDE DEF f
      <4> QED BY <4>1
    <3> QED BY <1>14, <3>1, <3>2, <3>3
  <2>2. TypeOK'
    BY <1>14, AcceptCommandType, AcceptDeployType, AcceptStatusType
  <2>3. f \in Frames
    <3>1. run'[t] = f
      BY <1>0, <2>1 DEF Accepts
    <3> QED BY <2>2, <3>1 DEF TypeOK
  <2> QED BY <2>1, <2>3, OneRequestAccept
<1>15. ASSUME NEW r \in Routers, NEW c \in Comps, TimerFires(r, c)
       PROVE  OneRequestEach'
  <2>1. /\ ready' = Append(ready, GenerateHandler(r, c))
        /\ ctl' = ctl /\ run' = run
    BY <1>15 DEF TimerFires
  <2>2. GenerateHandler(r, c) \in Handlers /\ GenerateHandler(r, c).op # "read"
    BY DEF GenerateHandler, Handlers
  <2>3. ReadOnce(ready', ctl)
    BY <1>app, <2>1, <2>2
  <2>4. \A u \in Threads : InRequest(u)' => InRequest(u) /\ run'[u].k = run[u].k
    BY <2>1 DEF InRequest
  <2> QED BY <2>1, <2>3, <2>4, OneRequestFrame
<1> QED
  BY <1>1, <1>2, <1>3, <1>4, <1>5, <1>6, <1>7, <1>8, <1>9, <1>10, <1>11, <1>12,
     <1>13, <1>14, <1>15 DEF Next, Works, Accept, Timers

\* Every connection has at most one request in progress, on one thread, and one
\* response on its way: for any number of threads and connections.
THEOREM OneRequestPerConnection == Spec => []OneRequestEach
<1>1. Init => OneRequestEach
  BY DEF Init, OneRequestEach, InRequest, Idle, RequestSteps, ReadOnce
<1>2. TypeOK /\ OneRequestEach /\ [Next]_vars => OneRequestEach'
  <2>1. ASSUME OneRequestEach, UNCHANGED vars PROVE OneRequestEach'
    BY <2>1 DEF vars, OneRequestEach, InRequest, ReadOnce
  <2> QED BY <2>1, OneRequestNext
<1> QED BY <1>1, <1>2, TypeCorrect, PTL DEF Spec

\* With one control connection, one thread at most is inside a request.
LEMMA OnlyOneInRequest ==
  ASSUME TypeOK, OneRequestEach, \A j, k \in Controls : j = k,
         NEW t \in Threads, NEW u \in Threads, InRequest(t), InRequest(u)
  PROVE  t = u
<1>1. run[t].k \in Controls /\ run[u].k \in Controls
  BY DEF TypeOK, Frames, InRequest
<1> QED BY <1>1 DEF OneRequestEach

\* Then no other thread is filling the table of any router ...
LEMMA NotFilledByOther ==
  ASSUME TypeOK, OneRequestEach, \A j, k \in Controls : j = k,
         NEW t \in Threads, InRequest(t), NEW r
  PROVE  ~FilledByOther(t, r)
<1>1. \A u \in Threads : run[u].pc = "fill" => InRequest(u)
  BY DEF InRequest, RequestSteps
<1> QED BY <1>1, OnlyOneInRequest DEF FilledByOther

\* ... and every router a request touches is alive.
LEMMA RequestTouches ==
  ASSUME TypeOK, OneRequestEach, PointersHeld, \A j, k \in Controls : j = k,
         NEW t \in Threads, InRequest(t), NEW r, r = cur \/ r \in run[t].own
  PROVE  Follow(t, r) = "none" /\ FollowIntoTable(t, r) = "none"
<1>1. Alive(r)
  BY DEF Alive
<1> QED BY <1>1, NotFilledByOther DEF Follow, FollowIntoTable

\* A step of a thread leaves the others where they are.
LEMMA OneThreadMoves ==
  ASSUME TypeOK, NEW t \in Threads, Works(t) \/ Accept(t), NEW u \in Threads, u # t
  PROVE  run'[u] = run[u]
<1>0. run \in [Threads -> Frames]
  BY DEF TypeOK
<1>1. CASE RunGenerate(t) \/ Generate(t) \/ RunProcess(t) \/ RunRoute(t) \/ DoRoute(t)
  BY <1>0, <1>1 DEF RunGenerate, Generate, RunProcess, RunRoute, DoRoute
<1>2. CASE RunRead(t) \/ CountBytes(t) \/ Deliver(t)
  BY <1>0, <1>2 DEF RunRead, CountBytes, Deliver
<1>3. CASE SetStarted(t) \/ SweepOne(t) \/ SweepDone(t)
  BY <1>0, <1>3 DEF SetStarted, SweepOne, SweepDone, Answer
<1>4. CASE ReadPrevious(t) \/ Exchange(t) \/ Fill(t) \/ Status(t)
  BY <1>0, <1>4 DEF ReadPrevious, Exchange, Fill, Status, Answer
<1>5. CASE Accept(t)
  BY <1>0, <1>5 DEF Accept, HearMessage, AcceptCommand, AcceptDeploy, AcceptStatus, Accepts
<1> QED BY <1>1, <1>2, <1>3, <1>4, <1>5 DEF Works

\* What a step of a request touches is there and nobody else's.
LEMMA RequestStepDefined ==
  ASSUME TypeOK, OneRequestEach, PointersHeld, Next, \A j, k \in Controls : j = k,
         NEW t \in Threads, InRequest(t), run'[t] # run[t]
  PROVE  fault' = "none"
<1>1. Works(t) \/ Accept(t)
  <2>1. ~Timers
    BY DEF Timers, TimerFires
  <2> QED BY <2>1, OneThreadMoves DEF Next
<1>2. ~Free(t)
  BY DEF Free, InRequest, Idle, RequestSteps
<1>3. ~Accept(t)
  BY <1>2 DEF Accept, HearMessage, AcceptCommand, AcceptDeploy, AcceptStatus, Accepts
<1>4. ~(RunGenerate(t) \/ RunProcess(t) \/ RunRoute(t) \/ RunRead(t))
  BY <1>2 DEF RunGenerate, RunProcess, RunRoute, RunRead, Takes
<1>5. ~(Generate(t) \/ DoRoute(t) \/ CountBytes(t) \/ Deliver(t))
  BY DEF Generate, DoRoute, CountBytes, Deliver, At, InRequest, RequestSteps
<1>6. CASE SetStarted(t) \/ SweepOne(t)
  <2>1. run[t].pc \in {"set", "sweep"} /\ fault' = FollowIntoTable(t, run[t].r)
    BY <1>6 DEF SetStarted, SweepOne, At
  <2>2. run[t].r = cur \/ run[t].r \in run[t].own
    BY <2>1 DEF PointersHeld
  <2> QED BY <2>1, <2>2, RequestTouches
<1>7. CASE ReadPrevious(t) \/ Status(t)
  <2>1. /\ run[t].pc \in {"prev", "status"}
        /\ fault' = Follow(t, run[t].r) \/ fault' = FollowIntoTable(t, run[t].r)
    BY <1>7 DEF ReadPrevious, Status, At
  <2>2. run[t].r = cur
    BY <2>1 DEF PointersHeld
  <2> QED BY <2>1, <2>2, RequestTouches
<1>8. CASE Fill(t)
  <2>1. fault' = FollowIntoTable(t, cur)
    BY <1>8 DEF Fill
  <2> QED BY <2>1, RequestTouches
<1>9. CASE SweepDone(t) \/ Exchange(t)
  BY <1>9 DEF SweepDone, Exchange, At, Defined
<1> QED BY <1>1, <1>3, <1>4, <1>5, <1>6, <1>7, <1>8, <1>9 DEF Works

LEMMA PointersHeldNext ==
  ASSUME TypeOK, OneRequestEach, PointersHeld, Next,
         \A j, k \in Controls : j = k
  PROVE  PointersHeld'
<1>0. run \in [Threads -> Frames]
  BY DEF TypeOK
\* the frames of requests stay as they are and so does router_
<1>same. ASSUME cur' = cur,
                \A u \in Threads : run'[u] = run[u] \/ run'[u].pc \notin RequestSteps
         PROVE  PointersHeld'
  BY <1>same DEF PointersHeld, RequestSteps
<1>idle. Idle.pc \notin RequestSteps
  BY DEF Idle, RequestSteps
<1>1. ASSUME NEW t \in Threads, RunGenerate(t) PROVE PointersHeld'
  <2> DEFINE f == IF genOn[Head(ready).r][Head(ready).c]
                  THEN [Idle EXCEPT !.pc = "generate", !.r = Head(ready).r,
                                    !.c = Head(ready).c]
                  ELSE Idle
  <2>1. run' = [run EXCEPT ![t] = f] /\ f.pc \notin RequestSteps /\ cur' = cur
    BY <1>1 DEF RunGenerate, Idle, RequestSteps, routerVars
  <2> HIDE DEF f
  <2> QED BY <1>0, <1>same, <2>1
<1>2. ASSUME NEW t \in Threads, Generate(t) \/ DoRoute(t) \/ Deliver(t)
      PROVE  PointersHeld'
  <2>1. run' = [run EXCEPT ![t] = Idle] /\ cur' = cur
    BY <1>2 DEF Generate, DoRoute, Deliver, routerVars
  <2> QED BY <1>0, <1>same, <1>idle, <2>1
<1>3. ASSUME NEW t \in Threads, RunProcess(t) \/ RunRead(t) PROVE PointersHeld'
  <2>1. run' = run /\ cur' = cur
    BY <1>3 DEF RunProcess, RunRead, routerVars
  <2> QED BY <1>same, <2>1
<1>4. ASSUME NEW t \in Threads, RunRoute(t) PROVE PointersHeld'
  <2> DEFINE f == [Idle EXCEPT !.pc = "route", !.r = Head(ready).r,
                               !.c = Head(ready).c, !.own = {Head(ready).r}]
  <2>1. /\ run' = run \/ run' = [run EXCEPT ![t] = f]
        /\ f.pc \notin RequestSteps /\ cur' = cur
    BY <1>4 DEF RunRoute, Idle, RequestSteps, routerVars
  <2> HIDE DEF f
  <2> QED BY <1>0, <1>same, <2>1
<1>5. ASSUME NEW t \in Threads, CountBytes(t) PROVE PointersHeld'
  <2>1. /\ cur' = cur /\ run'[t].pc \notin RequestSteps
        /\ \A u \in Threads : u # t => run'[u] = run[u]
    BY <1>0, <1>5 DEF CountBytes, routerVars, RequestSteps, Frames, FrameShape
  <2> QED BY <1>same, <2>1
<1>6. ASSUME NEW t \in Threads, NEW k \in Peers, NEW c \in Comps,
             NEW port \in Ports, HearMessage(t, k, c, port)
      PROVE  PointersHeld'
  <2> DEFINE f == [Idle EXCEPT !.pc = "bytes", !.k = k, !.r = cur, !.c = c,
                               !.port = port]
  <2>1. run' = [run EXCEPT ![t] = f] /\ f.pc \notin RequestSteps /\ cur' = cur
    BY <1>6 DEF HearMessage, Idle, RequestSteps, routerVars
  <2> HIDE DEF f
  <2> QED BY <1>0, <1>same, <2>1
\* a request that begins points to the router in use
<1>7. ASSUME NEW t \in Threads, NEW f, f.r = cur, f.old = None,
             f.pc \in {"set", "prev", "status"},
             run' = [run EXCEPT ![t] = f], cur' = cur
      PROVE  PointersHeld'
  BY <1>0, <1>7 DEF PointersHeld
<1>8. ASSUME NEW t \in Threads, NEW k \in Controls,
             \/ \E on \in BOOLEAN : AcceptCommand(t, k, on)
             \/ \E new \in Configs : AcceptDeploy(t, k, new)
             \/ AcceptStatus(t, k)
      PROVE  PointersHeld'
  <2>1. ASSUME NEW on \in BOOLEAN, AcceptCommand(t, k, on) PROVE PointersHeld'
    <3> DEFINE f == [Idle EXCEPT !.pc = "set", !.k = k, !.r = cur, !.on = on]
    <3>1. /\ f.r = cur /\ f.old = None /\ f.pc = "set"
          /\ run' = [run EXCEPT ![t] = f] /\ cur' = cur
      BY <2>1 DEF AcceptCommand, Accepts, Idle, routerVars
    <3> HIDE DEF f
    <3> QED BY <1>7, <3>1
  <2>2. ASSUME NEW new \in Configs, AcceptDeploy(t, k, new) PROVE PointersHeld'
    <3> DEFINE f == [Idle EXCEPT !.pc = "prev", !.k = k, !.r = cur, !.conf = new]
    <3>1. /\ f.r = cur /\ f.old = None /\ f.pc = "prev"
          /\ run' = [run EXCEPT ![t] = f] /\ cur' = cur
      BY <2>2 DEF AcceptDeploy, Accepts, Idle, routerVars
    <3> HIDE DEF f
    <3> QED BY <1>7, <3>1
  <2>3. ASSUME AcceptStatus(t, k) PROVE PointersHeld'
    <3> DEFINE f == [Idle EXCEPT !.pc = "status", !.k = k, !.r = cur]
    <3>1. /\ f.r = cur /\ f.old = None /\ f.pc = "status"
          /\ run' = [run EXCEPT ![t] = f] /\ cur' = cur
      BY <2>3 DEF AcceptStatus, Accepts, Idle, routerVars
    <3> HIDE DEF f
    <3> QED BY <1>7, <3>1
  <2> QED BY <1>8, <2>1, <2>2, <2>3
\* a request that goes on
<1>9. ASSUME NEW t \in Threads, cur' = cur,
             \A u \in Threads : u # t => run'[u] = run[u],
             /\ run'[t].pc \in {"status", "prev", "swap"} => run'[t].r = cur
             /\ run'[t].pc \in {"set", "sweep"}
                  => run'[t].r = cur \/ run'[t].r \in run'[t].own
             /\ run'[t].pc \in {"fill", "set", "sweep"}
                  => run'[t].old = None \/ run'[t].old \in run'[t].own
      PROVE  PointersHeld'
  BY <1>9 DEF PointersHeld
<1>10. ASSUME NEW t \in Threads, SetStarted(t) \/ SweepOne(t) PROVE PointersHeld'
  <2>1. /\ run[t].pc \in {"set", "sweep"} /\ run'[t].pc = "sweep"
        /\ run'[t].r = run[t].r /\ run'[t].own = run[t].own
        /\ run'[t].old = run[t].old /\ cur' = cur
        /\ \A u \in Threads : u # t => run'[u] = run[u]
    BY <1>0, <1>10 DEF SetStarted, SweepOne, At, routerVars, Frames, FrameShape
  <2>2. /\ run[t].r = cur \/ run[t].r \in run[t].own
        /\ run[t].old = None \/ run[t].old \in run[t].own
    BY <2>1 DEF PointersHeld
  <2> QED BY <1>9, <2>1, <2>2
<1>11. ASSUME NEW t \in Threads, SweepDone(t) PROVE PointersHeld'
  <2>1. run[t].old = None \/ run[t].old \in run[t].own
    BY <1>11 DEF SweepDone, At, PointersHeld
  <2>2. CASE run[t].on /\ run[t].old # None
    <3>1. /\ run'[t].pc = "set" /\ run'[t].r = run[t].old
          /\ run'[t].own = run[t].own /\ run'[t].old = run[t].old /\ cur' = cur
          /\ \A u \in Threads : u # t => run'[u] = run[u]
      BY <1>0, <1>11, <2>2 DEF SweepDone, routerVars, Frames, FrameShape
    <3> QED BY <1>9, <2>1, <2>2, <3>1
  <2>3. CASE ~(run[t].on /\ run[t].old # None)
    <3>1. run' = [run EXCEPT ![t] = Idle] /\ cur' = cur
      BY <1>11, <2>3 DEF SweepDone, Answer, routerVars
    <3> QED BY <1>0, <1>same, <1>idle, <3>1
  <2> QED BY <2>2, <2>3
<1>12. ASSUME NEW t \in Threads, ReadPrevious(t) PROVE PointersHeld'
  <2>1. run[t].r = cur
    BY <1>12 DEF ReadPrevious, At, PointersHeld
  <2>2. /\ run'[t].pc = "swap" /\ run'[t].r = run[t].r /\ cur' = cur
        /\ \A u \in Threads : u # t => run'[u] = run[u]
    BY <1>0, <1>12 DEF ReadPrevious, routerVars, Frames, FrameShape
  <2> QED BY <1>9, <2>1, <2>2
<1>13. ASSUME NEW t \in Threads, Exchange(t) PROVE PointersHeld'
  <2>1. InRequest(t)
    BY <1>13 DEF Exchange, At, InRequest, RequestSteps
  <2>2. \A u \in Threads : u # t => ~InRequest(u) /\ run'[u] = run[u]
    BY <1>0, <1>13, <2>1, OnlyOneInRequest DEF Exchange
  <2>3. run'[t].pc = "fill" /\ run'[t].old \in run'[t].own
    BY <1>0, <1>13 DEF Exchange, Frames, FrameShape
  <2> QED BY <2>2, <2>3 DEF PointersHeld, InRequest, RequestSteps
<1>14. ASSUME NEW t \in Threads, Fill(t) PROVE PointersHeld'
  <2>1. /\ run[t] \in Frames /\ run[t].pc = "fill"
        /\ run[t].old = None \/ run[t].old \in run[t].own
    BY <1>0, <1>14 DEF Fill, At, PointersHeld
  <2>2. run[t].old \in run[t].own
    BY <2>1 DEF Frames, Routers
  <2>3. /\ run'[t].pc = "set" /\ run'[t].r \in {cur, run[t].old}
        /\ run'[t].own = run[t].own /\ run'[t].old = run[t].old /\ cur' = cur
        /\ \A u \in Threads : u # t => run'[u] = run[u]
    BY <1>0, <1>14 DEF Fill, Frames, FrameShape
  <2> QED BY <1>9, <2>2, <2>3
<1>15. ASSUME NEW t \in Threads, Status(t) PROVE PointersHeld'
  <2>1. run' = [run EXCEPT ![t] = Idle] /\ cur' = cur
    BY <1>15 DEF Status, Answer, routerVars
  <2> QED BY <1>0, <1>same, <1>idle, <2>1
<1>16. ASSUME Timers PROVE PointersHeld'
  <2>1. run' = run /\ cur' = cur
    BY <1>16 DEF Timers, TimerFires, routerVars
  <2> QED BY <1>same, <2>1
<1> QED
  BY <1>1, <1>2, <1>3, <1>4, <1>5, <1>6, <1>8, <1>10, <1>11, <1>12, <1>13, <1>14,
     <1>15, <1>16 DEF Next, Works, Accept

\* While one terminal is connected, one request is served at a time, it works on
\* routers nobody can free, and none of its steps is undefined, whatever packets of
\* neighbours other threads run into undefined behaviour: for any number of threads,
\* neighbours and packets, any configurations and any length of the run.
THEOREM OneTerminalSafe ==
  ASSUME \A j, k \in Controls : j = k
  PROVE  Spec => []RequestsSafe /\ RequestsDefined
<1>1. Init => OneRequestEach /\ PointersHeld
  BY DEF Init, OneRequestEach, PointersHeld, InRequest, Idle, RequestSteps, ReadOnce
<1>2. TypeOK /\ (OneRequestEach /\ PointersHeld) /\ [Next]_vars
        => (OneRequestEach /\ PointersHeld)'
  <2>1. ASSUME OneRequestEach, PointersHeld, UNCHANGED vars
        PROVE  (OneRequestEach /\ PointersHeld)'
    BY <2>1 DEF vars, routerVars, OneRequestEach, PointersHeld, InRequest, ReadOnce
  <2> QED BY <2>1, OneRequestNext, PointersHeldNext
<1>3. TypeOK /\ (OneRequestEach /\ PointersHeld) /\ [Next]_vars
        => [\A t \in Threads : InRequest(t) /\ run'[t] # run[t] => fault' = "none"]_vars
  BY RequestStepDefined
<1>4. OneRequestEach /\ PointersHeld <=> RequestsSafe
  BY DEF RequestsSafe
<1> QED BY <1>1, <1>2, <1>3, <1>4, TypeCorrect, PTL DEF Spec, RequestsDefined

-----------------------------------------------------------------------------
(* Packets inside a node *)

\* The router in use has been made, those to come are empty, and so is the one that a
\* deployment is about to fill.
Blank ==
    /\ cur <= made
    /\ \A r \in Routers : r > made => conf[r].comps = {}
    /\ Defined => \A t \in Threads : run[t].pc = "fill" => conf[cur].comps = {}

\* Handlers, threads, loops and timers are about components of their router.
Housed(q, k) == \A i \in DOMAIN q : q[i].op # "read" => q[i].c \in k[q[i].r].comps
AtHome(f, k) ==
    /\ f.pc \in PacketSteps => f.c \in k[f.r].comps
    /\ f.pc = "sweep" => f.todo \subseteq k[f.r].comps
Homes ==
    /\ Housed(ready, conf)
    /\ \A t \in Threads : AtHome(run[t], conf)
    /\ \A r \in Routers, c \in Comps : timer[r][c] => c \in conf[r].comps

\* What came to c by local routes
Balance(r, c) == inCount[r][c] + Waiting(r, c) - fed[r][c]

\* Only components of the router have routed packets.
Counts ==
    \A r \in Routers, c \in Comps :
        /\ IsFiniteSet(Routing(r, c))
        /\ Routed(r, c) \in Nat
        /\ c \notin conf[r].comps => Routed(r, c) = 0

\* Every packet and its copies
Ledger ==
    \A r \in Routers :
        /\ \A c \in Comps : IsFiniteSet(CopiesTo(r, c))
                            /\ Balance(r, c) = Cardinality(CopiesTo(r, c))
        /\ IsFiniteSet(CopiesOut(r)) /\ out[r] = Cardinality(CopiesOut(r))

FlowInv == Blank /\ Homes /\ Counts /\ Ledger

-----------------------------------------------------------------------------
(* Counting handlers *)

Places(q, X) == {i \in DOMAIN q : q[i] \in X}
Count(q, X) == Cardinality(Places(q, X))

LEMMA PlacesFinite ==
  ASSUME NEW S, NEW q \in Seq(S), NEW X
  PROVE  IsFiniteSet(Places(q, X)) /\ Count(q, X) \in Nat
<1>1. DOMAIN q = 1 .. Len(q) /\ Len(q) \in Nat
  BY LenProperties
<1>2. IsFiniteSet(1 .. Len(q))
  BY <1>1, FS_Interval
<1>3. Places(q, X) \in SUBSET (1 .. Len(q))
  BY <1>1 DEF Places
<1>4. IsFiniteSet(Places(q, X))
  BY <1>2, <1>3, FS_Subset
<1> QED BY <1>4, FS_CardinalityType DEF Count

\* The places of the second part move by the length of the first.
LEMMA Shifted ==
  ASSUME NEW I, IsFiniteSet(I), I \subseteq Nat, NEW n \in Nat
  PROVE  /\ IsFiniteSet({n + i : i \in I})
         /\ Cardinality({n + i : i \in I}) = Cardinality(I)
<1> DEFINE J == {n + i : i \in I}
           f == [i \in I |-> n + i]
<1>1. f \in [I -> J]
  OBVIOUS
<1>2. \A a, b \in I : f[a] = f[b] => a = b
  OBVIOUS
<1>3. \A j \in J : \E i \in I : f[i] = j
  OBVIOUS
<1> HIDE DEF f, J
<1>4. f \in Bijection(I, J)
  BY <1>1, <1>2, <1>3, Fun_IsBij, Zenon
<1>5. ExistsBijection(I, J)
  BY <1>4 DEF ExistsBijection
<1> QED BY <1>5, FS_Bijection DEF J

LEMMA CountConcat ==
  ASSUME NEW S, NEW q \in Seq(S), NEW p \in Seq(S), NEW X
  PROVE  Count(q \o p, X) = Count(q, X) + Count(p, X)
<1>1. PICK n \in Nat : n = Len(q) /\ DOMAIN q = 1 .. n
  BY LenProperties
<1>2. PICK m \in Nat : m = Len(p) /\ DOMAIN p = 1 .. m
  BY LenProperties
<1>3. PICK s : s = q \o p
  OBVIOUS
<1>4. s \in Seq(S) /\ Len(s) = n + m /\ \A i \in 1 .. n + m :
        s[i] = IF i <= n THEN q[i] ELSE p[i - n]
  BY <1>1, <1>2, <1>3, ConcatProperties
<1>5. DOMAIN s = 1 .. n + m
  BY <1>4, LenProperties
<1> DEFINE A == Places(q, X)
           B == Places(p, X)
           C == {n + i : i \in B}
<1>6. A \subseteq 1 .. n /\ B \subseteq 1 .. m
  BY <1>1, <1>2 DEF Places
<1>7. IsFiniteSet(A) /\ IsFiniteSet(B)
  BY PlacesFinite
<1>8. Places(s, X) = A \cup C
  <2>1. ASSUME NEW i \in Places(s, X) PROVE i \in A \cup C
    <3>1. i \in 1 .. n + m /\ s[i] \in X
      BY <1>5 DEF Places
    <3>2. CASE i <= n
      BY <1>1, <1>4, <3>1, <3>2 DEF Places
    <3>3. CASE i > n
      <4>1. i - n \in 1 .. m /\ s[i] = p[i - n] /\ i = n + (i - n)
        BY <1>4, <3>1, <3>3
      <4>2. i - n \in B
        BY <1>2, <3>1, <4>1 DEF Places
      <4> QED BY <4>1, <4>2
    <3> QED BY <3>1, <3>2, <3>3
  <2>2. ASSUME NEW i \in A PROVE i \in Places(s, X)
    BY <1>1, <1>4, <1>5 DEF Places
  <2>3. ASSUME NEW j \in B PROVE n + j \in Places(s, X)
    <3>1. j \in 1 .. m /\ p[j] \in X
      BY <1>2 DEF Places
    <3>2. n + j \in 1 .. n + m /\ ~(n + j <= n) /\ (n + j) - n = j
      BY <3>1
    <3>3. s[n + j] = p[j]
      BY <1>4, <3>2
    <3> QED BY <1>5, <3>1, <3>2, <3>3 DEF Places
  <2> QED BY <2>1, <2>2, <2>3
<1>9. A \cap C = {}
  BY <1>6
<1>10. IsFiniteSet(C) /\ Cardinality(C) = Cardinality(B)
  <2>1. B \subseteq Nat
    BY <1>6
  <2> HIDE DEF B
  <2> QED BY <1>7, <2>1, Shifted
<1> HIDE DEF A, C
<1>11. Cardinality(A \cup C) = Cardinality(A) + Cardinality(C) - Cardinality(A \cap C)
  BY <1>7, <1>10, FS_Union
<1>12. Cardinality(A \cap C) = 0
  BY <1>9, FS_EmptySet
<1>13. Cardinality(A) \in Nat /\ Cardinality(C) \in Nat
  BY <1>7, <1>10, FS_CardinalityType
<1>14. Cardinality(A \cup C) = Cardinality(A) + Cardinality(B)
  BY <1>10, <1>11, <1>12, <1>13
<1> QED BY <1>3, <1>8, <1>14 DEF Count, A

One(b) == IF b THEN 1 ELSE 0

LEMMA CountOne ==
  ASSUME NEW h, NEW X
  PROVE  Count(<<h>>, X) = One(h \in X)
<1>1. DOMAIN <<h>> = {1} /\ <<h>>[1] = h
  OBVIOUS
<1>2. CASE h \in X
  <2>1. Places(<<h>>, X) = {1}
    BY <1>1, <1>2 DEF Places
  <2> QED BY <1>2, <2>1, FS_Singleton DEF Count, One
<1>3. CASE h \notin X
  <2>1. Places(<<h>>, X) = {}
    BY <1>1, <1>3 DEF Places
  <2> QED BY <1>3, <2>1, FS_EmptySet DEF Count, One
<1> QED BY <1>2, <1>3

LEMMA CountNone == \A X : Count(<<>>, X) = 0
<1>1. \A X : Places(<<>>, X) = {}
  BY DEF Places
<1> QED BY <1>1, FS_EmptySet DEF Count

LEMMA CountAppend ==
  ASSUME NEW S, NEW q \in Seq(S), NEW h \in S, NEW X
  PROVE  Count(Append(q, h), X) = Count(q, X) + One(h \in X)
<1>0. <<h>> \in Seq(S) /\ Append(q, h) = q \o <<h>>
  BY AppendIsConcat
<1>1. PICK o \in Seq(S) : o = <<h>>
  BY <1>0
<1>2. Append(q, h) = q \o o
  BY <1>0, <1>1
<1>3. Count(q \o o, X) = Count(q, X) + Count(o, X)
  BY CountConcat
<1>4. Count(o, X) = One(h \in X)
  BY <1>1, CountOne
<1> QED BY <1>2, <1>3, <1>4

LEMMA CountTail ==
  ASSUME NEW S, NEW q \in Seq(S), q # <<>>, NEW X
  PROVE  Count(q, X) = One(Head(q) \in X) + Count(Tail(q), X)
<1>1. Head(q) \in S /\ Tail(q) \in Seq(S) /\ Len(Tail(q)) = Len(q) - 1
      /\ \A i \in 1 .. Len(Tail(q)) : Tail(q)[i] = q[i + 1]
  BY HeadTailProperties
<1>2. <<Head(q)>> \in Seq(S) /\ Len(<<Head(q)>>) = 1 /\ <<Head(q)>>[1] = Head(q)
  BY <1>1
<1>3. PICK n \in Nat : n = Len(q) /\ n > 0
  BY EmptySeq, LenProperties
<1>4. PICK s : s = <<Head(q)>> \o Tail(q)
  OBVIOUS
<1>5. /\ s \in Seq(S) /\ Len(s) = 1 + (n - 1)
      /\ \A i \in 1 .. 1 + (n - 1) : s[i] = IF i <= 1 THEN <<Head(q)>>[i] ELSE Tail(q)[i - 1]
  BY <1>1, <1>2, <1>3, <1>4, ConcatProperties
<1>6. \A i \in 1 .. n : s[i] = q[i]
  <2> TAKE i \in 1 .. n
  <2>1. CASE i = 1
    BY <1>2, <1>3, <1>5, <2>1
  <2>2. CASE i # 1
    <3>1. i - 1 \in 1 .. n - 1 /\ ~(i <= 1) /\ i \in 1 .. 1 + (n - 1) /\ (i - 1) + 1 = i
      BY <1>3, <2>2
    <3> QED BY <1>1, <1>3, <1>5, <3>1
  <2> QED BY <2>1, <2>2
<1>7. Len(s) = Len(q)
  BY <1>3, <1>5
<1>8. s = q
  BY <1>3, <1>5, <1>6, <1>7, SeqEqual
<1>9. PICK o \in Seq(S) : o = <<Head(q)>>
  BY <1>2
<1>10. Count(o \o Tail(q), X) = Count(o, X) + Count(Tail(q), X)
  <2>1. PICK p \in Seq(S) : p = Tail(q)
    BY <1>1
  <2>2. Count(o \o p, X) = Count(o, X) + Count(p, X)
    BY CountConcat
  <2> QED BY <2>1, <2>2
<1>11. Count(o, X) = One(Head(q) \in X)
  BY <1>9, CountOne
<1> QED BY <1>4, <1>8, <1>9, <1>10, <1>11

-----------------------------------------------------------------------------
(* Counting copies *)

Tag(a, I) == {<<a, i>> : i \in I}
Tags(a, b, I) == {<<a, b, i>> : i \in I}

LEMMA Tagged ==
  ASSUME NEW I, IsFiniteSet(I), NEW a
  PROVE  IsFiniteSet(Tag(a, I)) /\ Cardinality(Tag(a, I)) = Cardinality(I)
<1> DEFINE J == Tag(a, I)
           f == [i \in I |-> <<a, i>>]
<1>1. /\ f \in [I -> J] /\ (\A i, j \in I : f[i] = f[j] => i = j)
      /\ (\A j \in J : \E i \in I : f[i] = j)
  BY DEF Tag
<1> HIDE DEF f, J
<1>2. f \in Bijection(I, J)
  BY <1>1, Fun_IsBij, Zenon
<1>3. ExistsBijection(I, J)
  BY <1>2 DEF ExistsBijection
<1> QED BY <1>3, FS_Bijection DEF J

LEMMA TwiceTagged ==
  ASSUME NEW I, IsFiniteSet(I), NEW a, NEW b
  PROVE  IsFiniteSet(Tags(a, b, I)) /\ Cardinality(Tags(a, b, I)) = Cardinality(I)
<1> DEFINE J == Tags(a, b, I)
           f == [i \in I |-> <<a, b, i>>]
<1>1. /\ f \in [I -> J] /\ (\A i, j \in I : f[i] = f[j] => i = j)
      /\ (\A j \in J : \E i \in I : f[i] = j)
  BY DEF Tags
<1> HIDE DEF f, J
<1>2. f \in Bijection(I, J)
  BY <1>1, Fun_IsBij, Zenon
<1>3. ExistsBijection(I, J)
  BY <1>2 DEF ExistsBijection
<1> QED BY <1>3, FS_Bijection DEF J

LEMMA Disjoint ==
  ASSUME NEW S, NEW T, IsFiniteSet(S), IsFiniteSet(T), S \cap T = {}
  PROVE  IsFiniteSet(S \cup T) /\ Cardinality(S \cup T) = Cardinality(S) + Cardinality(T)
<1>1. IsFiniteSet(S \cup T)
      /\ Cardinality(S \cup T) = Cardinality(S) + Cardinality(T) - Cardinality(S \cap T)
  BY FS_Union
<1>2. Cardinality(S \cap T) = 0
  BY FS_EmptySet
<1>3. Cardinality(S) \in Nat /\ Cardinality(T) \in Nat
  BY FS_CardinalityType
<1> QED BY <1>1, <1>2, <1>3

LEMMA CopiesHold ==
  \A S, n, E, x : x \in Copies(S, n, E) <=>
      \E s \in S : \E i \in 1 .. n[s], e \in E[s] : x = <<s, i, e>>
BY DEF Copies

\* One more packet of a adds one copy for each of its ends.
OneMore(S, n, m, a) ==
    a \in S /\ n[a] \in Nat /\ m[a] = n[a] + 1 /\ \A s \in S : s # a => m[s] = n[s]

LEMMA CopiesGrow ==
  ASSUME NEW S, NEW n, NEW m, NEW E, NEW a, OneMore(S, n, m, a),
         IsFiniteSet(E[a]), IsFiniteSet(Copies(S, n, E))
  PROVE  /\ IsFiniteSet(Copies(S, m, E))
         /\ Cardinality(Copies(S, m, E)) = Cardinality(Copies(S, n, E)) + Cardinality(E[a])
<1>0. a \in S /\ \A s \in S : s # a => m[s] = n[s]
  BY DEF OneMore
<1>1. PICK k \in Nat : n[a] = k /\ m[a] = k + 1
  BY DEF OneMore
<1>2. PICK C, D : C = Copies(S, n, E) /\ D = Copies(S, m, E)
  OBVIOUS
<1> DEFINE F == Tags(a, k + 1, E[a])
<1>3. 1 .. k + 1 = 1 .. k \cup {k + 1} /\ k + 1 \notin 1 .. k
  BY <1>1
<1>4. D \subseteq C \cup F
  <2> SUFFICES ASSUME NEW x \in D, x \notin F PROVE x \in C
    OBVIOUS
  <2>1. PICK s \in S : \E i \in 1 .. m[s], e \in E[s] : x = <<s, i, e>>
    BY <1>2, CopiesHold
  <2>2. PICK i \in 1 .. m[s], e \in E[s] : x = <<s, i, e>>
    BY <2>1
  <2>3. i \in 1 .. n[s]
    BY <1>0, <1>1, <1>3, <2>2 DEF Tags
  <2> QED BY <1>2, <2>2, <2>3, CopiesHold
<1>5. C \subseteq D
  <2> SUFFICES ASSUME NEW x \in C PROVE x \in D
    OBVIOUS
  <2>1. PICK s \in S : \E i \in 1 .. n[s], e \in E[s] : x = <<s, i, e>>
    BY <1>2, CopiesHold
  <2>2. PICK i \in 1 .. n[s], e \in E[s] : x = <<s, i, e>>
    BY <2>1
  <2>3. i \in 1 .. m[s]
    BY <1>0, <1>1, <1>3, <2>2
  <2> QED BY <1>2, <2>2, <2>3, CopiesHold
<1>6. F \subseteq D
  <2> SUFFICES ASSUME NEW e \in E[a] PROVE <<a, k + 1, e>> \in D
    BY DEF Tags
  <2>1. k + 1 \in 1 .. m[a]
    BY <1>1
  <2> QED BY <1>0, <1>2, <2>1, CopiesHold
<1>7. C \cap F = {}
  <2> SUFFICES ASSUME NEW e \in E[a], <<a, k + 1, e>> \in C PROVE FALSE
    BY DEF Tags
  <2>1. PICK s \in S : \E i \in 1 .. n[s], d \in E[s] : <<a, k + 1, e>> = <<s, i, d>>
    BY <1>2, CopiesHold
  <2>2. s = a /\ k + 1 \in 1 .. n[s]
    BY <2>1
  <2> QED BY <1>0, <1>1, <1>3, <2>2
<1>8. D = C \cup F
  BY <1>4, <1>5, <1>6
<1>9. IsFiniteSet(F) /\ Cardinality(F) = Cardinality(E[a])
  BY TwiceTagged
<1> HIDE DEF F
<1>10. IsFiniteSet(D) /\ Cardinality(D) = Cardinality(C) + Cardinality(F)
  <2>1. IsFiniteSet(C)
    BY <1>2
  <2>2. IsFiniteSet(C \cup F) /\ Cardinality(C \cup F) = Cardinality(C) + Cardinality(F)
    BY <1>7, <1>9, <2>1, Disjoint
  <2> QED BY <1>8, <2>2
<1> QED BY <1>2, <1>9, <1>10

\* The ends at both ports
LEMMA TwoPorts ==
  ASSUME NEW I, NEW J, IsFiniteSet(I), IsFiniteSet(J)
  PROVE  /\ IsFiniteSet(Tag(0, I) \cup Tag(1, J))
         /\ Cardinality(Tag(0, I) \cup Tag(1, J)) = Cardinality(I) + Cardinality(J)
<1>1. Tag(0, I) \cap Tag(1, J) = {}
  <2> SUFFICES ASSUME NEW i \in I, NEW j \in J, <<0, i>> = <<1, j>> PROVE FALSE
    BY DEF Tag
  <2>1. <<0, i>>[1] = 0 /\ <<1, j>>[1] = 1
    OBVIOUS
  <2> QED BY <2>1
<1>2. IsFiniteSet(Tag(0, I)) /\ Cardinality(Tag(0, I)) = Cardinality(I)
  BY Tagged
<1>3. IsFiniteSet(Tag(1, J)) /\ Cardinality(Tag(1, J)) = Cardinality(J)
  BY Tagged
<1>4. PICK A, B : A = Tag(0, I) /\ B = Tag(1, J)
  OBVIOUS
<1>5. IsFiniteSet(A \cup B) /\ Cardinality(A \cup B) = Cardinality(A) + Cardinality(B)
  BY <1>1, <1>2, <1>3, <1>4, Disjoint
<1> QED BY <1>2, <1>3, <1>4, <1>5

LEMMA PortCases ==
  ASSUME NEW s \in Comps
  PROVE  \/ Kind[s] = "calc" /\ UsedPorts(s) = {0} /\ PortsOf(s) = <<0>>
         \/ Kind[s] # "calc" /\ UsedPorts(s) = {0, 1} /\ PortsOf(s) = <<0, 1>>
BY DEF UsedPorts, PortsOf, OutPorts

LEMMA NotOnePort == <<0>> # <<0, 1>>
<1>1. Len(<<0>>) = 1 /\ Len(<<0, 1>>) = 2
  OBVIOUS
<1> QED BY <1>1

\* Packets that wait for c
ProcessHandlers(r, c) == {h \in Handlers : h.op = "process" /\ h.r = r /\ h.c = c}

LEMMA ProcessesCount ==
  ASSUME NEW r \in Routers, NEW c \in Comps, NEW dests \in Seq(Dest)
  PROVE  Places(Processes(r, dests), ProcessHandlers(r, c))
           = {j \in DOMAIN dests : dests[j].dest = c}
<1>1. PICK q : q = Processes(r, dests)
  OBVIOUS
<1>2. DOMAIN q = DOMAIN dests /\ \A i \in DOMAIN dests :
         q[i] = [op |-> "process", r |-> r, c |-> dests[i].dest, port |-> dests[i].port]
  BY <1>1 DEF Processes
<1>3. DOMAIN dests = 1 .. Len(dests) /\ \A i \in DOMAIN dests : dests[i] \in Dest
  BY LenProperties, ElementOfSeq
<1>4. \A i \in DOMAIN dests : q[i] \in ProcessHandlers(r, c) <=> dests[i].dest = c
  <2> TAKE i \in DOMAIN dests
  <2>1. dests[i].dest \in Comps /\ dests[i].port \in Ports
    BY <1>3 DEF Dest
  <2>2. q[i] \in Handlers
    BY <1>2, <2>1 DEF Handlers
  <2>3. q[i].op = "process" /\ q[i].r = r /\ q[i].c = dests[i].dest
    BY <1>2
  <2> QED BY <2>2, <2>3 DEF ProcessHandlers
<1>5. Places(q, ProcessHandlers(r, c)) = {j \in DOMAIN dests : dests[j].dest = c}
  BY <1>2, <1>4 DEF Places
<1> QED BY <1>1, <1>5

\* do_route posts one packet for every end.
LEMMA LocalEndsCount ==
  ASSUME TypeOK, NEW r \in Routers, NEW s \in Comps, NEW c \in Comps
  PROVE  /\ IsFiniteSet(LocalEnds(conf[r], s, c))
         /\ Count(LocalPosts(r, s), ProcessHandlers(r, c)) = Cardinality(LocalEnds(conf[r], s, c))
<1>1. PICK k : k = conf[r] /\ k \in ConfigShape
  BY NoConfigShape DEF TypeOK
<1>2. PICK d \in Seq(Dest) : d = k.local[s][0]
  BY <1>1 DEF ConfigShape, OutPorts
<1>3. PICK e \in Seq(Dest) : e = k.local[s][1]
  BY <1>1 DEF ConfigShape, OutPorts
<1>4. PICK I : I = {j \in DOMAIN d : d[j].dest = c}
  OBVIOUS
<1>5. PICK J : J = {j \in DOMAIN e : e[j].dest = c}
  OBVIOUS
<1>6. PICK p \in Seq(Handlers) : p = Processes(r, d)
  BY ProcessesType
<1>7. PICK q \in Seq(Handlers) : q = Processes(r, e)
  BY ProcessesType
<1> DEFINE X == ProcessHandlers(r, c)
<1>8. Places(p, X) = I /\ IsFiniteSet(I) /\ Count(p, X) = Cardinality(I)
  <2>1. Places(p, X) = I
    BY <1>4, <1>6, ProcessesCount
  <2> HIDE DEF X
  <2> QED BY <2>1, PlacesFinite DEF Count
<1>9. Places(q, X) = J /\ IsFiniteSet(J) /\ Count(q, X) = Cardinality(J)
  <2>1. Places(q, X) = J
    BY <1>5, <1>7, ProcessesCount
  <2> HIDE DEF X
  <2> QED BY <2>1, PlacesFinite DEF Count
<1>10. CASE Kind[s] = "calc"
  <2>1. UsedPorts(s) = {0} /\ PortsOf(s) = <<0>>
    BY <1>10, PortCases
  <2>2. LocalPosts(r, s) = p
    BY <1>1, <1>2, <1>6, <2>1 DEF LocalPosts
  <2>3. LocalEnds(k, s, c) = Tag(0, I)
    BY <1>2, <1>4, <2>1 DEF LocalEnds, Tag
  <2>4. IsFiniteSet(Tag(0, I)) /\ Cardinality(Tag(0, I)) = Cardinality(I)
    BY <1>8, Tagged
  <2> QED BY <1>1, <1>8, <2>2, <2>3, <2>4
<1>11. CASE Kind[s] # "calc"
  <2>1. UsedPorts(s) = {0, 1} /\ PortsOf(s) = <<0, 1>> /\ PortsOf(s) # <<0>>
    BY <1>11, PortCases, NotOnePort
  <2>2. LocalPosts(r, s) = p \o q
    BY <1>1, <1>2, <1>3, <1>6, <1>7, <2>1 DEF LocalPosts
  <2>3. LocalEnds(k, s, c) = Tag(0, I) \cup Tag(1, J)
    BY <1>2, <1>3, <1>4, <1>5, <2>1 DEF LocalEnds, Tag
  <2>4. Count(p \o q, X) = Count(p, X) + Count(q, X)
    BY CountConcat
  <2>5. /\ IsFiniteSet(Tag(0, I) \cup Tag(1, J))
        /\ Cardinality(Tag(0, I) \cup Tag(1, J))
             = Cardinality(I) + Cardinality(J)
    BY <1>8, <1>9, TwoPorts
  <2> QED BY <1>1, <1>8, <1>9, <2>2, <2>3, <2>4, <2>5
<1> QED BY <1>10, <1>11

\* ... and counts one for every remote route.
LEMMA RemoteEndsCount ==
  ASSUME TypeOK, NEW r \in Routers, NEW s \in Comps
  PROVE  /\ IsFiniteSet(RemoteEnds(conf[r], s))
         /\ RemoteSends(r, s) = Cardinality(RemoteEnds(conf[r], s))
<1>1. PICK k : k = conf[r] /\ k \in ConfigShape
  BY NoConfigShape DEF TypeOK
<1>0. 0 \in OutPorts /\ 1 \in OutPorts /\ k.remote \in [Comps -> [OutPorts -> Nat]]
  BY <1>1 DEF ConfigShape, OutPorts
<1>2. PICK m \in Nat : m = k.remote[s][0]
  BY <1>0
<1>3. PICK n \in Nat : n = k.remote[s][1]
  BY <1>0
<1>4. PICK I : I = 1 .. m
  OBVIOUS
<1>5. PICK J : J = 1 .. n
  OBVIOUS
<1>6. IsFiniteSet(I) /\ Cardinality(I) = m /\ IsFiniteSet(J) /\ Cardinality(J) = n
  <2>1. IsFiniteSet(1 .. m) /\ Cardinality(1 .. m) = IF 1 > m THEN 0 ELSE m - 1 + 1
    BY FS_Interval
  <2>2. IsFiniteSet(1 .. n) /\ Cardinality(1 .. n) = IF 1 > n THEN 0 ELSE n - 1 + 1
    BY FS_Interval
  <2> QED BY <1>4, <1>5, <2>1, <2>2
<1>7. CASE Kind[s] = "calc"
  <2>1. UsedPorts(s) = {0} /\ PortsOf(s) = <<0>>
    BY <1>7, PortCases
  <2>2. RemoteSends(r, s) = m
    BY <1>1, <1>2, <2>1 DEF RemoteSends
  <2>3. RemoteEnds(k, s) = Tag(0, I)
    BY <1>2, <1>4, <2>1 DEF RemoteEnds, Tag
  <2>4. IsFiniteSet(Tag(0, I)) /\ Cardinality(Tag(0, I)) = Cardinality(I)
    BY <1>6, Tagged
  <2> QED BY <1>1, <1>6, <2>2, <2>3, <2>4
<1>8. CASE Kind[s] # "calc"
  <2>1. UsedPorts(s) = {0, 1} /\ PortsOf(s) = <<0, 1>> /\ PortsOf(s) # <<0>>
    BY <1>8, PortCases, NotOnePort
  <2>2. RemoteSends(r, s) = m + n
    BY <1>1, <1>2, <1>3, <2>1 DEF RemoteSends
  <2>3. RemoteEnds(k, s) = Tag(0, I) \cup Tag(1, J)
    BY <1>2, <1>3, <1>4, <1>5, <2>1 DEF RemoteEnds, Tag
  <2>4. /\ IsFiniteSet(Tag(0, I) \cup Tag(1, J))
        /\ Cardinality(Tag(0, I) \cup Tag(1, J))
             = Cardinality(I) + Cardinality(J)
    BY <1>6, TwoPorts
  <2> QED BY <1>1, <1>6, <2>2, <2>3, <2>4
<1> QED BY <1>7, <1>8

-----------------------------------------------------------------------------
(* Steps that move no packet *)

Routes(r, c) == {RouteHandler(r, c)}

LEMMA InQueue ==
  ASSUME NEW q \in Seq(Handlers), NEW r \in Routers, NEW c \in Comps
  PROVE  /\ Cardinality({i \in DOMAIN q : q[i] = RouteHandler(r, c)}) = Count(q, Routes(r, c))
         /\ Cardinality({i \in DOMAIN q : q[i].op = "process" /\ q[i].r = r /\ q[i].c = c})
              = Count(q, ProcessHandlers(r, c))
<1>1. \A i \in DOMAIN q : q[i] \in Handlers
  BY LenProperties, ElementOfSeq
<1>2. {i \in DOMAIN q : q[i] = RouteHandler(r, c)} = Places(q, Routes(r, c))
  BY DEF Places, Routes
<1>3. {i \in DOMAIN q : q[i].op = "process" /\ q[i].r = r /\ q[i].c = c}
        = Places(q, ProcessHandlers(r, c))
  BY <1>1 DEF Places, ProcessHandlers
<1> QED BY <1>2, <1>3 DEF Count

\* The packets of c as numbers
LEMMA Numbers ==
  ASSUME TypeOK, NEW r \in Routers, NEW c \in Comps, IsFiniteSet(Routing(r, c))
  PROVE  /\ Routed(r, c) = emitted[r][c] - dropped[r][c]
                             - (Count(ready, Routes(r, c)) + Cardinality(Routing(r, c)))
         /\ Balance(r, c) = inCount[r][c] + Count(ready, ProcessHandlers(r, c)) - fed[r][c]
         /\ emitted[r][c] \in Nat /\ dropped[r][c] \in Nat /\ inCount[r][c] \in Nat
         /\ fed[r][c] \in Nat /\ Cardinality(Routing(r, c)) \in Nat
         /\ Count(ready, Routes(r, c)) \in Nat /\ Count(ready, ProcessHandlers(r, c)) \in Nat
<1>1. ready \in Seq(Handlers)
  BY DEF TypeOK
<1>2. /\ Cardinality({i \in DOMAIN ready : ready[i] = RouteHandler(r, c)})
           = Count(ready, Routes(r, c))
      /\ Cardinality({i \in DOMAIN ready :
             ready[i].op = "process" /\ ready[i].r = r /\ ready[i].c = c})
           = Count(ready, ProcessHandlers(r, c))
  BY <1>1, InQueue
<1>3. Count(ready, Routes(r, c)) \in Nat /\ Count(ready, ProcessHandlers(r, c)) \in Nat
  BY <1>1, PlacesFinite
<1>4. emitted[r][c] \in Nat /\ dropped[r][c] \in Nat /\ inCount[r][c] \in Nat
      /\ fed[r][c] \in Nat
  BY ObjectAt DEF TypeOK
<1>5. Cardinality(Routing(r, c)) \in Nat
  BY FS_CardinalityType
<1>6. Routed(r, c) = emitted[r][c] - dropped[r][c]
                             - (Count(ready, Routes(r, c)) + Cardinality(Routing(r, c)))
  BY <1>2 DEF Routed, PendingRoutes
<1>7. Balance(r, c) = inCount[r][c] + Count(ready, ProcessHandlers(r, c)) - fed[r][c]
  BY <1>2 DEF Balance, Waiting
<1> QED BY <1>3, <1>4, <1>5, <1>6, <1>7

LEMMA NumbersNext ==
  ASSUME TypeOK', NEW r \in Routers, NEW c \in Comps, IsFiniteSet(Routing(r, c)')
  PROVE  /\ Routed(r, c)' = emitted'[r][c] - dropped'[r][c]
                             - (Count(ready', Routes(r, c)) + Cardinality(Routing(r, c)'))
         /\ Balance(r, c)' = inCount'[r][c] + Count(ready', ProcessHandlers(r, c)) - fed'[r][c]
         /\ Cardinality(Routing(r, c)') \in Nat
         /\ Count(ready', Routes(r, c)) \in Nat /\ Count(ready', ProcessHandlers(r, c)) \in Nat
<1>1. ready' \in Seq(Handlers)
  BY DEF TypeOK
<1>2. /\ Cardinality({i \in DOMAIN ready' : ready'[i] = RouteHandler(r, c)})
           = Count(ready', Routes(r, c))
      /\ Cardinality({i \in DOMAIN ready' :
             ready'[i].op = "process" /\ ready'[i].r = r /\ ready'[i].c = c})
           = Count(ready', ProcessHandlers(r, c))
  BY <1>1, InQueue
<1>3. Count(ready', Routes(r, c)) \in Nat /\ Count(ready', ProcessHandlers(r, c)) \in Nat
  BY <1>1, PlacesFinite
<1>4. Cardinality(Routing(r, c)') \in Nat
  BY FS_CardinalityType
<1>5. Routed(r, c)' = emitted'[r][c] - dropped'[r][c]
                             - (Count(ready', Routes(r, c)) + Cardinality(Routing(r, c)'))
  BY <1>2 DEF Routed, PendingRoutes
<1>6. Balance(r, c)' = inCount'[r][c] + Count(ready', ProcessHandlers(r, c)) - fed'[r][c]
  BY <1>2 DEF Balance, Waiting
<1> QED BY <1>3, <1>4, <1>5, <1>6

\* As much was routed, and as much came.
Same(r, c) ==
    /\ IsFiniteSet(Routing(r, c)')
    /\ Routed(r, c)' = Routed(r, c) /\ Balance(r, c)' = Balance(r, c)

LEMMA CompsHere ==
  ASSUME TypeOK
  PROVE  \A r \in Routers : conf[r] \in ConfigShape /\ conf[r].comps \subseteq Comps
<1>1. \A r \in Routers : conf[r] \in ConfigShape
  BY NoConfigShape DEF TypeOK
<1>2. \A k \in ConfigShape : k.comps \subseteq Comps
  BY DEF ConfigShape
<1> QED BY <1>1, <1>2

LEMMA Steady ==
  ASSUME TypeOK, Counts, Ledger, conf' = conf, out' = out,
         \A r \in Routers, c \in Comps : Same(r, c)
  PROVE  Counts' /\ Ledger'
<1>1. Counts'
  BY DEF Counts, Same
<1>2. \A r \in Routers : conf[r].comps \subseteq Comps
  BY CompsHere
<1>3. \A r \in Routers : Packets(r)' = Packets(r)
  BY <1>2 DEF Packets, Same
<1>4. \A r \in Routers : CopiesOut(r)' = CopiesOut(r)
  BY <1>3 DEF CopiesOut
<1>5. \A r \in Routers, c \in Comps : CopiesTo(r, c)' = CopiesTo(r, c)
  BY <1>3 DEF CopiesTo
<1>6. Ledger'
  BY <1>4, <1>5 DEF Ledger, Same
<1> QED BY <1>1, <1>6

\* The queue p has as many packets as q.
Calm(q, p) ==
    \A r \in Routers, c \in Comps :
        /\ Count(p, Routes(r, c)) = Count(q, Routes(r, c))
        /\ Count(p, ProcessHandlers(r, c)) = Count(q, ProcessHandlers(r, c))

LEMMA NoPacket ==
  ASSUME NEW h, h.op \in {"generate", "read"}, NEW r, NEW c
  PROVE  h \notin Routes(r, c) /\ h \notin ProcessHandlers(r, c)
BY DEF Routes, ProcessHandlers, RouteHandler

LEMMA CalmTail ==
  ASSUME NEW q \in Seq(Handlers), q # <<>>, Head(q).op \in {"generate", "read"}
  PROVE  Calm(q, Tail(q))
<1> SUFFICES ASSUME NEW r \in Routers, NEW c \in Comps
             PROVE  /\ Count(Tail(q), Routes(r, c)) = Count(q, Routes(r, c))
                    /\ Count(Tail(q), ProcessHandlers(r, c)) = Count(q, ProcessHandlers(r, c))
  BY DEF Calm
<1>1. Head(q) \notin Routes(r, c) /\ Head(q) \notin ProcessHandlers(r, c)
  BY NoPacket
<1>2. Tail(q) \in Seq(Handlers)
  BY HeadTailProperties
<1>3. \A X : Count(Tail(q), X) \in Nat
  BY <1>2, PlacesFinite
<1>4. \A X : Count(q, X) = One(Head(q) \in X) + Count(Tail(q), X)
  BY CountTail
<1> QED BY <1>1, <1>3, <1>4 DEF One

LEMMA CalmAppend ==
  ASSUME NEW q \in Seq(Handlers), NEW h \in Handlers, h.op \in {"generate", "read"}
  PROVE  Calm(q, Append(q, h))
<1> SUFFICES ASSUME NEW r \in Routers, NEW c \in Comps
             PROVE  /\ Count(Append(q, h), Routes(r, c)) = Count(q, Routes(r, c))
                    /\ Count(Append(q, h), ProcessHandlers(r, c))
                         = Count(q, ProcessHandlers(r, c))
  BY DEF Calm
<1>1. h \notin Routes(r, c) /\ h \notin ProcessHandlers(r, c)
  BY NoPacket
<1>2. \A X : Count(q, X) \in Nat
  BY PlacesFinite
<1>3. \A X : Count(Append(q, h), X) = Count(q, X) + One(h \in X)
  BY CountAppend
<1> QED BY <1>1, <1>2, <1>3 DEF One

LEMMA CalmItself == \A q : Calm(q, q)
BY DEF Calm

LEMMA QuietFlow ==
  ASSUME TypeOK, TypeOK', Counts, Ledger, conf' = conf, out' = out, inCount' = inCount,
         emitted' = emitted, dropped' = dropped, fed' = fed, Calm(ready, ready'),
         \A r \in Routers, c \in Comps : Routing(r, c)' = Routing(r, c)
  PROVE  Counts' /\ Ledger'
<1>1. ASSUME NEW r \in Routers, NEW c \in Comps PROVE Same(r, c)
  <2>1. IsFiniteSet(Routing(r, c)) /\ IsFiniteSet(Routing(r, c)')
    BY DEF Counts
  <2>2. Cardinality(Routing(r, c)') = Cardinality(Routing(r, c))
    OBVIOUS
  <2>3. Routed(r, c)' = Routed(r, c)
    BY <2>1, <2>2, Numbers, NumbersNext DEF Calm
  <2>4. Balance(r, c)' = Balance(r, c)
    BY <2>1, Numbers, NumbersNext DEF Calm
  <2> QED BY <2>1, <2>3, <2>4 DEF Same
<1> QED BY <1>1, Steady

LEMMA RoutingSame ==
  ASSUME NEW t \in Threads, \A u \in Threads : u # t => run'[u] = run[u],
         run[t].pc # "route", run'[t].pc # "route", NEW r \in Routers, NEW c \in Comps
  PROVE  Routing(r, c)' = Routing(r, c)
BY DEF Routing

LEMMA HousedTail ==
  ASSUME NEW q \in Seq(Handlers), q # <<>>, NEW k, Housed(q, k)
  PROVE  /\ Housed(Tail(q), k)
         /\ Head(q).op # "read" => Head(q).c \in k[Head(q).r].comps
<1>1. /\ DOMAIN Tail(q) = 1 .. Len(q) - 1 /\ DOMAIN q = 1 .. Len(q)
      /\ Len(q) \in Nat \ {0} /\ Head(q) = q[1]
      /\ \A i \in DOMAIN Tail(q) : Tail(q)[i] = q[i + 1]
  BY HeadTailProperties, LenProperties, EmptySeq
<1>2. 1 \in DOMAIN q /\ \A i \in DOMAIN Tail(q) : i + 1 \in DOMAIN q
  BY <1>1
<1> QED BY <1>1, <1>2 DEF Housed

LEMMA HousedConcat ==
  ASSUME NEW q \in Seq(Handlers), NEW p \in Seq(Handlers), NEW k, Housed(q, k), Housed(p, k)
  PROVE  Housed(q \o p, k)
<1>1. PICK n \in Nat : n = Len(q) /\ DOMAIN q = 1 .. n
  BY LenProperties
<1>2. PICK m \in Nat : m = Len(p) /\ DOMAIN p = 1 .. m
  BY LenProperties
<1>3. PICK s : s = q \o p
  OBVIOUS
<1>4. s \in Seq(Handlers) /\ Len(s) = n + m /\ \A i \in 1 .. n + m :
        s[i] = IF i <= n THEN q[i] ELSE p[i - n]
  BY <1>1, <1>2, <1>3, ConcatProperties
<1>5. DOMAIN s = 1 .. n + m
  BY <1>4, LenProperties
<1>6. ASSUME NEW i \in 1 .. n + m, s[i].op # "read" PROVE s[i].c \in k[s[i].r].comps
  <2>1. CASE i <= n
    <3>1. i \in DOMAIN q /\ s[i] = q[i]
      BY <1>1, <1>4, <2>1
    <3> QED BY <1>6, <3>1 DEF Housed
  <2>2. CASE ~(i <= n)
    <3>1. i - n \in DOMAIN p /\ s[i] = p[i - n]
      BY <1>2, <1>4, <2>2
    <3> QED BY <1>6, <3>1 DEF Housed
  <2> QED BY <2>1, <2>2
<1> QED BY <1>3, <1>5, <1>6 DEF Housed

LEMMA HousedAppend ==
  ASSUME NEW q \in Seq(Handlers), NEW h \in Handlers, NEW k, Housed(q, k),
         h.op # "read" => h.c \in k[h.r].comps
  PROVE  Housed(Append(q, h), k)
<1>1. <<h>> \in Seq(Handlers) /\ Append(q, h) = q \o <<h>>
  BY AppendIsConcat
<1>2. Housed(<<h>>, k)
  BY DEF Housed
<1> QED BY <1>1, <1>2, HousedConcat

LEMMA QuietStep ==
  ASSUME TypeOK, TypeOK', FlowInv, Defined' => Defined, conf' = conf, cur' = cur, made' = made,
         out' = out, inCount' = inCount, emitted' = emitted, dropped' = dropped, fed' = fed,
         Calm(ready, ready'), Housed(ready', conf),
         \A u \in Threads : AtHome(run'[u], conf) /\ (run'[u].pc = "fill" => run[u].pc = "fill"),
         \A r \in Routers, c \in Comps : Routing(r, c)' = Routing(r, c),
         \A r \in Routers, c \in Comps : timer'[r][c] => c \in conf[r].comps
  PROVE  FlowInv'
<1>1. Counts' /\ Ledger'
  BY QuietFlow DEF FlowInv
<1>2. Homes'
  BY DEF Homes
<1>3. Blank'
  BY DEF FlowInv, Blank
<1> QED BY <1>1, <1>2, <1>3 DEF FlowInv

\* The same, if only one thread moves.
LEMMA QuietThread ==
  ASSUME TypeOK, TypeOK', FlowInv, Defined, conf' = conf, cur' = cur, made' = made,
         out' = out, inCount' = inCount, emitted' = emitted, dropped' = dropped, fed' = fed,
         timer' = timer, Calm(ready, ready'), Housed(ready', conf),
         NEW t \in Threads, NEW f, run' = [run EXCEPT ![t] = f],
         run[t].pc # "route", f.pc \notin {"route", "fill"}, AtHome(f, conf)
  PROVE  FlowInv'
<1>1. run'[t] = f /\ \A u \in Threads : u # t => run'[u] = run[u]
  BY DEF TypeOK
<1>2. \A r \in Routers, c \in Comps : Routing(r, c)' = Routing(r, c)
  BY <1>1, RoutingSame
<1>3. \A u \in Threads : AtHome(run[u], conf)
  BY DEF FlowInv, Homes
<1>4. \A u \in Threads : AtHome(run'[u], conf) /\ (run'[u].pc = "fill" => run[u].pc = "fill")
  BY <1>1, <1>3
<1>5. \A r \in Routers, c \in Comps : timer'[r][c] => c \in conf[r].comps
  BY DEF FlowInv, Homes
<1> QED BY <1>2, <1>4, <1>5, QuietStep

-----------------------------------------------------------------------------
(* Steps of the quiet kind *)

LEMMA HomesNow ==
  ASSUME FlowInv, TypeOK
  PROVE  /\ ready \in Seq(Handlers) /\ run \in [Threads -> Frames]
         /\ Housed(ready, conf) /\ \A t \in Threads : AtHome(run[t], conf)
BY DEF FlowInv, Homes, TypeOK

LEMMA TakenHome ==
  ASSUME FlowInv, TypeOK, NEW t \in Threads, NEW op, Takes(t, op)
  PROVE  /\ Defined /\ run[t] = Idle /\ Head(ready) \in Handlers /\ Head(ready).op = op
         /\ ready # <<>> /\ Tail(ready) \in Seq(Handlers) /\ Housed(Tail(ready), conf)
         /\ op # "read" => Head(ready).c \in conf[Head(ready).r].comps
<1>1. Defined /\ run[t] = Idle /\ ready # <<>>
  BY DEF Takes, Free
<1>2. Head(ready) \in Handlers /\ Head(ready).op = op /\ Tail(ready) \in Seq(Handlers)
  BY HeadHandler
<1>3. Housed(Tail(ready), conf)
      /\ (Head(ready).op # "read" => Head(ready).c \in conf[Head(ready).r].comps)
  BY <1>1, HomesNow, HousedTail
<1> QED BY <1>1, <1>2, <1>3

LEMMA IdleAtHome == \A k : AtHome(Idle, k) /\ Idle.pc = "idle"
BY DEF AtHome, Idle, PacketSteps

LEMMA RunGenerateFlow ==
  ASSUME TypeOK, TypeOK', FlowInv, NEW t \in Threads, RunGenerate(t) PROVE FlowInv'
<1>1. /\ Defined /\ run[t] = Idle /\ Head(ready).op = "generate" /\ ready # <<>>
      /\ Housed(Tail(ready), conf) /\ Head(ready).c \in conf[Head(ready).r].comps
  BY TakenHome DEF RunGenerate
<1>2. Calm(ready, Tail(ready))
  BY <1>1, HomesNow, CalmTail
<1> DEFINE f == IF genOn[Head(ready).r][Head(ready).c]
                THEN [Idle EXCEPT !.pc = "generate", !.r = Head(ready).r, !.c = Head(ready).c]
                ELSE Idle
<1>3. run' = [run EXCEPT ![t] = f] /\ ready' = Tail(ready)
  BY DEF RunGenerate
<1>4. AtHome(f, conf) /\ f.pc \notin {"route", "fill"}
  BY <1>1, IdleAtHome DEF AtHome, Idle, PacketSteps
<1>5. run[t].pc # "route"
  BY <1>1, IdleAtHome
<1> HIDE DEF f
<1> QED BY <1>1, <1>2, <1>3, <1>4, <1>5, QuietThread
    DEF RunGenerate, routerVars, compVars, histVars

LEMMA RunReadFlow ==
  ASSUME TypeOK, TypeOK', FlowInv, NEW t \in Threads, RunRead(t) PROVE FlowInv'
<1>1. /\ Defined /\ run[t] = Idle /\ Head(ready).op = "read" /\ ready # <<>>
      /\ Housed(Tail(ready), conf)
  BY TakenHome DEF RunRead
<1>2. Calm(ready, Tail(ready))
  BY <1>1, HomesNow, CalmTail
<1>3. run' = [run EXCEPT ![t] = run[t]] /\ ready' = Tail(ready)
  BY HomesNow DEF RunRead
<1>4. run[t].pc # "route" /\ run[t].pc # "fill" /\ AtHome(run[t], conf)
  BY <1>1, IdleAtHome
<1> QED BY <1>1, <1>2, <1>3, <1>4, QuietThread DEF RunRead, routerVars, compVars, histVars

LEMMA TimerFiresFlow ==
  ASSUME TypeOK, TypeOK', FlowInv, NEW r \in Routers, NEW c \in Comps, TimerFires(r, c)
  PROVE  FlowInv'
<1> DEFINE h == GenerateHandler(r, c)
<1>1. h \in Handlers /\ h.op = "generate" /\ h.c = c /\ h.r = r
  BY DEF GenerateHandler, Handlers
<1>2. c \in conf[r].comps /\ ready' = Append(ready, h) /\ timer' = [timer EXCEPT ![r][c] = FALSE]
  BY DEF TimerFires, FlowInv, Homes
<1> HIDE DEF h
<1>3. Calm(ready, ready')
  BY <1>1, <1>2, HomesNow, CalmAppend
<1>4. Housed(ready', conf)
  BY <1>1, <1>2, HomesNow, HousedAppend
<1>5. \A q \in Routers, d \in Comps : timer'[q][d] => timer[q][d]
  BY <1>2 DEF TypeOK, PerObject
<1>6. \A q \in Routers, d \in Comps : timer'[q][d] => d \in conf[q].comps
  BY <1>5 DEF FlowInv, Homes
<1>7. run' = run /\ \A q \in Routers, d \in Comps : Routing(q, d)' = Routing(q, d)
  BY DEF TimerFires, Routing
<1>8. \A u \in Threads : AtHome(run'[u], conf) /\ (run'[u].pc = "fill" => run[u].pc = "fill")
  BY <1>7, HomesNow
<1> QED BY <1>3, <1>4, <1>6, <1>7, <1>8, QuietStep
    DEF TimerFires, routerVars, histVars

LEMMA HearMessageFlow ==
  ASSUME TypeOK, TypeOK', FlowInv, NEW t \in Threads, NEW k, NEW c, NEW port,
         HearMessage(t, k, c, port)
  PROVE  FlowInv'
<1> DEFINE f == [Idle EXCEPT !.pc = "bytes", !.k = k, !.r = cur, !.c = c, !.port = port]
<1>1. Defined /\ run[t] = Idle /\ run' = [run EXCEPT ![t] = f] /\ ready' = ready
  BY DEF HearMessage, Free
<1>2. f.pc = "bytes" /\ AtHome(f, conf)
  BY DEF AtHome, Idle, PacketSteps
<1>3. run[t].pc # "route"
  BY <1>1, IdleAtHome
<1> HIDE DEF f
<1> QED BY <1>1, <1>2, <1>3, HomesNow, CalmItself, QuietThread
    DEF HearMessage, routerVars, compVars, histVars

LEMMA CountBytesFlow ==
  ASSUME TypeOK, TypeOK', FlowInv, NEW t \in Threads, CountBytes(t) PROVE FlowInv'
<1> DEFINE f == [run[t] EXCEPT !.pc = "deliver", !.r = cur]
<1>1. Defined /\ run[t].pc = "bytes" /\ run' = [run EXCEPT ![t] = f] /\ ready' = ready
  BY HomesNow DEF CountBytes, At
<1>2. f.pc = "deliver" /\ AtHome(f, conf)
  BY <1>1, HomesNow DEF AtHome, PacketSteps, Frames, FrameShape
<1> HIDE DEF f
<1> QED BY <1>1, <1>2, HomesNow, CalmItself, QuietThread
    DEF CountBytes, routerVars, compVars, histVars

LEMMA AcceptsFlow ==
  ASSUME TypeOK, TypeOK', FlowInv, NEW t \in Threads, NEW k, NEW f, Accepts(t, k, f),
         f.pc \in {"set", "prev", "status"}
  PROVE  FlowInv'
<1>1. Defined /\ run[t] = Idle /\ run' = [run EXCEPT ![t] = f] /\ ready' = ready
  BY DEF Accepts, Free
<1>2. AtHome(f, conf) /\ f.pc \notin {"route", "fill"}
  BY DEF AtHome, PacketSteps
<1>3. run[t].pc # "route"
  BY <1>1, IdleAtHome
<1> QED BY <1>1, <1>2, <1>3, HomesNow, CalmItself, QuietThread
    DEF Accepts, routerVars, compVars, histVars

LEMMA AcceptFlow ==
  ASSUME TypeOK, TypeOK', FlowInv, NEW t \in Threads, Accept(t) PROVE FlowInv'
<1>1. ASSUME NEW k \in Peers, NEW c \in Comps, NEW port \in Ports, HearMessage(t, k, c, port)
      PROVE  FlowInv'
  BY <1>1, HearMessageFlow
<1>2. ASSUME NEW k \in Controls, NEW on \in BOOLEAN, AcceptCommand(t, k, on) PROVE FlowInv'
  <2> DEFINE f == [Idle EXCEPT !.pc = "set", !.k = k, !.r = cur, !.on = on]
  <2>1. Accepts(t, k, f) /\ f.pc = "set"
    BY <1>2 DEF AcceptCommand, Idle
  <2> HIDE DEF f
  <2> QED BY <2>1, AcceptsFlow
<1>3. ASSUME NEW k \in Controls, NEW new \in Configs, AcceptDeploy(t, k, new) PROVE FlowInv'
  <2> DEFINE f == [Idle EXCEPT !.pc = "prev", !.k = k, !.r = cur, !.conf = new]
  <2>1. Accepts(t, k, f) /\ f.pc = "prev"
    BY <1>3 DEF AcceptDeploy, Idle
  <2> HIDE DEF f
  <2> QED BY <2>1, AcceptsFlow
<1>4. ASSUME NEW k \in Controls, AcceptStatus(t, k) PROVE FlowInv'
  <2> DEFINE f == [Idle EXCEPT !.pc = "status", !.k = k, !.r = cur]
  <2>1. Accepts(t, k, f) /\ f.pc = "status"
    BY <1>4 DEF AcceptStatus, Idle
  <2> HIDE DEF f
  <2> QED BY <2>1, AcceptsFlow
<1> QED BY <1>1, <1>2, <1>3, <1>4 DEF Accept

LEMMA SetStartedFlow ==
  ASSUME TypeOK, TypeOK', FlowInv, NEW t \in Threads, SetStarted(t) PROVE FlowInv'
<1> DEFINE f == [run[t] EXCEPT !.pc = "sweep", !.todo = conf[run[t].r].comps]
<1>1. Defined /\ run[t].pc = "set" /\ run' = [run EXCEPT ![t] = f] /\ ready' = ready
  BY HomesNow DEF SetStarted, At
<1>2. f.pc = "sweep" /\ AtHome(f, conf)
  BY <1>1, HomesNow DEF AtHome, PacketSteps, Frames, FrameShape
<1> HIDE DEF f
<1> QED BY <1>1, <1>2, HomesNow, CalmItself, QuietThread
    DEF SetStarted, compVars

LEMMA ReadPreviousFlow ==
  ASSUME TypeOK, TypeOK', FlowInv, NEW t \in Threads, ReadPrevious(t) PROVE FlowInv'
<1> DEFINE f == [run[t] EXCEPT !.pc = "swap", !.on = started[run[t].r]]
<1>1. Defined /\ run[t].pc = "prev" /\ run' = [run EXCEPT ![t] = f] /\ ready' = ready
  BY HomesNow DEF ReadPrevious, At
<1>2. f.pc = "swap" /\ AtHome(f, conf)
  BY <1>1, HomesNow DEF AtHome, PacketSteps, Frames, FrameShape
<1> HIDE DEF f
<1> QED BY <1>1, <1>2, HomesNow, CalmItself, QuietThread
    DEF ReadPrevious, routerVars, compVars, histVars

\* A request is answered.
LEMMA AnswerQueue ==
  ASSUME TypeOK, FlowInv, NEW t \in Threads, run[t].pc \in RequestSteps, Answer(t, ready)
  PROVE  /\ Calm(ready, ready') /\ Housed(ready', conf)
         /\ run' = [run EXCEPT ![t] = Idle]
<1> DEFINE h == [op |-> "read", k |-> run[t].k]
<1>1. h \in Handlers /\ h.op = "read"
  BY HomesNow DEF Handlers, Frames
<1>2. ready' = Append(ready, h) /\ run' = [run EXCEPT ![t] = Idle]
  BY DEF Answer
<1> HIDE DEF h
<1> QED BY <1>1, <1>2, HomesNow, CalmAppend, HousedAppend

LEMMA StatusFlow ==
  ASSUME TypeOK, TypeOK', FlowInv, NEW t \in Threads, Status(t) PROVE FlowInv'
<1>1. Defined /\ run[t].pc = "status" /\ Answer(t, ready)
  BY DEF Status, At
<1>2. Calm(ready, ready') /\ Housed(ready', conf) /\ run' = [run EXCEPT ![t] = Idle]
  BY <1>1, AnswerQueue DEF RequestSteps
<1> QED BY <1>1, <1>2, IdleAtHome, QuietThread DEF Status, routerVars, compVars, histVars

LEMMA SweepDoneFlow ==
  ASSUME TypeOK, TypeOK', FlowInv, NEW t \in Threads, SweepDone(t) PROVE FlowInv'
<1>1. Defined /\ run[t].pc = "sweep"
  BY DEF SweepDone, At
<1>2. CASE run[t].on /\ run[t].old # None
  <2> DEFINE f == [run[t] EXCEPT !.pc = "set", !.on = FALSE, !.r = run[t].old]
  <2>1. run' = [run EXCEPT ![t] = f] /\ ready' = ready
    BY <1>2, HomesNow DEF SweepDone
  <2>2. f.pc = "set" /\ AtHome(f, conf)
    BY <1>1, HomesNow DEF AtHome, PacketSteps, Frames, FrameShape
  <2> HIDE DEF f
  <2> QED BY <1>1, <2>1, <2>2, HomesNow, CalmItself, QuietThread
      DEF SweepDone, routerVars, compVars, histVars
<1>3. CASE ~(run[t].on /\ run[t].old # None)
  <2>1. Answer(t, ready)
    BY <1>3 DEF SweepDone
  <2>2. Calm(ready, ready') /\ Housed(ready', conf) /\ run' = [run EXCEPT ![t] = Idle]
    BY <1>1, <2>1, AnswerQueue DEF RequestSteps
  <2> QED BY <1>1, <2>2, IdleAtHome, QuietThread DEF SweepDone, routerVars, compVars, histVars
<1> QED BY <1>2, <1>3

\* A new router is empty.
LEMMA ExchangeFlow ==
  ASSUME TypeOK, TypeOK', FlowInv, NEW t \in Threads, Exchange(t) PROVE FlowInv'
<1> DEFINE f == [run[t] EXCEPT !.pc = "fill", !.old = cur, !.own = {cur, made + 1}]
<1>1. /\ Defined /\ run[t].pc = "swap" /\ run' = [run EXCEPT ![t] = f] /\ ready' = ready
      /\ made' = made + 1 /\ cur' = made + 1 /\ made < MaxCommands /\ conf' = conf
      /\ timer' = timer
  BY HomesNow DEF Exchange, At, compVars
<1>2. f.pc = "fill" /\ AtHome(f, conf)
  BY <1>1, HomesNow DEF AtHome, PacketSteps, Frames, FrameShape
<1> HIDE DEF f
<1>3. run'[t] = f /\ \A u \in Threads : u # t => run'[u] = run[u]
  BY <1>1, HomesNow
<1>4. \A r \in Routers, c \in Comps : Routing(r, c)' = Routing(r, c)
  BY <1>1, <1>2, <1>3, RoutingSame
<1>5. Counts' /\ Ledger'
  BY <1>1, <1>4, CalmItself, QuietFlow DEF FlowInv, Exchange, compVars, histVars
<1>6. Homes'
  BY <1>1, <1>2, <1>3 DEF FlowInv, Homes
<1>7. made + 1 \in Routers /\ made \in Nat
  BY <1>1 DEF TypeOK, Routers
<1>8. Blank'
  <2>1. \A r \in Routers : r > made' => r > made
    BY <1>1, <1>7 DEF Routers
  <2>2. conf[made + 1].comps = {}
    BY <1>7 DEF FlowInv, Blank
  <2> QED BY <1>1, <1>7, <2>1, <2>2 DEF FlowInv, Blank
<1> QED BY <1>5, <1>6, <1>8 DEF FlowInv

-----------------------------------------------------------------------------
(* Steps that move packets *)

\* A do_route of c counts for c alone, and is no packet that waits.
LEMMA RouteCounts ==
  ASSUME NEW r, NEW c, NEW q, NEW d
  PROVE  /\ RouteHandler(r, c) \in Routes(q, d) <=> q = r /\ d = c
         /\ RouteHandler(r, c) \notin ProcessHandlers(q, d)
BY DEF Routes, RouteHandler, ProcessHandlers

LEMMA GenerateHandlers ==
  ASSUME NEW r \in Routers, NEW c \in Comps
  PROVE  /\ RouteHandler(r, c) \in Handlers /\ GenerateHandler(r, c) \in Handlers
         /\ RouteHandler(r, c).c = c /\ RouteHandler(r, c).r = r
         /\ GenerateHandler(r, c).c = c /\ GenerateHandler(r, c).r = r
         /\ GenerateHandler(r, c).op = "generate"
BY DEF RouteHandler, GenerateHandler, Handlers

\* generate() posts its do_route if it emits, and no packet.
LEMMA GeneratePostsCount ==
  ASSUME NEW r \in Routers, NEW c \in Comps, NEW q \in Routers, NEW d \in Comps
  PROVE  /\ Count(GeneratePosts(r, c), Routes(q, d)) = One(Emits(r, c) /\ q = r /\ d = c)
         /\ Count(GeneratePosts(r, c), ProcessHandlers(q, d)) = 0
<1>1. PICK a : a = IF Emits(r, c) THEN <<RouteHandler(r, c)>> ELSE <<>>
  OBVIOUS
<1>2. PICK b : b = NextGenerate(r, c)
  OBVIOUS
<1>3. a \in Seq(Handlers) /\ b \in Seq(Handlers) /\ GeneratePosts(r, c) = a \o b
  BY <1>1, <1>2, GenerateHandlers, EmptySeq DEF NextGenerate, GeneratePosts
<1>4. \A X : Count(a \o b, X) = Count(a, X) + Count(b, X)
  BY <1>3, CountConcat
<1>5. Count(a, Routes(q, d)) = One(Emits(r, c) /\ q = r /\ d = c)
  <2>1. CASE Emits(r, c)
    BY <1>1, <2>1, CountOne, RouteCounts DEF One
  <2>2. CASE ~Emits(r, c)
    BY <1>1, <2>2, CountNone DEF One
  <2> QED BY <2>1, <2>2
<1>6. Count(a, ProcessHandlers(q, d)) = 0
  <2>1. CASE Emits(r, c)
    BY <1>1, <2>1, CountOne, RouteCounts DEF One
  <2>2. CASE ~Emits(r, c)
    BY <1>1, <2>2, CountNone
  <2> QED BY <2>1, <2>2
<1>7. Count(b, Routes(q, d)) = 0 /\ Count(b, ProcessHandlers(q, d)) = 0
  <2>1. b = <<GenerateHandler(r, c)>> \/ b = <<>>
    BY <1>2 DEF NextGenerate
  <2>2. GenerateHandler(r, c) \notin Routes(q, d) /\ GenerateHandler(r, c) \notin ProcessHandlers(q, d)
    BY NoPacket, GenerateHandlers
  <2> QED BY <2>1, <2>2, CountOne, CountNone DEF One
<1>8. One(Emits(r, c) /\ q = r /\ d = c) \in Nat
  BY DEF One
<1> QED BY <1>3, <1>4, <1>5, <1>6, <1>7, <1>8

LEMMA SameNumbers ==
  ASSUME TypeOK, TypeOK', NEW r \in Routers, NEW c \in Comps,
         IsFiniteSet(Routing(r, c)), IsFiniteSet(Routing(r, c)'),
         emitted'[r][c] - dropped'[r][c]
             - (Count(ready', Routes(r, c)) + Cardinality(Routing(r, c)'))
           = emitted[r][c] - dropped[r][c]
             - (Count(ready, Routes(r, c)) + Cardinality(Routing(r, c))),
         inCount'[r][c] + Count(ready', ProcessHandlers(r, c)) - fed'[r][c]
           = inCount[r][c] + Count(ready, ProcessHandlers(r, c)) - fed[r][c]
  PROVE  Same(r, c)
<1>1. /\ Routed(r, c) = emitted[r][c] - dropped[r][c]
                             - (Count(ready, Routes(r, c)) + Cardinality(Routing(r, c)))
      /\ Balance(r, c) = inCount[r][c] + Count(ready, ProcessHandlers(r, c)) - fed[r][c]
  BY Numbers
<1>2. /\ Routed(r, c)' = emitted'[r][c] - dropped'[r][c]
                             - (Count(ready', Routes(r, c)) + Cardinality(Routing(r, c)'))
      /\ Balance(r, c)' = inCount'[r][c] + Count(ready', ProcessHandlers(r, c)) - fed'[r][c]
  BY NumbersNext
<1> QED BY <1>1, <1>2 DEF Same

\* The terms of those sums
LEMMA NumbersTyped ==
  ASSUME TypeOK, NEW r \in Routers, NEW c \in Comps, IsFiniteSet(Routing(r, c))
  PROVE  /\ emitted[r][c] \in Nat /\ dropped[r][c] \in Nat /\ inCount[r][c] \in Nat
         /\ fed[r][c] \in Nat /\ Cardinality(Routing(r, c)) \in Nat
         /\ Count(ready, Routes(r, c)) \in Nat /\ Count(ready, ProcessHandlers(r, c)) \in Nat
BY Numbers

LEMMA GenerateEffectFlow ==
  ASSUME Counting, TypeOK, TypeOK', FlowInv,
         NEW r \in Routers, NEW c \in Comps, c \in conf[r].comps,
         GenerateEffect(r, c, ready), inCount' = inCount, dropped' = dropped, fed' = fed,
         \A q \in Routers, d \in Comps : Routing(q, d)' = Routing(q, d)
  PROVE  /\ \A q \in Routers, d \in Comps : Same(q, d)
         /\ Housed(ready', conf)
         /\ \A q \in Routers, d \in Comps : timer'[q][d] => d \in conf[q].comps
<1>1. PICK p \in Seq(Handlers) : p = GeneratePosts(r, c)
  BY GeneratePostsType
<1>2. ready' = ready \o p
  BY <1>1 DEF GenerateEffect
<1>3. ASSUME NEW q \in Routers, NEW d \in Comps PROVE Same(q, d)
  <2>1. IsFiniteSet(Routing(q, d)) /\ IsFiniteSet(Routing(q, d)')
        /\ Cardinality(Routing(q, d)') = Cardinality(Routing(q, d))
    BY DEF FlowInv, Counts
  <2>2. \A X : Count(ready', X) = Count(ready, X) + Count(p, X)
    BY <1>2, HomesNow, CountConcat
  <2>3. PICK e \in Nat : e = One(Emits(r, c) /\ q = r /\ d = c)
    BY DEF One
  <2>4. Count(p, Routes(q, d)) = e /\ Count(p, ProcessHandlers(q, d)) = 0
    BY <1>1, <2>3, GeneratePostsCount
  <2>5. /\ Count(ready', Routes(q, d)) = Count(ready, Routes(q, d)) + e
        /\ Count(ready', ProcessHandlers(q, d)) = Count(ready, ProcessHandlers(q, d)) + 0
    BY <2>2, <2>4
  <2>6. emitted'[q][d] = emitted[q][d] + e
    <3>1. PICK v : v = IF Emits(r, c) THEN emitted[r][c] + 1 ELSE emitted[r][c]
      OBVIOUS
    <3>2. emitted' = [emitted EXCEPT ![r][c] = v] /\ emitted \in PerObject(Nat)
      BY <3>1, PlusIs DEF GenerateEffect, TypeOK
    <3>3. emitted'[q][d] = IF q = r /\ d = c THEN v ELSE emitted[q][d]
      BY <3>2 DEF PerObject
    <3>4. emitted[q][d] \in Nat
      BY <2>1, Numbers
    <3> QED BY <2>3, <3>1, <3>3, <3>4 DEF One
  <2>7. /\ emitted[q][d] \in Nat /\ dropped[q][d] \in Nat /\ inCount[q][d] \in Nat
        /\ fed[q][d] \in Nat /\ Cardinality(Routing(q, d)) \in Nat
        /\ Count(ready, Routes(q, d)) \in Nat /\ Count(ready, ProcessHandlers(q, d)) \in Nat
    BY <2>1, NumbersTyped
  <2>8. emitted'[q][d] - dropped'[q][d]
             - (Count(ready', Routes(q, d)) + Cardinality(Routing(q, d)'))
           = emitted[q][d] - dropped[q][d]
             - (Count(ready, Routes(q, d)) + Cardinality(Routing(q, d)))
    <3>1. PICK y \in Nat, x \in Nat, k \in Nat, a \in Nat :
             /\ y = emitted[q][d] /\ x = dropped[q][d] /\ k = Cardinality(Routing(q, d))
             /\ a = Count(ready, Routes(q, d))
      BY <2>7
    <3>2. /\ emitted'[q][d] = y + e /\ dropped'[q][d] = x
          /\ Cardinality(Routing(q, d)') = k /\ Count(ready', Routes(q, d)) = a + e
      BY <2>1, <2>5, <2>6, <3>1
    <3>3. y + e - x - (a + e + k) = y - x - (a + k)
      OBVIOUS
    <3>4. emitted'[q][d] - dropped'[q][d]
             - (Count(ready', Routes(q, d)) + Cardinality(Routing(q, d)'))
           = y + e - x - (a + e + k)
      BY <3>2
    <3>5. emitted[q][d] - dropped[q][d]
             - (Count(ready, Routes(q, d)) + Cardinality(Routing(q, d))) = y - x - (a + k)
      BY <3>1
    <3> QED BY <3>3, <3>4, <3>5
  <2>9. inCount'[q][d] + Count(ready', ProcessHandlers(q, d)) - fed'[q][d]
           = inCount[q][d] + Count(ready, ProcessHandlers(q, d)) - fed[q][d]
    BY <2>5, <2>7
  <2> QED BY <2>1, <2>8, <2>9, SameNumbers
<1>4. Housed(p, conf)
  <2>1. \A i \in DOMAIN p : p[i] = RouteHandler(r, c) \/ p[i] = GenerateHandler(r, c)
    BY <1>1 DEF GeneratePosts, NextGenerate
  <2>2. \A i \in DOMAIN p : p[i].c = c /\ p[i].r = r
    BY <2>1, GenerateHandlers
  <2> QED BY <2>2 DEF Housed
<1>5. Housed(ready', conf)
  BY <1>2, <1>4, HomesNow, HousedConcat
<1>6. \A q \in Routers, d \in Comps : timer'[q][d] => timer[q][d] \/ (q = r /\ d = c)
  <2>1. PICK v : v = (timer[r][c] \/ Kind[c] = "timed_generator")
    OBVIOUS
  <2>2. timer' = [timer EXCEPT ![r][c] = v] /\ timer \in PerObject(BOOLEAN)
    BY <2>1 DEF GenerateEffect, TypeOK
  <2> TAKE q \in Routers, d \in Comps
  <2>3. timer'[q][d] = IF q = r /\ d = c THEN v ELSE timer[q][d]
    BY <2>2 DEF PerObject
  <2> QED BY <2>3
<1>7. \A q \in Routers, d \in Comps : timer'[q][d] => d \in conf[q].comps
  BY <1>6 DEF FlowInv, Homes
<1> QED BY <1>3, <1>5, <1>7

\* What remains to be shown when no packet was routed
LEMMA SameFlow ==
  ASSUME TypeOK, FlowInv, Defined, conf' = conf, out' = out, cur' = cur, made' = made,
         \A q \in Routers, d \in Comps : Same(q, d), Housed(ready', conf),
         \A u \in Threads : AtHome(run'[u], conf) /\ (run'[u].pc = "fill" => run[u].pc = "fill"),
         \A q \in Routers, d \in Comps : timer'[q][d] => d \in conf[q].comps
  PROVE  FlowInv'
<1>1. Counts' /\ Ledger'
  BY Steady DEF FlowInv
<1>2. Homes'
  BY DEF Homes
<1>3. Blank'
  BY DEF FlowInv, Blank
<1> QED BY <1>1, <1>2, <1>3 DEF FlowInv

LEMMA GenerateFlow ==
  ASSUME Counting, TypeOK, TypeOK', FlowInv, NEW t \in Threads, Generate(t) PROVE FlowInv'
<1>1. PICK r \in Routers, c \in Comps : r = run[t].r /\ c = run[t].c
  BY HomesNow DEF Generate, At, Frames, FrameShape, PacketSteps
<1>2. /\ Defined /\ run[t].pc = "generate" /\ GenerateEffect(r, c, ready)
      /\ run' = [run EXCEPT ![t] = Idle]
  BY <1>1 DEF Generate, At
<1>3. c \in conf[r].comps
  BY <1>1, <1>2, HomesNow DEF AtHome, PacketSteps
<1>4. run'[t] = Idle /\ \A u \in Threads : u # t => run'[u] = run[u]
  BY <1>2, HomesNow
<1>5. \A q \in Routers, d \in Comps : Routing(q, d)' = Routing(q, d)
  BY <1>2, <1>4, IdleAtHome, RoutingSame
<1>6. \A u \in Threads : AtHome(run'[u], conf) /\ (run'[u].pc = "fill" => run[u].pc = "fill")
  BY <1>4, HomesNow, IdleAtHome
<1>7. inCount' = inCount /\ dropped' = dropped /\ fed' = fed
  BY DEF Generate
<1>8. /\ \A q \in Routers, d \in Comps : Same(q, d)
      /\ Housed(ready', conf)
      /\ \A q \in Routers, d \in Comps : timer'[q][d] => d \in conf[q].comps
  BY <1>2, <1>3, <1>5, <1>7, GenerateEffectFlow
<1> QED BY <1>2, <1>6, <1>8, SameFlow DEF Generate, routerVars

LEMMA SweepOneFlow ==
  ASSUME Counting, TypeOK, TypeOK', FlowInv, NEW t \in Threads, SweepOne(t) PROVE FlowInv'
<1>1. Defined /\ run[t].pc = "sweep" /\ run[t].todo # {}
  BY DEF SweepOne, At
<1>2. PICK r \in Routers, S \in SUBSET Comps : r = run[t].r /\ S = run[t].todo
  BY HomesNow DEF Frames, FrameShape
<1>3. PICK c \in Comps : c = First(S) /\ c \in S
  BY <1>1, <1>2, FirstIn
<1>4. S \subseteq conf[r].comps
  BY <1>1, <1>2, HomesNow DEF AtHome
<1> DEFINE f == [run[t] EXCEPT !.todo = S \ {c}]
<1>5. run' = [run EXCEPT ![t] = f]
  BY <1>2, <1>3, HomesNow DEF SweepOne
<1>6. f.pc = "sweep" /\ AtHome(f, conf)
  BY <1>1, <1>2, <1>4, HomesNow DEF AtHome, PacketSteps, Frames, FrameShape
<1> HIDE DEF f
<1>7. run'[t] = f /\ \A u \in Threads : u # t => run'[u] = run[u]
  BY <1>5, HomesNow
<1>8. \A q \in Routers, d \in Comps : Routing(q, d)' = Routing(q, d)
  BY <1>1, <1>6, <1>7, RoutingSame
<1>9. \A u \in Threads : AtHome(run'[u], conf) /\ (run'[u].pc = "fill" => run[u].pc = "fill")
  BY <1>6, <1>7, HomesNow
<1>10. /\ inCount' = inCount /\ dropped' = dropped /\ fed' = fed /\ conf' = conf /\ cur' = cur
       /\ made' = made /\ out' = out
  BY DEF SweepOne, routerVars
<1>11. CASE run[t].on /\ Kind[c] \in Generators
  <2>1. GenerateEffect(r, c, ready)
    BY <1>2, <1>3, <1>11 DEF SweepOne, StartComponent
  <2>2. /\ \A q \in Routers, d \in Comps : Same(q, d)
        /\ Housed(ready', conf)
        /\ \A q \in Routers, d \in Comps : timer'[q][d] => d \in conf[q].comps
    BY <1>3, <1>4, <1>8, <1>10, <2>1, GenerateEffectFlow
  <2> QED BY <1>1, <1>9, <1>10, <2>2, SameFlow
<1>12. CASE run[t].on /\ Kind[c] \notin Generators
  <2>1. ready' = ready /\ emitted' = emitted /\ timer' = timer
    BY <1>2, <1>3, <1>12 DEF SweepOne, StartComponent
  <2> QED BY <1>1, <1>5, <1>6, <1>10, <2>1, HomesNow, CalmItself, QuietThread
<1>13. CASE ~run[t].on
  <2>1. /\ ready' = (IF timer[r][c] THEN Append(ready, GenerateHandler(r, c)) ELSE ready)
        /\ emitted' = emitted /\ timer' = [timer EXCEPT ![r][c] = FALSE]
    BY <1>2, <1>3, <1>13 DEF SweepOne, StopComponent
  <2>2. PICK h \in Handlers : /\ h = GenerateHandler(r, c) /\ h.op = "generate"
                              /\ h.r = r /\ h.c = c
    BY GenerateHandlers
  <2>3. Calm(ready, ready')
    BY <2>1, <2>2, HomesNow, CalmAppend, CalmItself
  <2>4. Housed(ready', conf)
    BY <1>3, <1>4, <2>1, <2>2, HomesNow, HousedAppend
  <2>5. \A q \in Routers, d \in Comps : timer'[q][d] => timer[q][d]
    BY <2>1 DEF TypeOK, PerObject
  <2>6. \A q \in Routers, d \in Comps : timer'[q][d] => d \in conf[q].comps
    BY <2>5 DEF FlowInv, Homes
  <2> QED BY <1>1, <1>8, <1>9, <1>10, <2>1, <2>3, <2>4, <2>6, QuietStep
<1> QED BY <1>11, <1>12, <1>13

\* The packet at the head of the queue waits for its component alone.
LEMMA ProcessAtHead ==
  ASSUME NEW h \in Handlers, h.op = "process", NEW q \in Routers, NEW d \in Comps
  PROVE  /\ h \in ProcessHandlers(q, d) <=> q = h.r /\ d = h.c
         /\ h \notin Routes(q, d)
<1>1. RouteHandler(q, d).op = "route"
  BY DEF RouteHandler
<1> QED BY <1>1 DEF ProcessHandlers, Routes

\* component::do_process takes the packet, and may emit one.
LEMMA RunProcessFlow ==
  ASSUME Counting, TypeOK, TypeOK', FlowInv, NEW t \in Threads, RunProcess(t) PROVE FlowInv'
<1>1. /\ Defined /\ run[t] = Idle /\ Head(ready) \in Handlers /\ Head(ready).op = "process"
      /\ ready # <<>> /\ Tail(ready) \in Seq(Handlers) /\ Housed(Tail(ready), conf)
      /\ Head(ready).c \in conf[Head(ready).r].comps
  BY TakenHome DEF RunProcess
<1>2. PICK h \in Handlers : h = Head(ready)
  BY <1>1
<1>3. h.op = "process" /\ h.r \in Routers /\ h.c \in Comps
  BY <1>1, <1>2 DEF Handlers
<1>4. PICK r \in Routers, c \in Comps : r = h.r /\ c = h.c
  BY <1>3
<1>5. PICK p \in Seq(Handlers) : p = Tail(ready)
  BY <1>1
<1>6. PICK b \in BOOLEAN : b = (Forwards(c, h.port) /\ Alive(r))
  OBVIOUS
<1>7. /\ inCount' = [inCount EXCEPT ![r][c] = @ + 1]
      /\ ready' = IF b THEN Append(p, RouteHandler(r, c)) ELSE p
      /\ emitted' = [emitted EXCEPT ![r][c] = IF b THEN @ + 1 ELSE @]
      /\ run' = run /\ conf' = conf /\ out' = out /\ cur' = cur /\ made' = made
      /\ timer' = timer /\ dropped' = dropped /\ fed' = fed
  BY <1>2, <1>4, <1>5, <1>6, PlusIs DEF RunProcess, routerVars
<1>8. RouteHandler(r, c) \in Handlers /\ RouteHandler(r, c).c = c /\ RouteHandler(r, c).r = r
  BY GenerateHandlers
<1>9. Housed(ready', conf)
  <2>1. c \in conf[r].comps /\ Housed(p, conf)
    BY <1>1, <1>2, <1>4, <1>5
  <2>2. Housed(Append(p, RouteHandler(r, c)), conf)
    BY <1>8, <2>1, HousedAppend
  <2> QED BY <1>7, <2>1, <2>2
<1>10. ASSUME NEW q \in Routers, NEW d \in Comps PROVE Same(q, d)
  <2>1. IsFiniteSet(Routing(q, d)) /\ Routing(q, d)' = Routing(q, d)
    BY <1>7 DEF FlowInv, Counts, Routing
  <2>2. PICK n \in Nat : n = One(q = r /\ d = c)
    BY DEF One
  <2>3. PICK m \in Nat : m = One(b /\ q = r /\ d = c)
    BY DEF One
  <2>4. \A X : Count(ready, X) = One(h \in X) + Count(p, X) /\ Count(p, X) \in Nat
    BY <1>1, <1>2, <1>5, HomesNow, CountTail, PlacesFinite
  <2>5. One(h \in ProcessHandlers(q, d)) = n /\ One(h \in Routes(q, d)) = 0
    BY <1>3, <1>4, <2>2, ProcessAtHead DEF One
  <2>6. /\ Count(ready, Routes(q, d)) = Count(p, Routes(q, d))
        /\ Count(ready, ProcessHandlers(q, d)) = n + Count(p, ProcessHandlers(q, d))
        /\ Count(p, Routes(q, d)) \in Nat /\ Count(p, ProcessHandlers(q, d)) \in Nat
    BY <2>4, <2>5
  <2>7. /\ Count(ready', Routes(q, d)) = Count(p, Routes(q, d)) + m
        /\ Count(ready', ProcessHandlers(q, d)) = Count(p, ProcessHandlers(q, d))
    <3>1. CASE b
      <4>1. \A X : Count(ready', X) = Count(p, X) + One(RouteHandler(r, c) \in X)
        BY <1>7, <1>8, <3>1, CountAppend
      <4>2. /\ One(RouteHandler(r, c) \in Routes(q, d)) = m
            /\ One(RouteHandler(r, c) \in ProcessHandlers(q, d)) = 0
        BY <2>3, <3>1, RouteCounts DEF One
      <4> QED BY <2>6, <4>1, <4>2
    <3>2. CASE ~b
      <4>1. m = 0 /\ ready' = p
        BY <1>7, <2>3, <3>2 DEF One
      <4> QED BY <2>6, <4>1
    <3> QED BY <3>1, <3>2
  <2>8. /\ emitted[q][d] \in Nat /\ dropped[q][d] \in Nat /\ inCount[q][d] \in Nat
        /\ fed[q][d] \in Nat /\ Cardinality(Routing(q, d)) \in Nat
    BY <2>1, NumbersTyped
  <2>9. emitted'[q][d] = emitted[q][d] + m
    <3>1. PICK v : v = IF b THEN emitted[r][c] + 1 ELSE emitted[r][c]
      OBVIOUS
    <3>2. emitted' = [emitted EXCEPT ![r][c] = v] /\ emitted \in PerObject(Nat)
      BY <1>7, <3>1 DEF TypeOK
    <3>3. emitted'[q][d] = IF q = r /\ d = c THEN v ELSE emitted[q][d]
      BY <3>2 DEF PerObject
    <3> QED BY <2>3, <2>8, <3>1, <3>3 DEF One
  <2>10. inCount'[q][d] = inCount[q][d] + n
    <3>1. inCount' = [inCount EXCEPT ![r][c] = inCount[r][c] + 1] /\ inCount \in PerObject(Nat)
      BY <1>7 DEF TypeOK
    <3>2. inCount'[q][d] = IF q = r /\ d = c THEN inCount[r][c] + 1 ELSE inCount[q][d]
      BY <3>1 DEF PerObject
    <3> QED BY <2>2, <2>8, <3>2 DEF One
  <2>0. /\ dropped'[q][d] = dropped[q][d] /\ fed'[q][d] = fed[q][d]
        /\ Cardinality(Routing(q, d)') = Cardinality(Routing(q, d))
    BY <1>7, <2>1
  <2>11. emitted'[q][d] - dropped'[q][d]
             - (Count(ready', Routes(q, d)) + Cardinality(Routing(q, d)'))
           = emitted[q][d] - dropped[q][d]
             - (Count(ready, Routes(q, d)) + Cardinality(Routing(q, d)))
    <3>1. PICK e \in Nat, x \in Nat, k \in Nat, a \in Nat :
             /\ e = emitted[q][d] /\ x = dropped[q][d] /\ k = Cardinality(Routing(q, d))
             /\ a = Count(ready, Routes(q, d))
      BY <2>6, <2>8
    <3>2. /\ emitted'[q][d] = e + m /\ dropped'[q][d] = x
          /\ Cardinality(Routing(q, d)') = k /\ Count(ready', Routes(q, d)) = a + m
      BY <2>0, <2>6, <2>7, <2>9, <3>1
    <3>3. e + m - x - (a + m + k) = e - x - (a + k)
      OBVIOUS
    <3>4. emitted'[q][d] - dropped'[q][d]
             - (Count(ready', Routes(q, d)) + Cardinality(Routing(q, d)'))
           = e + m - x - (a + m + k)
      BY <3>2
    <3>5. emitted[q][d] - dropped[q][d]
             - (Count(ready, Routes(q, d)) + Cardinality(Routing(q, d))) = e - x - (a + k)
      BY <3>1
    <3> QED BY <3>3, <3>4, <3>5
  <2>12. inCount'[q][d] + Count(ready', ProcessHandlers(q, d)) - fed'[q][d]
           = inCount[q][d] + Count(ready, ProcessHandlers(q, d)) - fed[q][d]
    <3>1. PICK i \in Nat, g \in Nat, w \in Nat :
             /\ i = inCount[q][d] /\ g = fed[q][d] /\ w = Count(p, ProcessHandlers(q, d))
      BY <2>6, <2>8
    <3>2. /\ inCount'[q][d] = i + n /\ fed'[q][d] = g
          /\ Count(ready', ProcessHandlers(q, d)) = w
          /\ Count(ready, ProcessHandlers(q, d)) = n + w
      BY <2>0, <2>6, <2>7, <2>10, <3>1
    <3>3. i + n + w - g = i + (n + w) - g
      OBVIOUS
    <3>4. inCount'[q][d] + Count(ready', ProcessHandlers(q, d)) - fed'[q][d] = i + n + w - g
      BY <3>2
    <3>5. inCount[q][d] + Count(ready, ProcessHandlers(q, d)) - fed[q][d] = i + (n + w) - g
      BY <3>1, <3>2
    <3> QED BY <3>3, <3>4, <3>5
  <2> QED BY <2>1, <2>11, <2>12, SameNumbers
<1>11. \A u \in Threads : AtHome(run'[u], conf) /\ (run'[u].pc = "fill" => run[u].pc = "fill")
  BY <1>7, HomesNow
<1>12. \A q \in Routers, d \in Comps : timer'[q][d] => d \in conf[q].comps
  BY <1>7 DEF FlowInv, Homes
<1> QED BY <1>1, <1>7, <1>9, <1>10, <1>11, <1>12, SameFlow

\* The do_route at the head of the queue carries a packet of its component alone.
LEMMA RouteAtHead ==
  ASSUME NEW h \in Handlers, h.op = "route", NEW q, NEW d
  PROVE  /\ h \in Routes(q, d) <=> q = h.r /\ d = h.c
         /\ h \notin ProcessHandlers(q, d)
         /\ h.r \in Routers /\ h.c \in Comps
<1>1. h \in [op : {"generate", "route"}, r : Routers, c : Comps]
  BY DEF Handlers
<1>2. h = RouteHandler(h.r, h.c) /\ h.r \in Routers /\ h.c \in Comps
  BY <1>1 DEF RouteHandler
<1>3. h \in Routes(q, d) <=> q = h.r /\ d = h.c
  BY <1>2, RouteCounts DEF Routes
<1> QED BY <1>2, <1>3 DEF ProcessHandlers

\* One more thread in do_route for c
LEMMA RoutingGrows ==
  ASSUME TypeOK, NEW t \in Threads, run[t].pc # "route", NEW r \in Routers, NEW c \in Comps,
         run'[t].pc = "route", run'[t].r = r, run'[t].c = c,
         \A u \in Threads : u # t => run'[u] = run[u],
         NEW q \in Routers, NEW d \in Comps, IsFiniteSet(Routing(q, d))
  PROVE  /\ IsFiniteSet(Routing(q, d)')
         /\ Cardinality(Routing(q, d)') = Cardinality(Routing(q, d)) + One(q = r /\ d = c)
<1>2. PICK T : T = Routing(q, d)
  OBVIOUS
<1>3. PICK k \in Nat : k = Cardinality(T) /\ IsFiniteSet(T)
  BY <1>2, FS_CardinalityType
<1>4. CASE q = r /\ d = c
  <2>1. Routing(q, d)' = T \cup {t} /\ t \notin T
    BY <1>2, <1>4 DEF Routing
  <2>2. IsFiniteSet(T \cup {t}) /\ Cardinality(T \cup {t}) = k + 1
    BY <1>3, <2>1, FS_AddElement
  <2> QED BY <1>2, <1>3, <1>4, <2>1, <2>2 DEF One
<1>5. CASE ~(q = r /\ d = c)
  <2>1. Routing(q, d)' = T
    BY <1>2, <1>5 DEF Routing
  <2> QED BY <1>2, <1>3, <1>5, <2>1 DEF One
<1> QED BY <1>4, <1>5

\* A do_route leaves the queue: the packet is dropped or under way.
Passes(h, q, d) ==
    \E x \in Nat, k \in Nat :
        /\ x + k = One(q = h.r /\ d = h.c)
        /\ dropped'[q][d] = dropped[q][d] + x
        /\ IsFiniteSet(Routing(q, d)')
        /\ Cardinality(Routing(q, d)') = Cardinality(Routing(q, d)) + k

LEMMA RouteTaken ==
  ASSUME TypeOK, TypeOK', FlowInv, Defined, ready # <<>>, NEW h \in Handlers,
         h = Head(ready), h.op = "route", ready' = Tail(ready), Housed(ready', conf),
         conf' = conf, out' = out, cur' = cur, made' = made, timer' = timer,
         emitted' = emitted, inCount' = inCount, fed' = fed,
         \A q \in Routers, d \in Comps : Passes(h, q, d),
         \A u \in Threads : AtHome(run'[u], conf) /\ (run'[u].pc = "fill" => run[u].pc = "fill")
  PROVE  FlowInv'
<1>1. ASSUME NEW q \in Routers, NEW d \in Comps PROVE Same(q, d)
  <2>1. Passes(h, q, d)
    OBVIOUS
  <2>2. PICK x \in Nat, m \in Nat :
           /\ x + m = One(q = h.r /\ d = h.c)
           /\ dropped'[q][d] = dropped[q][d] + x
           /\ IsFiniteSet(Routing(q, d)')
           /\ Cardinality(Routing(q, d)') = Cardinality(Routing(q, d)) + m
    BY <2>1 DEF Passes
  <2>3. IsFiniteSet(Routing(q, d))
    BY DEF FlowInv, Counts
  <2>4. \A X : Count(ready, X) = One(h \in X) + Count(ready', X)
    BY HomesNow, CountTail
  <2>5. One(h \in Routes(q, d)) = x + m /\ One(h \in ProcessHandlers(q, d)) = 0
    BY <2>2, RouteAtHead DEF One
  <2>6. ready' \in Seq(Handlers)
    BY DEF TypeOK
  <2>7. /\ Count(ready, Routes(q, d)) = x + m + Count(ready', Routes(q, d))
        /\ Count(ready, ProcessHandlers(q, d)) = Count(ready', ProcessHandlers(q, d))
        /\ Count(ready', Routes(q, d)) \in Nat /\ Count(ready', ProcessHandlers(q, d)) \in Nat
    <3>1. Count(ready', Routes(q, d)) \in Nat /\ Count(ready', ProcessHandlers(q, d)) \in Nat
      BY <2>6, PlacesFinite
    <3>2. /\ Count(ready, Routes(q, d)) = One(h \in Routes(q, d)) + Count(ready', Routes(q, d))
          /\ Count(ready, ProcessHandlers(q, d))
               = One(h \in ProcessHandlers(q, d)) + Count(ready', ProcessHandlers(q, d))
      BY <2>4
    <3> QED BY <2>5, <3>1, <3>2
  <2>8. emitted[q][d] \in Nat /\ dropped[q][d] \in Nat /\ Cardinality(Routing(q, d)) \in Nat
    BY <2>3, NumbersTyped
  <2>9. PICK e \in Nat, y \in Nat, k \in Nat, a \in Nat :
           /\ e = emitted[q][d] /\ y = dropped[q][d] /\ k = Cardinality(Routing(q, d))
           /\ a = Count(ready', Routes(q, d))
    BY <2>7, <2>8
  <2>10. emitted'[q][d] - dropped'[q][d]
             - (Count(ready', Routes(q, d)) + Cardinality(Routing(q, d)'))
           = e - (y + x) - (a + (k + m))
    BY <2>2, <2>9
  <2>11. emitted[q][d] - dropped[q][d]
             - (Count(ready, Routes(q, d)) + Cardinality(Routing(q, d)))
           = e - y - (x + m + a + k)
    BY <2>7, <2>9
  <2>12. e - (y + x) - (a + (k + m)) = e - y - (x + m + a + k)
    OBVIOUS
  <2>13. inCount'[q][d] + Count(ready', ProcessHandlers(q, d)) - fed'[q][d]
           = inCount[q][d] + Count(ready, ProcessHandlers(q, d)) - fed[q][d]
    BY <2>7
  <2> QED BY <2>2, <2>3, <2>10, <2>11, <2>12, <2>13, SameNumbers
<1>2. \A q \in Routers, d \in Comps : timer'[q][d] => d \in conf[q].comps
  BY DEF FlowInv, Homes
<1> QED BY <1>1, <1>2, SameFlow

\* do_route drops the packet or holds it.
LEMMA RunRouteFlow ==
  ASSUME Counting, TypeOK, TypeOK', FlowInv, NEW t \in Threads, RunRoute(t) PROVE FlowInv'
<1>1. /\ Defined /\ run[t] = Idle /\ Head(ready) \in Handlers /\ Head(ready).op = "route"
      /\ ready # <<>> /\ Tail(ready) \in Seq(Handlers) /\ Housed(Tail(ready), conf)
      /\ Head(ready).c \in conf[Head(ready).r].comps
  BY TakenHome DEF RunRoute
<1>2. PICK h \in Handlers : h = Head(ready) /\ h.op = "route"
  BY <1>1
<1>3. PICK r \in Routers, c \in Comps : r = h.r /\ c = h.c
  BY <1>2, RouteAtHead
<1>4. PICK p \in Seq(Handlers) : p = Tail(ready)
  BY <1>1
<1> DEFINE f == [Idle EXCEPT !.pc = "route", !.r = r, !.c = c, !.own = {r}]
<1>5. f.pc = "route" /\ f.r = r /\ f.c = c /\ AtHome(f, conf)
  BY <1>1, <1>2, <1>3 DEF Idle, AtHome, PacketSteps
<1> HIDE DEF f
<1>6. /\ ready' = p /\ Housed(ready', conf)
      /\ conf' = conf /\ out' = out /\ cur' = cur /\ made' = made
      /\ timer' = timer /\ emitted' = emitted /\ inCount' = inCount /\ fed' = fed
  BY <1>1, <1>4 DEF RunRoute, routerVars, compVars
<1>7. CASE started[r]
  <2>1. run' = [run EXCEPT ![t] = f] /\ dropped' = dropped
    BY <1>2, <1>3, <1>7 DEF RunRoute, f
  <2>2. ASSUME NEW q \in Routers, NEW d \in Comps
        PROVE  /\ IsFiniteSet(Routing(q, d)') /\ dropped'[q][d] = dropped[q][d] + 0
               /\ Cardinality(Routing(q, d)')
                    = Cardinality(Routing(q, d)) + One(q = r /\ d = c)
    <3>1. IsFiniteSet(Routing(q, d))
      BY DEF FlowInv, Counts
    <3>2. dropped[q][d] \in Nat
      BY <3>1, NumbersTyped
    <3>3. run[t].pc # "route"
      BY <1>1, IdleAtHome
    <3>4. /\ IsFiniteSet(Routing(q, d)')
          /\ Cardinality(Routing(q, d)')
               = Cardinality(Routing(q, d)) + One(q = r /\ d = c)
      <4>1. run'[t] = f /\ \A u \in Threads : u # t => run'[u] = run[u]
        BY <2>1, HomesNow
      <4>2. run'[t].pc = "route" /\ run'[t].r = r /\ run'[t].c = c
        BY <1>5, <4>1
      <4>3. \A u \in Threads : u # t => run'[u] = run[u]
        BY <4>1
      <4> QED BY ONLY TypeOK, <4>2, <4>3, <3>1, <3>3, RoutingGrows
    <3> QED BY <2>1, <3>2, <3>4
  <2>3. \A u \in Threads : AtHome(run'[u], conf) /\ (run'[u].pc = "fill" => run[u].pc = "fill")
    <3>1. run'[t] = f /\ \A u \in Threads : u # t => run'[u] = run[u]
      BY <2>1, HomesNow
    <3> QED BY <1>5, <3>1, HomesNow
  <2>4. ASSUME NEW q \in Routers, NEW d \in Comps
        PROVE  Passes(h, q, d)
    <3> USE DEF Passes
    <3>1. PICK n \in Nat : n = One(q = r /\ d = c) /\ 0 + n = n
      BY DEF One
    <3> WITNESS 0 \in Nat, n \in Nat
    <3> QED BY <1>3, <2>2, <3>1
  <2> QED BY <1>1, <1>2, <1>4, <1>6, <2>3, <2>4, RouteTaken
<1>8. CASE ~started[r]
  <2>1. run' = run /\ dropped' = [dropped EXCEPT ![r][c] = dropped[r][c] + 1]
    BY <1>2, <1>3, <1>8, PlusIs DEF RunRoute
  <2>2. ASSUME NEW q \in Routers, NEW d \in Comps
        PROVE  /\ IsFiniteSet(Routing(q, d)')
               /\ Cardinality(Routing(q, d)') = Cardinality(Routing(q, d)) + 0
               /\ dropped'[q][d] = dropped[q][d] + One(q = r /\ d = c)
    <3>1. IsFiniteSet(Routing(q, d)) /\ Routing(q, d)' = Routing(q, d)
      BY <2>1 DEF FlowInv, Counts, Routing
    <3>2. dropped[q][d] \in Nat /\ Cardinality(Routing(q, d)) \in Nat
      BY <3>1, NumbersTyped
    <3>3. dropped \in PerObject(Nat)
      BY DEF TypeOK
    <3>4. dropped'[q][d] = IF q = r /\ d = c THEN dropped[r][c] + 1 ELSE dropped[q][d]
      BY <2>1, <3>3 DEF PerObject
    <3> QED BY <3>1, <3>2, <3>4 DEF One
  <2>3. \A u \in Threads : AtHome(run'[u], conf) /\ (run'[u].pc = "fill" => run[u].pc = "fill")
    BY <2>1, HomesNow
  <2>4. ASSUME NEW q \in Routers, NEW d \in Comps
        PROVE  Passes(h, q, d)
    <3> USE DEF Passes
    <3>1. PICK n \in Nat : n = One(q = r /\ d = c) /\ n + 0 = n
      BY DEF One
    <3> WITNESS n \in Nat, 0 \in Nat
    <3> QED BY <1>3, <2>2, <3>1
  <2> QED BY <1>1, <1>2, <1>4, <1>6, <2>3, <2>4, RouteTaken
<1> QED BY <1>7, <1>8

\* router::route hands a packet of another node to its component.
LEMMA DeliverFlow ==
  ASSUME Counting, TypeOK, TypeOK', FlowInv, NEW t \in Threads, Deliver(t) PROVE FlowInv'
<1>1. Defined /\ run[t].pc = "deliver" /\ run[t] \in Frames
  BY HomesNow DEF Deliver, At
<1>2. PICK r \in Routers, c \in Comps, port \in Ports :
         r = run[t].r /\ c = run[t].c /\ port = run[t].port
  BY <1>1 DEF Frames, FrameShape, MessageSteps
<1>3. PICK h : h = [op |-> "process", r |-> r, c |-> c, port |-> port]
  OBVIOUS
<1>4. h \in Handlers /\ h.op = "process" /\ h.r = r /\ h.c = c
  BY <1>3 DEF Handlers
<1>5. PICK b \in BOOLEAN : b = (started[r] /\ c \in conf[r].comps)
  OBVIOUS
<1>6. /\ ready' = (IF b THEN Append(ready, h) ELSE ready)
      /\ fed' = [fed EXCEPT ![r][c] = IF b THEN fed[r][c] + 1 ELSE fed[r][c]]
  BY <1>2, <1>3, <1>5, PlusIs DEF Deliver
<1>7. /\ conf' = conf /\ out' = out /\ cur' = cur /\ made' = made /\ timer' = timer
      /\ emitted' = emitted /\ inCount' = inCount /\ dropped' = dropped
      /\ run' = [run EXCEPT ![t] = Idle]
  BY DEF Deliver, routerVars, compVars
<1>8. Housed(ready', conf)
  <2>1. CASE b
    BY <1>4, <1>5, <1>6, <2>1, HomesNow, HousedAppend
  <2>2. CASE ~b
    BY <1>6, <2>2, HomesNow
  <2> QED BY <2>1, <2>2
<1>9. run'[t] = Idle /\ \A u \in Threads : u # t => run'[u] = run[u]
  BY <1>7, HomesNow
<1>10. \A q \in Routers, d \in Comps : Routing(q, d)' = Routing(q, d)
  BY <1>1, <1>9, IdleAtHome, RoutingSame
<1>11. ASSUME NEW q \in Routers, NEW d \in Comps PROVE Same(q, d)
  <2>1. IsFiniteSet(Routing(q, d)) /\ IsFiniteSet(Routing(q, d)')
        /\ Cardinality(Routing(q, d)') = Cardinality(Routing(q, d))
    BY <1>10 DEF FlowInv, Counts
  <2>2. PICK n \in Nat : n = One(b /\ q = r /\ d = c)
    BY DEF One
  <2>3. /\ inCount[q][d] \in Nat /\ fed[q][d] \in Nat
        /\ Count(ready, Routes(q, d)) \in Nat /\ Count(ready, ProcessHandlers(q, d)) \in Nat
    BY <2>1, NumbersTyped
  <2>4. fed'[q][d] = fed[q][d] + n
    <3>1. PICK v : v = IF b THEN fed[r][c] + 1 ELSE fed[r][c]
      OBVIOUS
    <3>2. fed' = [fed EXCEPT ![r][c] = v] /\ fed \in PerObject(Nat)
      BY <1>6, <3>1 DEF TypeOK
    <3>3. fed'[q][d] = IF q = r /\ d = c THEN v ELSE fed[q][d]
      BY <3>2 DEF PerObject
    <3> QED BY <2>2, <2>3, <3>1, <3>3 DEF One
  <2>5. /\ Count(ready', Routes(q, d)) = Count(ready, Routes(q, d))
        /\ Count(ready', ProcessHandlers(q, d)) = Count(ready, ProcessHandlers(q, d)) + n
    <3>1. CASE b
      <4>1. \A X : Count(ready', X) = Count(ready, X) + One(h \in X)
        BY <1>4, <1>6, <3>1, HomesNow, CountAppend
      <4>2. One(h \in ProcessHandlers(q, d)) = n /\ One(h \in Routes(q, d)) = 0
        BY <1>4, <2>2, <3>1, ProcessAtHead DEF One
      <4> QED BY <2>3, <4>1, <4>2
    <3>2. CASE ~b
      <4>1. n = 0 /\ ready' = ready
        BY <1>6, <2>2, <3>2 DEF One
      <4> QED BY <2>3, <4>1
    <3> QED BY <3>1, <3>2
  <2>6. emitted'[q][d] - dropped'[q][d]
             - (Count(ready', Routes(q, d)) + Cardinality(Routing(q, d)'))
           = emitted[q][d] - dropped[q][d]
             - (Count(ready, Routes(q, d)) + Cardinality(Routing(q, d)))
    BY <1>7, <2>1, <2>5
  <2>7. inCount'[q][d] + Count(ready', ProcessHandlers(q, d)) - fed'[q][d]
           = inCount[q][d] + Count(ready, ProcessHandlers(q, d)) - fed[q][d]
    <3>1. inCount'[q][d] = inCount[q][d]
      BY <1>7
    <3> QED BY <2>3, <2>4, <2>5, <3>1
  <2> QED BY <2>1, <2>6, <2>7, SameNumbers
<1>12. \A u \in Threads : AtHome(run'[u], conf) /\ (run'[u].pc = "fill" => run[u].pc = "fill")
  BY <1>9, HomesNow, IdleAtHome
<1>13. \A q \in Routers, d \in Comps : timer'[q][d] => d \in conf[q].comps
  BY <1>7 DEF FlowInv, Homes
<1> QED BY <1>1, <1>7, <1>8, <1>11, <1>12, <1>13, SameFlow

-----------------------------------------------------------------------------
(* The routing of a packet *)

\* Handlers of packets that wait at components of the router r
Onward(r) == {h \in Handlers : h.op = "process" /\ h.r = r /\ h.c \in conf[r].comps}

\* do_route posts packets for components of its own router, and nothing else.
LEMMA LocalPostsOnward ==
  ASSUME TypeOK, NEW r \in Routers, NEW c \in Comps, c \in conf[r].comps
  PROVE  LocalPosts(r, c) \in Seq(Onward(r))
<1>1. PICK k : k = conf[r] /\ k \in ConfigShape
  BY NoConfigShape DEF TypeOK
<1>2. k \in Configs
  BY <1>1 DEF TypeOK, NoConfig
<1>3. ASSUME NEW p \in OutPorts PROVE Processes(r, k.local[c][p]) \in Seq(Onward(r))
  <2>1. PICK d \in Seq(Dest) : d = k.local[c][p]
    BY <1>1 DEF ConfigShape
  <2>2. DOMAIN d = 1 .. Len(d) /\ Len(d) \in Nat /\ \A i \in DOMAIN d : d[i] \in Dest
    BY LenProperties, ElementOfSeq
  <2>3. \A i \in DOMAIN d : d[i].dest \in k.comps
    BY <1>1, <1>2, <2>1, RoutesAssumption
  <2>4. ASSUME NEW i \in 1 .. Len(d)
        PROVE  [op |-> "process", r |-> r, c |-> d[i].dest, port |-> d[i].port] \in Onward(r)
    BY <1>1, <2>2, <2>3 DEF Dest, Handlers, Onward
  <2>5. Processes(r, d) \in [1 .. Len(d) -> Onward(r)]
    BY <2>2, <2>4 DEF Processes
  <2> QED BY <2>1, <2>2, <2>5, SeqDef
<1>4. PICK p \in Seq(Onward(r)) : p = Processes(r, k.local[c][0])
  BY <1>3 DEF OutPorts
<1>5. PICK q \in Seq(Onward(r)) : q = Processes(r, k.local[c][1])
  BY <1>3 DEF OutPorts
<1>6. p \o q \in Seq(Onward(r))
  BY ConcatProperties
<1>7. LocalPosts(r, c) = p \/ LocalPosts(r, c) = p \o q
  BY <1>1, <1>4, <1>5 DEF LocalPosts
<1> QED BY <1>6, <1>7

LEMMA CountZero ==
  ASSUME NEW q, NEW X, \A i \in DOMAIN q : q[i] \notin X PROVE Count(q, X) = 0
<1>1. Places(q, X) = {}
  BY DEF Places
<1> QED BY <1>1, FS_EmptySet DEF Count

\* What do_route of c posts
LEMMA LocalPostsCount ==
  ASSUME TypeOK, NEW r \in Routers, NEW c \in Comps, c \in conf[r].comps
  PROVE  /\ LocalPosts(r, c) \in Seq(Handlers) /\ Housed(LocalPosts(r, c), conf)
         /\ \A q \in Routers, d \in Comps :
              /\ Count(LocalPosts(r, c), Routes(q, d)) = 0
              /\ q # r => Count(LocalPosts(r, c), ProcessHandlers(q, d)) = 0
<1>1. PICK p : p = LocalPosts(r, c) /\ p \in Seq(Onward(r))
  BY LocalPostsOnward
<1>2. \A i \in DOMAIN p : p[i] \in Onward(r)
  BY <1>1, LenProperties, ElementOfSeq
<1>3. \A i \in DOMAIN p : p[i].op = "process" /\ p[i].r = r /\ p[i].c \in conf[r].comps
  BY <1>2 DEF Onward
<1>4. p \in Seq(Handlers)
  BY <1>1, LocalPostsType
<1>5. Housed(p, conf)
  BY <1>3 DEF Housed
<1>6. ASSUME NEW q \in Routers, NEW d \in Comps PROVE Count(p, Routes(q, d)) = 0
  <2>1. RouteHandler(q, d).op = "route"
    BY DEF RouteHandler
  <2>2. \A i \in DOMAIN p : p[i] \notin Routes(q, d)
    BY <1>3, <2>1 DEF Routes
  <2> QED BY <2>2, CountZero
<1>7. ASSUME NEW q \in Routers, NEW d \in Comps, q # r
      PROVE  Count(p, ProcessHandlers(q, d)) = 0
  <2>1. \A i \in DOMAIN p : p[i] \notin ProcessHandlers(q, d)
    BY <1>3, <1>7 DEF ProcessHandlers
  <2> QED BY <2>1, CountZero
<1> QED BY <1>1, <1>4, <1>5, <1>6, <1>7

\* One thread less in do_route for c
LEMMA RoutingShrinks ==
  ASSUME NEW t \in Threads, NEW r \in Routers, NEW c \in Comps, run[t].pc = "route",
         run[t].r = r, run[t].c = c, run'[t].pc # "route",
         \A u \in Threads : u # t => run'[u] = run[u],
         NEW q \in Routers, NEW d \in Comps, IsFiniteSet(Routing(q, d))
  PROVE  /\ IsFiniteSet(Routing(q, d)')
         /\ Cardinality(Routing(q, d)) = Cardinality(Routing(q, d)') + One(q = r /\ d = c)
<1>1. PICK T : T = Routing(q, d)
  OBVIOUS
<1>2. PICK k \in Nat : k = Cardinality(T) /\ IsFiniteSet(T)
  BY <1>1, FS_CardinalityType
<1>3. CASE q = r /\ d = c
  <2>1. Routing(q, d)' = T \ {t} /\ t \in T
    BY <1>1, <1>3 DEF Routing
  <2>2. IsFiniteSet(T \ {t}) /\ Cardinality(T \ {t}) = k - 1
    BY <1>2, <2>1, FS_RemoveElement
  <2> QED BY <1>1, <1>2, <1>3, <2>1, <2>2 DEF One
<1>4. CASE ~(q = r /\ d = c)
  <2>1. Routing(q, d)' = T
    BY <1>1, <1>4 DEF Routing
  <2> QED BY <1>1, <1>2, <1>4, <2>1 DEF One
<1> QED BY <1>3, <1>4

\* do_route hands its packet over: one more of c was routed, and what it posts came.
LEMMA DoRouteNumbers ==
  ASSUME TypeOK, TypeOK', FlowInv, NEW t \in Threads, DoRoute(t),
         NEW r \in Routers, NEW c \in Comps, r = run[t].r, c = run[t].c,
         c \in conf[r].comps, NEW q \in Routers, NEW d \in Comps
  PROVE  /\ IsFiniteSet(Routing(q, d)')
         /\ Routed(q, d)' = Routed(q, d) + One(q = r /\ d = c)
         /\ Balance(q, d)' = Balance(q, d) + Count(LocalPosts(r, c), ProcessHandlers(q, d))
<1>1. run[t].pc = "route" /\ run' = [run EXCEPT ![t] = Idle]
      /\ ready' = ready \o LocalPosts(r, c)
  BY DEF DoRoute, At
<1>2. run'[t] = Idle /\ \A u \in Threads : u # t => run'[u] = run[u]
  BY <1>1, HomesNow
<1>3. run'[t].pc # "route" /\ IsFiniteSet(Routing(q, d))
  BY <1>2, IdleAtHome DEF FlowInv, Counts
<1>4. PICK n \in Nat : n = One(q = r /\ d = c)
  BY DEF One
<1>5. /\ IsFiniteSet(Routing(q, d)')
      /\ Cardinality(Routing(q, d)) = Cardinality(Routing(q, d)') + n
  <2>1. run[t].r = r /\ run[t].c = c
    OBVIOUS
  <2>2. /\ IsFiniteSet(Routing(q, d)')
        /\ Cardinality(Routing(q, d)) = Cardinality(Routing(q, d)') + One(q = r /\ d = c)
    BY ONLY <1>1, <1>2, <1>3, <2>1, RoutingShrinks
  <2> QED BY <1>4, <2>2
<1>6. PICK p \in Seq(Handlers) : p = LocalPosts(r, c)
  BY LocalPostsType
<1>7. PICK m \in Nat : m = Count(p, ProcessHandlers(q, d))
  BY PlacesFinite
<1>8. \A X : Count(ready', X) = Count(ready, X) + Count(p, X)
  BY <1>1, <1>6, HomesNow, CountConcat
<1>9. Count(p, Routes(q, d)) = 0
  BY <1>6, LocalPostsCount
<1>10. /\ emitted'[q][d] = emitted[q][d] /\ dropped'[q][d] = dropped[q][d]
       /\ inCount'[q][d] = inCount[q][d] /\ fed'[q][d] = fed[q][d]
  BY DEF DoRoute, compVars, histVars
<1>11. /\ Routed(q, d) = emitted[q][d] - dropped[q][d]
                             - (Count(ready, Routes(q, d)) + Cardinality(Routing(q, d)))
       /\ Balance(q, d) = inCount[q][d] + Count(ready, ProcessHandlers(q, d)) - fed[q][d]
  BY <1>3, Numbers
<1>12. /\ Routed(q, d)' = emitted'[q][d] - dropped'[q][d]
                             - (Count(ready', Routes(q, d)) + Cardinality(Routing(q, d)'))
       /\ Balance(q, d)' = inCount'[q][d] + Count(ready', ProcessHandlers(q, d)) - fed'[q][d]
       /\ Cardinality(Routing(q, d)') \in Nat
  BY <1>5, NumbersNext
<1>13. /\ emitted[q][d] \in Nat /\ dropped[q][d] \in Nat /\ inCount[q][d] \in Nat
       /\ fed[q][d] \in Nat /\ Cardinality(Routing(q, d)) \in Nat
       /\ Count(ready, Routes(q, d)) \in Nat /\ Count(ready, ProcessHandlers(q, d)) \in Nat
  BY <1>3, NumbersTyped
<1>14. PICK e \in Nat, x \in Nat, a \in Nat, k \in Nat :
          /\ e = emitted[q][d] /\ x = dropped[q][d] /\ a = Count(ready, Routes(q, d))
          /\ k = Cardinality(Routing(q, d)')
  BY <1>12, <1>13
<1>15. PICK i \in Nat, w \in Nat, g \in Nat :
          /\ i = inCount[q][d] /\ w = Count(ready, ProcessHandlers(q, d)) /\ g = fed[q][d]
  BY <1>13
<1>16. Count(ready', Routes(q, d)) = a /\ Count(ready', ProcessHandlers(q, d)) = w + m
  BY <1>7, <1>8, <1>9, <1>14, <1>15
<1>17. Routed(q, d) = e - x - (a + (k + n)) /\ Balance(q, d) = i + w - g
  BY <1>5, <1>11, <1>14, <1>15
<1>18. Routed(q, d)' = e - x - (a + k) /\ Balance(q, d)' = i + (w + m) - g
  <2>1. emitted'[q][d] = e /\ dropped'[q][d] = x /\ inCount'[q][d] = i /\ fed'[q][d] = g
    BY <1>10, <1>14, <1>15
  <2>2. Routed(q, d)' = e - x - (a + k)
    BY <1>12, <1>14, <1>16, <2>1
  <2>3. Balance(q, d)' = i + (w + m) - g
    BY <1>12, <1>16, <2>1
  <2> QED BY <2>2, <2>3
<1>19. e - x - (a + k) = e - x - (a + (k + n)) + n /\ i + (w + m) - g = i + w - g + m
  OBVIOUS
<1> QED BY <1>4, <1>5, <1>6, <1>7, <1>17, <1>18, <1>19

\* The copies at the ends E of the routes of a router, where one packet more of c was routed
LEMMA RouterCopiesGrow ==
  ASSUME TypeOK, Counts, conf' = conf, NEW r \in Routers, NEW c \in Comps, c \in conf[r].comps,
         \A d \in Comps : Routed(r, d)' = Routed(r, d) + One(d = c),
         NEW E, IsFiniteSet(E[c]), IsFiniteSet(Copies(conf[r].comps, Packets(r), E))
  PROVE  /\ IsFiniteSet(Copies(conf[r].comps, Packets(r)', E))
         /\ Cardinality(Copies(conf[r].comps, Packets(r)', E))
              = Cardinality(Copies(conf[r].comps, Packets(r), E)) + Cardinality(E[c])
<1>1. PICK S : S = conf[r].comps /\ S \subseteq Comps /\ c \in S
  BY CompsHere
<1>2. PICK n : n = [s \in S |-> Routed(r, s)] /\ n = Packets(r)
  BY <1>1 DEF Packets
<1>3. PICK m : m = [s \in S |-> Routed(r, s)'] /\ m = Packets(r)'
  BY <1>1 DEF Packets
<1>4. \A d \in Comps : Routed(r, d) \in Nat
  BY DEF Counts
<1>5. n[c] \in Nat /\ m[c] = n[c] + 1 /\ \A s \in S : s # c => m[s] = n[s]
  <2>1. /\ \A s \in S : n[s] = Routed(r, s) /\ m[s] = Routed(r, s)'
        /\ \A s \in S : Routed(r, s)' = Routed(r, s) + One(s = c)
        /\ \A s \in S : Routed(r, s) \in Nat
    BY <1>1, <1>2, <1>3, <1>4
  <2>2. \A s \in S : n[s] \in Nat /\ m[s] = n[s] + One(s = c)
    BY <2>1
  <2>3. One(c = c) = 1 /\ \A s \in S : s # c => One(s = c) = 0
    BY DEF One
  <2> QED BY <1>1, <2>2, <2>3
<1>6. /\ IsFiniteSet(Copies(S, m, E))
      /\ Cardinality(Copies(S, m, E)) = Cardinality(Copies(S, n, E)) + Cardinality(E[c])
  <2>1. c \in S /\ IsFiniteSet(E[c]) /\ IsFiniteSet(Copies(S, n, E))
    BY <1>1, <1>2
  <2>2. OneMore(S, n, m, c)
    BY <1>5, <2>1 DEF OneMore
  <2> QED BY ONLY <2>1, <2>2, CopiesGrow
<1> QED BY <1>1, <1>2, <1>3, <1>6

\* Every local connection of the component gets its copy, and so does out_packets_ for
\* every remote one.
LEMMA DoRouteFlow ==
  ASSUME Counting, TypeOK, TypeOK', FlowInv, NEW t \in Threads, DoRoute(t) PROVE FlowInv'
<1>1. PICK r \in Routers, c \in Comps : r = run[t].r /\ c = run[t].c
  BY HomesNow DEF DoRoute, At, Frames, FrameShape, PacketSteps
<1>2. /\ Defined /\ run[t].pc = "route" /\ run' = [run EXCEPT ![t] = Idle]
      /\ ready' = ready \o LocalPosts(r, c) /\ conf' = conf /\ cur' = cur /\ made' = made
      /\ out' = [out EXCEPT ![r] = @ + RemoteSends(r, c)] /\ timer' = timer
  BY <1>1, PlusIs DEF DoRoute, At, routerVars, compVars
<1>3. c \in conf[r].comps
  BY <1>1, <1>2, HomesNow DEF AtHome, PacketSteps
<1>4. ASSUME NEW q \in Routers, NEW d \in Comps
      PROVE  /\ IsFiniteSet(Routing(q, d)')
             /\ Routed(q, d)' = Routed(q, d) + One(q = r /\ d = c)
             /\ Balance(q, d)'
                  = Balance(q, d) + Count(LocalPosts(r, c), ProcessHandlers(q, d))
  BY <1>1, <1>3, DoRouteNumbers
<1>5. PICK p \in Seq(Handlers) :
         /\ p = LocalPosts(r, c) /\ Housed(p, conf)
         /\ \A q \in Routers, d \in Comps : q # r => Count(p, ProcessHandlers(q, d)) = 0
  BY <1>3, LocalPostsCount
<1>6. \A q \in Routers, d \in Comps :
         IsFiniteSet(Routing(q, d)) /\ Routed(q, d) \in Nat
         /\ (d \notin conf[q].comps => Routed(q, d) = 0)
  BY DEF FlowInv, Counts
<1>7. \A q \in Routers, d \in Comps :
         IF q = r /\ d = c THEN Routed(q, d)' = Routed(q, d) + 1
                           ELSE Routed(q, d)' = Routed(q, d)
  <2> TAKE q \in Routers, d \in Comps
  <2>1. Routed(q, d)' = Routed(q, d) + One(q = r /\ d = c) /\ Routed(q, d) \in Nat
    BY <1>4, <1>6
  <2>2. One(q = r /\ d = c) = IF q = r /\ d = c THEN 1 ELSE 0
    BY DEF One
  <2> QED BY <2>1, <2>2
<1>8. Counts'
  <2> SUFFICES ASSUME NEW q \in Routers, NEW d \in Comps
               PROVE  /\ Routed(q, d)' \in Nat
                      /\ d \notin conf[q].comps => Routed(q, d)' = 0
    BY <1>2, <1>4 DEF Counts
  <2> QED BY <1>3, <1>6, <1>7
<1>9. \A q \in Routers, d \in Comps : Balance(q, d) \in Int
  <2> TAKE q \in Routers, d \in Comps
  <2>1. IsFiniteSet(CopiesTo(q, d)) /\ Balance(q, d) = Cardinality(CopiesTo(q, d))
    BY DEF FlowInv, Ledger
  <2> QED BY <2>1, FS_CardinalityType
<1>10. ASSUME NEW q \in Routers, q # r
       PROVE  /\ \A d \in Comps : /\ IsFiniteSet(CopiesTo(q, d)')
                                  /\ Balance(q, d)' = Cardinality(CopiesTo(q, d)')
              /\ IsFiniteSet(CopiesOut(q)') /\ out'[q] = Cardinality(CopiesOut(q)')
  <2>1. conf[q].comps \subseteq Comps
    BY CompsHere
  <2>2. Packets(q)' = Packets(q)
    BY <1>2, <1>7, <1>10, <2>1 DEF Packets
  <2>3. CopiesOut(q)' = CopiesOut(q) /\ \A d \in Comps : CopiesTo(q, d)' = CopiesTo(q, d)
    BY <1>2, <2>2 DEF CopiesOut, CopiesTo
  <2>4. out'[q] = out[q]
    BY <1>2, <1>10 DEF TypeOK
  <2>5. \A d \in Comps : Balance(q, d)' = Balance(q, d)
    BY <1>4, <1>5, <1>9, <1>10
  <2> QED BY <2>3, <2>4, <2>5 DEF FlowInv, Ledger
<1>11. \A d \in Comps : Routed(r, d)' = Routed(r, d) + One(d = c)
  BY <1>6, <1>7 DEF One
<1>12. ASSUME NEW d \in Comps
       PROVE  /\ IsFiniteSet(CopiesTo(r, d)')
              /\ Balance(r, d)' = Cardinality(CopiesTo(r, d)')
  <2>1. PICK E : E = [s \in conf[r].comps |-> LocalEnds(conf[r], s, d)]
    OBVIOUS
  <2>2. /\ IsFiniteSet(LocalEnds(conf[r], c, d))
        /\ Count(p, ProcessHandlers(r, d)) = Cardinality(LocalEnds(conf[r], c, d))
    BY <1>5, LocalEndsCount
  <2>3. E[c] = LocalEnds(conf[r], c, d) /\ IsFiniteSet(E[c])
    BY <1>3, <2>1, <2>2
  <2>4. CopiesTo(r, d) = Copies(conf[r].comps, Packets(r), E)
        /\ CopiesTo(r, d)' = Copies(conf[r].comps, Packets(r)', E)
    BY <1>2, <2>1 DEF CopiesTo
  <2>5. IsFiniteSet(CopiesTo(r, d)) /\ Balance(r, d) = Cardinality(CopiesTo(r, d))
    BY DEF FlowInv, Ledger
  <2>6. /\ IsFiniteSet(Copies(conf[r].comps, Packets(r)', E))
        /\ Cardinality(Copies(conf[r].comps, Packets(r)', E))
             = Cardinality(Copies(conf[r].comps, Packets(r), E)) + Cardinality(E[c])
    <3>1. Counts /\ conf' = conf /\ IsFiniteSet(Copies(conf[r].comps, Packets(r), E))
      BY <1>2, <2>4, <2>5 DEF FlowInv
    <3> QED BY ONLY TypeOK, <1>3, <1>11, <2>3, <3>1, RouterCopiesGrow
  <2>7. Balance(r, d)' = Balance(r, d) + Cardinality(E[c])
    BY <1>4, <1>5, <2>2, <2>3
  <2> QED BY <2>4, <2>5, <2>6, <2>7
<1>13. IsFiniteSet(CopiesOut(r)') /\ out'[r] = Cardinality(CopiesOut(r)')
  <2>1. PICK E : E = [s \in conf[r].comps |-> RemoteEnds(conf[r], s)]
    OBVIOUS
  <2>2. /\ IsFiniteSet(RemoteEnds(conf[r], c))
        /\ RemoteSends(r, c) = Cardinality(RemoteEnds(conf[r], c))
    BY RemoteEndsCount
  <2>3. E[c] = RemoteEnds(conf[r], c) /\ IsFiniteSet(E[c])
    BY <1>3, <2>1, <2>2
  <2>4. CopiesOut(r) = Copies(conf[r].comps, Packets(r), E)
        /\ CopiesOut(r)' = Copies(conf[r].comps, Packets(r)', E)
    BY <1>2, <2>1 DEF CopiesOut
  <2>5. IsFiniteSet(CopiesOut(r)) /\ out[r] = Cardinality(CopiesOut(r))
    BY DEF FlowInv, Ledger
  <2>6. /\ IsFiniteSet(Copies(conf[r].comps, Packets(r)', E))
        /\ Cardinality(Copies(conf[r].comps, Packets(r)', E))
             = Cardinality(Copies(conf[r].comps, Packets(r), E)) + Cardinality(E[c])
    <3>1. Counts /\ conf' = conf /\ IsFiniteSet(Copies(conf[r].comps, Packets(r), E))
      BY <1>2, <2>4, <2>5 DEF FlowInv
    <3> QED BY ONLY TypeOK, <1>3, <1>11, <2>3, <3>1, RouterCopiesGrow
  <2>7. out'[r] = out[r] + RemoteSends(r, c)
    BY <1>2 DEF TypeOK
  <2> QED BY <2>2, <2>3, <2>4, <2>5, <2>6, <2>7
<1>14. Ledger'
  BY <1>10, <1>12, <1>13 DEF Ledger
<1>15. run'[t] = Idle /\ \A u \in Threads : u # t => run'[u] = run[u]
  BY <1>2, HomesNow
<1>16. Homes'
  <2>1. Housed(ready', conf)
    BY <1>2, <1>5, HomesNow, HousedConcat
  <2>2. \A u \in Threads : AtHome(run'[u], conf)
    BY <1>15, HomesNow, IdleAtHome
  <2> QED BY <1>2, <2>1, <2>2 DEF FlowInv, Homes
<1>17. Blank'
  <2>1. \A u \in Threads : run'[u].pc = "fill" => run[u].pc = "fill"
    BY <1>15, IdleAtHome
  <2> QED BY <1>2, <2>1 DEF FlowInv, Blank
<1> QED BY <1>8, <1>14, <1>16, <1>17 DEF FlowInv

LEMMA NextComps ==
  ASSUME TypeOK' PROVE \A r \in Routers : conf'[r].comps \subseteq Comps
<1>1. \A r \in Routers : conf'[r] \in ConfigShape
  BY NoConfigShape DEF TypeOK
<1>2. \A k \in ConfigShape : k.comps \subseteq Comps
  BY DEF ConfigShape
<1> QED BY <1>1, <1>2

\* A router is given its components and routes before it has routed anything.
LEMMA FillFlow ==
  ASSUME TypeOK, TypeOK', FlowInv, NEW t \in Threads, Fill(t) PROVE FlowInv'
<1> DEFINE f == [run[t] EXCEPT !.pc = "set", !.conf = NoConfig,
                               !.r = IF run[t].on THEN cur ELSE run[t].old]
<1>1. /\ Defined /\ run[t].pc = "fill" /\ run' = [run EXCEPT ![t] = f] /\ ready' = ready
      /\ conf' = [conf EXCEPT ![cur] = run[t].conf] /\ cur' = cur /\ made' = made
      /\ out' = out /\ timer' = timer
      /\ inCount' = inCount /\ emitted' = emitted /\ dropped' = dropped /\ fed' = fed
      /\ fault' = FollowIntoTable(t, cur)
  BY HomesNow DEF Fill, At, compVars, histVars
<1>2. f.pc = "set"
  BY HomesNow DEF Frames, FrameShape
<1> HIDE DEF f
<1>3. run'[t] = f /\ \A u \in Threads : u # t => run'[u] = run[u]
  BY <1>1, HomesNow
<1>4. cur \in Routers /\ conf'[cur] = run[t].conf
      /\ \A q \in Routers : q # cur => conf'[q] = conf[q]
  BY <1>1 DEF TypeOK
<1>5. conf[cur].comps = {}
  BY <1>1 DEF FlowInv, Blank
<1>6. \A q \in Routers : conf[q].comps \subseteq conf'[q].comps
  BY <1>4, <1>5
<1>7. \A q \in Routers, d \in Comps : Routing(q, d)' = Routing(q, d)
  BY <1>1, <1>2, <1>3, RoutingSame
<1>8. ASSUME NEW q \in Routers, NEW d \in Comps PROVE Same(q, d)
  <2>1. IsFiniteSet(Routing(q, d)) /\ IsFiniteSet(Routing(q, d)')
    BY <1>7 DEF FlowInv, Counts
  <2>2. Routed(q, d)' = Routed(q, d) /\ Balance(q, d)' = Balance(q, d)
    BY <1>1, <1>7 DEF Routed, PendingRoutes, Balance, Waiting
  <2> QED BY <2>1, <2>2 DEF Same
<1>9. \A q \in Routers, d \in Comps :
         /\ Routed(q, d) \in Nat /\ (d \notin conf[q].comps => Routed(q, d) = 0)
         /\ IsFiniteSet(CopiesTo(q, d)) /\ Balance(q, d) = Cardinality(CopiesTo(q, d))
         /\ IsFiniteSet(CopiesOut(q)) /\ out[q] = Cardinality(CopiesOut(q))
  BY DEF FlowInv, Counts, Ledger
<1>10. Counts'
  BY <1>6, <1>8, <1>9 DEF Counts, Same
<1>11. ASSUME NEW q \in Routers
       PROVE  /\ \A d \in Comps : CopiesTo(q, d)' = CopiesTo(q, d)
              /\ CopiesOut(q)' = CopiesOut(q)
  <2>1. CASE q # cur
    <3>1. conf'[q] = conf[q] /\ conf[q].comps \subseteq Comps
      BY <1>4, <2>1, CompsHere
    <3>2. Packets(q)' = Packets(q)
      BY <1>8, <3>1 DEF Packets, Same
    <3> QED BY <3>1, <3>2 DEF CopiesTo, CopiesOut
  <2>2. CASE q = cur
    <3>1. PICK S : S = conf'[q].comps /\ S \subseteq Comps
      BY NextComps
    <3>2. \A s \in S : Routed(q, s)' = 0
      BY <1>5, <1>8, <1>9, <2>2, <3>1 DEF Same
    <3>3. \A s \in S : Packets(q)'[s] = 0
      BY <3>1, <3>2 DEF Packets
    <3>4. \A E : Copies(S, Packets(q)', E) = {}
      <4> TAKE E
      <4> SUFFICES ASSUME NEW x \in Copies(S, Packets(q)', E) PROVE FALSE
        OBVIOUS
      <4>1. PICK s \in S : \E i \in 1 .. Packets(q)'[s], e \in E[s] : x = <<s, i, e>>
        BY CopiesHold
      <4> QED BY <3>3, <4>1
    <3>5. \A n, E : Copies({}, n, E) = {}
      BY DEF Copies
    <3>6. CopiesOut(q)' = {} /\ \A d \in Comps : CopiesTo(q, d)' = {}
      BY <3>1, <3>4 DEF CopiesOut, CopiesTo
    <3>7. CopiesOut(q) = {} /\ \A d \in Comps : CopiesTo(q, d) = {}
      BY <1>5, <2>2, <3>5 DEF CopiesOut, CopiesTo
    <3> QED BY <3>6, <3>7
  <2> QED BY <2>1, <2>2
<1>12. Ledger'
  BY <1>1, <1>8, <1>9, <1>11 DEF Ledger, Same, FlowInv
<1>13. Homes'
  <2>1. Housed(ready', conf')
    <3>1. \A i \in DOMAIN ready : ready[i] \in Handlers
      BY HomesNow, LenProperties, ElementOfSeq
    <3>2. \A h \in Handlers : h.op # "read" => h.r \in Routers
      BY DEF Handlers
    <3> QED BY <1>1, <1>6, <3>1, <3>2, HomesNow DEF Housed
  <2>2. ASSUME NEW u \in Threads PROVE AtHome(run'[u], conf')
    <3>1. CASE u = t
      BY <1>2, <1>3, <3>1 DEF AtHome, PacketSteps
    <3>2. CASE u # t
      <4>1. run'[u] = run[u] /\ run[u].r \in Routers /\ AtHome(run[u], conf)
        BY <1>3, <3>2, HomesNow DEF Frames, FrameShape
      <4> QED BY <1>6, <4>1 DEF AtHome
    <3> QED BY <3>1, <3>2
  <2>3. \A q \in Routers, d \in Comps : timer'[q][d] => d \in conf'[q].comps
    BY <1>1, <1>6 DEF FlowInv, Homes
  <2> QED BY <2>1, <2>2, <2>3 DEF Homes
<1>14. Blank'
  <2>1. \A q \in Routers : q > made' => conf'[q].comps = {}
    <3> SUFFICES ASSUME NEW q \in Routers, q > made PROVE conf'[q].comps = {}
      BY <1>1
    <3>1. cur <= made /\ conf[q].comps = {} /\ cur \in Nat /\ made \in Nat /\ q \in Nat
      BY DEF FlowInv, Blank, TypeOK, Routers
    <3> QED BY <1>4, <3>1
  <2>2. ASSUME Defined', NEW u \in Threads, run'[u].pc = "fill" PROVE FALSE
    <3>1. u # t /\ run[u].pc = "fill"
      BY <1>2, <1>3, <2>2
    <3>2. FilledByOther(t, cur)
      BY <3>1 DEF FilledByOther
    <3>3. fault' # "none"
      BY <1>1, <3>2 DEF FollowIntoTable
    <3> QED BY <2>2, <3>3 DEF Defined
  <2>3. cur' <= made'
    BY <1>1 DEF FlowInv, Blank
  <2> QED BY <2>1, <2>2, <2>3 DEF Blank
<1> QED BY <1>10, <1>12, <1>13, <1>14 DEF FlowInv

-----------------------------------------------------------------------------
(* The invariant *)

LEMMA FlowInit == Init => FlowInv
<1> SUFFICES ASSUME Init PROVE FlowInv
  OBVIOUS
<1>1. /\ ready = <<>> /\ cur = 0 /\ made = 0 /\ \A t \in Threads : run[t] = Idle
      /\ \A r \in Routers : conf[r].comps = {} /\ out[r] = 0
      /\ \A r \in Routers, c \in Comps :
            /\ timer[r][c] = FALSE /\ inCount[r][c] = 0 /\ emitted[r][c] = 0
            /\ dropped[r][c] = 0 /\ fed[r][c] = 0
  BY DEF Init, NoConfig, False, Zero
<1>2. IsFiniteSet({}) /\ Cardinality({}) = 0
  BY FS_EmptySet
<1>3. Blank
  BY <1>1, IdleAtHome DEF Blank
<1>4. Homes
  <2>1. Housed(ready, conf)
    BY <1>1 DEF Housed
  <2>2. \A t \in Threads : AtHome(run[t], conf)
    BY ONLY <1>1, IdleAtHome
  <2>3. \A r \in Routers, c \in Comps : timer[r][c] => c \in conf[r].comps
    BY ONLY <1>1
  <2> QED BY ONLY <2>1, <2>2, <2>3 DEF Homes
<1>5. \A r \in Routers, c \in Comps : Routing(r, c) = {}
  BY <1>1, IdleAtHome DEF Routing
<1>6. TypeOK
  BY InitType
<1>7. ASSUME NEW r \in Routers, NEW c \in Comps
      PROVE  IsFiniteSet(Routing(r, c)) /\ Routed(r, c) = 0 /\ Balance(r, c) = 0
  <2>1. IsFiniteSet(Routing(r, c)) /\ Cardinality(Routing(r, c)) = 0
    BY <1>2, <1>5
  <2>2. /\ Routed(r, c) = emitted[r][c] - dropped[r][c]
                             - (Count(ready, Routes(r, c)) + Cardinality(Routing(r, c)))
        /\ Balance(r, c) = inCount[r][c] + Count(ready, ProcessHandlers(r, c)) - fed[r][c]
    BY <1>6, <2>1, Numbers
  <2>3. Count(ready, Routes(r, c)) = 0 /\ Count(ready, ProcessHandlers(r, c)) = 0
    BY <1>1, CountNone
  <2>4. /\ inCount[r][c] = 0 /\ emitted[r][c] = 0 /\ dropped[r][c] = 0 /\ fed[r][c] = 0
    BY <1>1
  <2>5. 0 - 0 - (0 + 0) = 0 /\ 0 + 0 - 0 = 0
    OBVIOUS
  <2> QED BY <2>1, <2>2, <2>3, <2>4, <2>5
<1>8. Counts
  <2>1. \A r \in Routers, c \in Comps : IsFiniteSet(Routing(r, c)) /\ Routed(r, c) = 0
    BY ONLY <1>7
  <2> QED BY ONLY <2>1 DEF Counts
<1>9. \A n, E : Copies({}, n, E) = {}
  BY DEF Copies
<1>10. \A r \in Routers : CopiesOut(r) = {} /\ \A c \in Comps : CopiesTo(r, c) = {}
  BY <1>1, <1>9 DEF CopiesOut, CopiesTo
<1>11. Ledger
  BY <1>1, <1>2, <1>7, <1>10 DEF Ledger
<1> QED BY <1>3, <1>4, <1>8, <1>11 DEF FlowInv

LEMMA FlowStutter ==
  ASSUME TypeOK, FlowInv, UNCHANGED vars PROVE FlowInv'
<1> USE DEF vars, routerVars, compVars, histVars
<1>1. Blank' /\ Homes'
  BY DEF FlowInv, Blank, Homes, Defined
<1>2. \A r \in Routers, c \in Comps :
         Routing(r, c)' = Routing(r, c) /\ Routed(r, c)' = Routed(r, c)
         /\ Balance(r, c)' = Balance(r, c)
  BY DEF Routing, Routed, PendingRoutes, Balance, Waiting
<1>3. Counts' /\ Ledger'
  BY <1>2, Steady DEF Same, FlowInv, Counts
<1> QED BY <1>1, <1>3 DEF FlowInv

LEMMA FlowNext ==
  ASSUME Counting, TypeOK, TypeOK', FlowInv, [Next]_vars PROVE FlowInv'
<1>1. ASSUME NEW t \in Threads, Works(t) PROVE FlowInv'
  <2>1. CASE RunGenerate(t) BY <2>1, RunGenerateFlow
  <2>2. CASE Generate(t) BY <2>2, GenerateFlow
  <2>3. CASE RunProcess(t) BY <2>3, RunProcessFlow
  <2>4. CASE RunRoute(t) BY <2>4, RunRouteFlow
  <2>5. CASE DoRoute(t) BY <2>5, DoRouteFlow
  <2>6. CASE RunRead(t) BY <2>6, RunReadFlow
  <2>7. CASE CountBytes(t) BY <2>7, CountBytesFlow
  <2>8. CASE Deliver(t) BY <2>8, DeliverFlow
  <2>9. CASE SetStarted(t) BY <2>9, SetStartedFlow
  <2>10. CASE SweepOne(t) BY <2>10, SweepOneFlow
  <2>11. CASE SweepDone(t) BY <2>11, SweepDoneFlow
  <2>12. CASE ReadPrevious(t) BY <2>12, ReadPreviousFlow
  <2>13. CASE Exchange(t) BY <2>13, ExchangeFlow
  <2>14. CASE Fill(t) BY <2>14, FillFlow
  <2>15. CASE Status(t) BY <2>15, StatusFlow
  <2> QED BY <1>1, <2>1, <2>2, <2>3, <2>4, <2>5, <2>6, <2>7, <2>8, <2>9, <2>10, <2>11,
             <2>12, <2>13, <2>14, <2>15 DEF Works
<1>2. ASSUME NEW t \in Threads, Accept(t) PROVE FlowInv'
  BY <1>2, AcceptFlow
<1>3. ASSUME NEW r \in Routers, NEW c \in Comps, TimerFires(r, c) PROVE FlowInv'
  BY <1>3, TimerFiresFlow
<1>4. CASE UNCHANGED vars
  BY <1>4, FlowStutter
<1> QED BY <1>1, <1>2, <1>3, <1>4 DEF Next, Timers

LEMMA FlowMeans == TypeOK /\ FlowInv => FlowConserved
<1> SUFFICES ASSUME TypeOK, FlowInv, NEW r \in 0 .. made
             PROVE  /\ \A c \in conf[r].comps :
                          /\ Routed(r, c) >= 0
                          /\ inCount[r][c] + Waiting(r, c)
                               = fed[r][c] + Cardinality(CopiesTo(r, c))
                    /\ out[r] = Cardinality(CopiesOut(r))
  BY DEF FlowConserved
<1>1. r \in Routers
  BY DEF TypeOK, Routers
<1>2. out[r] = Cardinality(CopiesOut(r))
  BY <1>1 DEF FlowInv, Ledger
<1>3. conf[r].comps \subseteq Comps
  BY <1>1, CompsHere
<1>4. ASSUME NEW c \in conf[r].comps
      PROVE  /\ Routed(r, c) >= 0
             /\ inCount[r][c] + Waiting(r, c) = fed[r][c] + Cardinality(CopiesTo(r, c))
  <2>1. c \in Comps
    BY <1>3
  <2>2. IsFiniteSet(Routing(r, c)) /\ Routed(r, c) \in Nat
    BY <1>1, <2>1 DEF FlowInv, Counts
  <2>3. Balance(r, c) = Cardinality(CopiesTo(r, c))
    BY <1>1, <2>1 DEF FlowInv, Ledger
  <2>4. Balance(r, c) = inCount[r][c] + Waiting(r, c) - fed[r][c]
    BY DEF Balance
  <2>5. Waiting(r, c) = Count(ready, ProcessHandlers(r, c))
    BY <1>1, <2>1, HomesNow, InQueue DEF Waiting
  <2>6. inCount[r][c] \in Nat /\ fed[r][c] \in Nat /\ Waiting(r, c) \in Nat
    BY <1>1, <2>1, <2>2, <2>5, NumbersTyped
  <2>7. fed[r][c] + Balance(r, c) = inCount[r][c] + Waiting(r, c)
    BY <2>4, <2>6
  <2> QED BY <2>2, <2>3, <2>7
<1> QED BY <1>2, <1>4

\* For any components, configurations, terminals, neighbours and threads, over any
\* sequence of requests and packets, no packet is lost, doubled or misrouted inside a
\* node, and out_packets_ counts every packet once for every remote route.
\* (router::do_route and route, component::do_process)
THEOREM PacketsConserved == Spec => []FlowConserved
<1>1. CASE Counting
  <2>1. Init => TypeOK /\ FlowInv
    BY InitType, FlowInit
  <2>2. (TypeOK /\ FlowInv) /\ [Next]_vars => (TypeOK /\ FlowInv)'
    BY <1>1, NextType, FlowNext
  <2>3. TypeOK /\ FlowInv => FlowConserved
    BY FlowMeans
  <2> QED BY <2>1, <2>2, <2>3, PTL DEF Spec
<1>2. CASE ~Counting
  <2>1. FlowConserved
    BY <1>2 DEF FlowConserved
  <2> QED BY <2>1, PTL
<1> QED BY <1>1, <1>2
=============================================================================
