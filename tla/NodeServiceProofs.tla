--------------------------- MODULE NodeServiceProofs ---------------------------
(***************************************************************************)
(* Proofs about a node with one terminal, for any threads, neighbours,     *)
(* components, configurations and bounds: it implements Service and obeys  *)
(* the last Start or Stop over any number of redeployments.                *)
(***************************************************************************)
EXTENDS NodeService, NodeProofs, FiniteSetTheorems

USE NodeAssumption DEF NodeAssumption

OneTerminal == Controls # {} /\ \A j, k \in Controls : j = k

\* What the thread that serves a request knows agrees with the routers: before
\* the exchange it has seen the state of the router in use, after it the state of
\* the old one, which is another router, and the new one is stopped.
FrameFits(f, c, on) ==
    /\ f.pc \in {"prev", "swap"} => f.old = None
    /\ f.pc \in {"prev", "status"} => f.r = c
    /\ f.pc = "swap" => f.on = on[c]
    /\ f.pc = "fill" => f.old \in Routers /\ f.old # c /\ f.on = on[f.old] /\ ~on[c]
    /\ f.pc \in {"set", "sweep"} => f.old # c
    /\ f.pc = "set" => f.r = IF f.old = None \/ f.on THEN c ELSE f.old

\* The router in use is the one made last, and those to come are stopped.
ViewInv ==
    /\ cur = made
    /\ \A r \in Routers : r > cur => ~started[r]
    /\ FrameFits(Frame, cur, started)

-----------------------------------------------------------------------------
(* The frame of the thread that serves *)

LEMMA FrameOfServer ==
  ASSUME NEW f, NEW t \in Threads, f[t].pc \in RequestSteps,
         \A u \in Threads : f[u].pc \in RequestSteps => u = t
  PROVE  FrameOf(f) = f[t]
<1>1. (CHOOSE u \in Threads : f[u].pc \in RequestSteps) = t
  OBVIOUS
<1> QED BY <1>1 DEF FrameOf

LEMMA FrameOfNone ==
  ASSUME NEW f, \A u \in Threads : f[u].pc \notin RequestSteps
  PROVE  FrameOf(f) = Idle
BY DEF FrameOf

LEMMA IdleServesNot == Idle.pc \notin RequestSteps
BY DEF Idle, RequestSteps

\* A request goes on.
LEMMA FrameMoves ==
  ASSUME TypeOK, OneRequestEach, OneTerminal, NEW t \in Threads, InRequest(t),
         run'[t].pc \in RequestSteps,
         \A u \in Threads : u # t => run'[u] = run[u]
  PROVE  Frame = run[t] /\ Frame' = run'[t]
<1>1. \A u \in Threads : run[u].pc \in RequestSteps => u = t
  BY OnlyOneInRequest DEF OneTerminal, InRequest
<1>2. \A u \in Threads : run'[u].pc \in RequestSteps => u = t
  BY <1>1
<1>3. FrameOf(run) = run[t]
  BY <1>1, FrameOfServer DEF InRequest
<1>4. FrameOf(run') = run'[t]
  BY <1>2, FrameOfServer
<1> QED BY <1>3, <1>4 DEF Frame, FrameOf

\* A request ends.
LEMMA FrameEnds ==
  ASSUME TypeOK, OneRequestEach, OneTerminal, NEW t \in Threads, InRequest(t),
         run' = [run EXCEPT ![t] = Idle]
  PROVE  Frame = run[t] /\ Frame' = Idle
<1>1. \A u \in Threads : run[u].pc \in RequestSteps => u = t
  BY OnlyOneInRequest DEF OneTerminal, InRequest
<1>2. \A u \in Threads : run'[u].pc \notin RequestSteps
  BY <1>1, IdleServesNot DEF TypeOK
<1>3. FrameOf(run) = run[t]
  BY <1>1, FrameOfServer DEF InRequest
<1>4. FrameOf(run') = Idle
  BY <1>2, FrameOfNone
<1> QED BY <1>3, <1>4 DEF Frame, FrameOf

\* A request begins.
LEMMA FrameBegins ==
  ASSUME TypeOK, OneRequestEach, OneTerminal, NEW t \in Threads, NEW k \in Controls,
         ctl[k] = "reading", NEW f, f.pc \in RequestSteps,
         run' = [run EXCEPT ![t] = f]
  PROVE  Frame = Idle /\ Frame' = f
<1>1. \A u \in Threads : run[u].pc \notin RequestSteps
  <2> SUFFICES ASSUME NEW u \in Threads, InRequest(u) PROVE FALSE
    BY DEF InRequest
  <2>1. run[u].k \in Controls
    BY DEF TypeOK, Frames, InRequest
  <2> QED BY <2>1 DEF OneRequestEach, OneTerminal
<1>2. run'[t] = f /\ \A u \in Threads : run'[u].pc \in RequestSteps => u = t
  BY <1>1 DEF TypeOK
<1>3. FrameOf(run) = Idle
  BY <1>1, FrameOfNone
<1>4. FrameOf(run') = run'[t]
  BY <1>2, FrameOfServer
<1> QED BY <1>2, <1>3, <1>4 DEF Frame, FrameOf

\* A thread that serves no request does something else.
LEMMA FrameStays ==
  ASSUME TypeOK, OneRequestEach, OneTerminal,
         \A u \in Threads : \/ run'[u] = run[u]
                            \/ ~InRequest(u) /\ run'[u].pc \notin RequestSteps
  PROVE  Frame' = Frame
<1>1. CASE \E t \in Threads : InRequest(t)
  <2>1. PICK t \in Threads : InRequest(t)
    BY <1>1
  <2>2. \A u \in Threads : run[u].pc \in RequestSteps => u = t
    BY <2>1, OnlyOneInRequest DEF OneTerminal, InRequest
  <2>3. run'[t] = run[t] /\ \A u \in Threads : run'[u].pc \in RequestSteps => u = t
    BY <2>1, <2>2
  <2>4. FrameOf(run) = run[t]
    BY <2>1, <2>2, FrameOfServer DEF InRequest
  <2>5. FrameOf(run') = run'[t]
    BY <2>1, <2>3, FrameOfServer DEF InRequest
  <2> QED BY <2>3, <2>4, <2>5 DEF Frame, FrameOf
<1>2. CASE \A t \in Threads : ~InRequest(t)
  <2>1. FrameOf(run) = Idle
    BY <1>2, FrameOfNone DEF InRequest
  <2>2. FrameOf(run') = Idle
    BY <1>2, FrameOfNone DEF InRequest
  <2> QED BY <2>1, <2>2 DEF Frame, FrameOf
<1> QED BY <1>1, <1>2

-----------------------------------------------------------------------------
(* Every step is one of Service, or none *)

LEMMA TerminalType == OneTerminal => Terminal \in Controls /\ \A k \in Controls : k = Terminal
BY DEF OneTerminal, Terminal

\* Steps the terminal does not see and that no request depends on.
LEMMA UnseenStep ==
  ASSUME ViewInv, Frame' = Frame, UNCHANGED <<routerVars, ctl, reply>>
  PROVE  ViewInv' /\ UNCHANGED Serves!vars
<1>1. ViewInv'
  BY DEF ViewInv, FrameFits, routerVars
<1>2. View' = View /\ IsOn' = IsOn /\ Request' = Request
  BY DEF View, IsOn, Restarts, Request, routerVars
<1> QED BY <1>1, <1>2 DEF Serves!vars, routerVars

\* A thread that is at a packet serves no request.
LEMMA PacketFrame ==
  ASSUME TypeOK, NEW t \in Threads,
         \/ RunGenerate(t) \/ Generate(t) \/ RunProcess(t) \/ RunRoute(t)
         \/ DoRoute(t) \/ CountBytes(t) \/ Deliver(t)
         \/ \E k \in Peers, c \in Comps, port \in Ports : HearMessage(t, k, c, port)
  PROVE  \A u \in Threads : \/ run'[u] = run[u]
                            \/ ~InRequest(u) /\ run'[u].pc \notin RequestSteps
<1>1. run \in [Threads -> Frames]
  BY DEF TypeOK
<1>2. \A u \in Threads : u # t => run'[u] = run[u]
  BY <1>1 DEF RunGenerate, Generate, RunProcess, RunRoute, DoRoute, CountBytes,
    Deliver, HearMessage
<1>3. \/ run'[t] = run[t]
      \/ ~InRequest(t) /\ run'[t].pc \notin RequestSteps
  <2>1. CASE RunGenerate(t) \/ RunRoute(t)
             \/ \E k \in Peers, c \in Comps, port \in Ports : HearMessage(t, k, c, port)
    <3>1. run[t] = Idle
      BY <2>1 DEF RunGenerate, RunRoute, HearMessage, Takes, Free
    <3>2. run' = run \/ run'[t] = Idle \/ run'[t].pc \in {"generate", "route", "bytes"}
      <4>1. CASE RunGenerate(t)
        <5> DEFINE f == [Idle EXCEPT !.pc = "generate", !.r = Head(ready).r,
                                     !.c = Head(ready).c]
        <5>1. f.pc = "generate"
          BY DEF Idle
        <5>2. \/ run' = [run EXCEPT ![t] = f]
              \/ run' = [run EXCEPT ![t] = Idle]
          BY <4>1 DEF RunGenerate
        <5> HIDE DEF f
        <5> QED BY <1>1, <5>1, <5>2
      <4>2. CASE RunRoute(t)
        <5> DEFINE f == [Idle EXCEPT !.pc = "route", !.r = Head(ready).r,
                                     !.c = Head(ready).c, !.own = {Head(ready).r}]
        <5>1. f.pc = "route"
          BY DEF Idle
        <5>2. run' = [run EXCEPT ![t] = f] \/ run' = run
          BY <4>2 DEF RunRoute
        <5> HIDE DEF f
        <5> QED BY <1>1, <5>1, <5>2
      <4>3. ASSUME NEW k \in Peers, NEW c \in Comps, NEW port \in Ports,
                   HearMessage(t, k, c, port)
            PROVE  run'[t].pc = "bytes"
        BY <1>1, <4>3 DEF HearMessage, Idle
      <4> QED BY <2>1, <4>1, <4>2, <4>3
    <3> QED BY <3>1, <3>2, IdleServesNot DEF InRequest, RequestSteps
  <2>2. CASE RunProcess(t)
    BY <2>2 DEF RunProcess
  <2>3. CASE Generate(t) \/ DoRoute(t) \/ CountBytes(t) \/ Deliver(t)
    <3>1. run[t].pc \in {"generate", "route", "bytes", "deliver"}
      BY <2>3 DEF Generate, DoRoute, CountBytes, Deliver, At
    <3>2. run'[t] = Idle \/ run'[t].pc = "deliver"
      <4>1. CASE CountBytes(t)
        <5>1. run[t] \in Frames
          BY <1>1
        <5>2. run[t] \in FrameShape
          BY <5>1 DEF Frames
        <5>3. [run[t] EXCEPT !.pc = "deliver"].pc = "deliver"
          BY <5>2 DEF FrameShape
        <5> QED BY <1>1, <4>1, <5>3 DEF CountBytes
      <4>2. CASE Generate(t) \/ DoRoute(t) \/ Deliver(t)
        BY <1>1, <4>2 DEF Generate, DoRoute, Deliver
      <4> QED BY <2>3, <4>1, <4>2
    <3> QED BY <3>1, <3>2, IdleServesNot DEF InRequest, RequestSteps
  <2> QED BY <2>1, <2>2, <2>3
<1> QED BY <1>2, <1>3

LEMMA PacketStep ==
  ASSUME TypeOK, OneRequestEach, OneTerminal, ViewInv, NEW t \in Threads,
         \/ RunGenerate(t) \/ Generate(t) \/ RunProcess(t) \/ RunRoute(t)
         \/ DoRoute(t) \/ CountBytes(t) \/ Deliver(t)
         \/ \E k \in Peers, c \in Comps, port \in Ports : HearMessage(t, k, c, port)
  PROVE  ViewInv' /\ UNCHANGED Serves!vars
<1>1. UNCHANGED <<routerVars, ctl, reply>>
  BY DEF RunGenerate, Generate, RunProcess, RunRoute, DoRoute, CountBytes, Deliver,
    HearMessage
<1>2. Frame' = Frame
  BY PacketFrame, FrameStays
<1> QED BY <1>1, <1>2, UnseenStep

LEMMA TimerStep ==
  ASSUME TypeOK, OneRequestEach, OneTerminal, ViewInv, Timers
  PROVE  ViewInv' /\ UNCHANGED Serves!vars
<1>1. run' = run /\ UNCHANGED <<routerVars, ctl, reply>>
  BY DEF Timers, TimerFires
<1>2. Frame' = Frame
  BY <1>1, FrameStays
<1> QED BY <1>1, <1>2, UnseenStep

\* The next turn of the loop over the components
LEMMA SweepStep ==
  ASSUME TypeOK, OneRequestEach, OneTerminal, ViewInv, NEW t \in Threads, SweepOne(t)
  PROVE  ViewInv' /\ UNCHANGED Serves!vars
<1>1. UNCHANGED <<routerVars, ctl, reply>>
  BY DEF SweepOne
<1>2. /\ InRequest(t) /\ run[t].pc = "sweep" /\ run'[t].pc = "sweep"
      /\ run'[t].old = run[t].old
      /\ \A u \in Threads : u # t => run'[u] = run[u]
  BY DEF SweepOne, At, InRequest, RequestSteps, TypeOK, Frames, FrameShape
<1>3. Frame = run[t] /\ Frame' = run'[t]
  BY <1>2, FrameMoves DEF RequestSteps
<1>4. ViewInv'
  BY <1>1, <1>2, <1>3 DEF ViewInv, FrameFits, routerVars
<1>5. View' = View /\ IsOn' = IsOn /\ Request' = Request
  BY <1>1, <1>2, <1>3 DEF View, IsOn, Restarts, Request, routerVars
<1> QED BY <1>1, <1>4, <1>5 DEF Serves!vars, routerVars

LEMMA BeingServed ==
  ASSUME TypeOK, OneRequestEach, OneTerminal, NEW t \in Threads, InRequest(t)
  PROVE  run[t] \in Frames /\ run[t].k = Terminal /\ ctl[Terminal] = "serving"
<1>1. run[t] \in Frames /\ run[t].k \in Controls
  BY DEF TypeOK, Frames, InRequest
<1> QED BY <1>1, TerminalType DEF OneRequestEach

\* The switch is set: by Start and Stop, and unseen by a deployment, which starts
\* the router in use, if the old one was started, and stops the old one.
LEMMA SetStartedStep ==
  ASSUME TypeOK, OneRequestEach, OneTerminal, ViewInv, NEW t \in Threads, SetStarted(t)
  PROVE  ViewInv' /\ [Serves!Next]_(Serves!vars)
<1> DEFINE f == run[t]
<1>1. InRequest(t) /\ f.pc = "set" /\ f \in Frames /\ ctl[Terminal] = "serving"
  BY BeingServed DEF SetStarted, At, InRequest, RequestSteps
<1>2. /\ f.on \in BOOLEAN /\ f.r \in Routers
      /\ started \in [Routers -> BOOLEAN] /\ cur \in Routers
  BY <1>1 DEF Frames, FrameShape, TypeOK
<1>3. /\ started' = [started EXCEPT ![f.r] = f.on]
      /\ UNCHANGED <<ctl, cur, made, conf, reply>>
      /\ run'[t].pc = "sweep" /\ run'[t].old = f.old
      /\ \A u \in Threads : u # t => run'[u] = run[u]
  BY <1>1 DEF SetStarted, TypeOK, Frames, FrameShape
<1>4. Frame = f /\ Frame' = run'[t]
  BY <1>1, <1>3, FrameMoves DEF RequestSteps
<1>5. f.old # cur /\ f.r = IF f.old = None \/ f.on THEN cur ELSE f.old
  BY <1>1, <1>4 DEF ViewInv, FrameFits
<1>6. ViewInv'
  BY <1>1, <1>2, <1>3, <1>4, <1>5 DEF ViewInv, FrameFits, Routers
<1>7. /\ View = cur /\ View' = cur /\ ~Restarts'
      /\ Request' = Serves!Nothing
  BY <1>1, <1>3, <1>4 DEF View, Restarts, Request, Serves!Nothing
<1>8. CASE f.old = None
  <2>1. Request = [op |-> "set", on |-> f.on]
    BY <1>1, <1>4, <1>8 DEF Request
  <2>2. IsOn' = f.on
    BY <1>2, <1>3, <1>5, <1>7, <1>8 DEF IsOn
  <2>3. Serves!Sets
    BY <1>1, <1>3, <1>7, <2>1, <2>2 DEF Serves!Sets, Serves!Pending
  <2> QED BY <1>6, <2>3 DEF Serves!Next
<1>9. CASE f.old # None
  <2>1. Request = Serves!Nothing
    BY <1>1, <1>4, <1>9 DEF Request, Serves!Nothing
  <2>2. Restarts = f.on
    BY <1>1, <1>2, <1>4, <1>9 DEF Restarts
  <2>3. IsOn' = IsOn
    BY <1>2, <1>3, <1>5, <1>7, <1>9, <2>2 DEF IsOn
  <2> QED BY <1>3, <1>6, <1>7, <2>1, <2>3 DEF Serves!vars
<1> QED BY <1>8, <1>9

\* The request is answered, or the deployment goes on to stop the old router.
LEMMA SweepDoneStep ==
  ASSUME TypeOK, OneRequestEach, OneTerminal, ViewInv, NEW t \in Threads, SweepDone(t)
  PROVE  ViewInv' /\ [Serves!Next]_(Serves!vars)
<1> DEFINE f == run[t]
<1>1. InRequest(t) /\ f.pc = "sweep" /\ f \in Frames /\ ctl[Terminal] = "serving"
  BY BeingServed DEF SweepDone, At, InRequest, RequestSteps
<1>2. UNCHANGED <<routerVars, reply>>
  BY DEF SweepDone
<1>3. CASE f.on /\ f.old # None
  <2>1. /\ run'[t].pc = "set" /\ run'[t].old = f.old /\ ~run'[t].on
        /\ run'[t].r = f.old /\ UNCHANGED ctl
        /\ \A u \in Threads : u # t => run'[u] = run[u]
    BY <1>1, <1>3 DEF SweepDone, TypeOK, Frames, FrameShape
  <2>2. Frame = f /\ Frame' = run'[t]
    BY <1>1, <2>1, FrameMoves DEF RequestSteps
  <2>3. ViewInv'
    BY <1>1, <1>2, <1>3, <2>1, <2>2 DEF ViewInv, FrameFits, routerVars
  <2>4. View' = View /\ IsOn' = IsOn /\ Request' = Request
    BY <1>1, <1>2, <1>3, <2>1, <2>2 DEF View, IsOn, Restarts, Request, routerVars
  <2> QED BY <1>2, <2>1, <2>3, <2>4 DEF Serves!vars, routerVars
<1>4. CASE ~(f.on /\ f.old # None)
  <2>1. /\ run' = [run EXCEPT ![t] = Idle]
        /\ ctl' = [ctl EXCEPT ![f.k] = "queued"]
    BY <1>4 DEF SweepDone, Answer
  <2>2. Frame = f /\ Frame' = Idle
    BY <1>1, <2>1, FrameEnds
  <2>3. ctl'[Terminal] = "queued"
    BY <1>1, <2>1, BeingServed, TerminalType DEF TypeOK
  <2>4. ViewInv'
    BY <1>2, <2>2 DEF ViewInv, FrameFits, routerVars, Idle
  <2>5. /\ View' = View /\ IsOn' = IsOn
        /\ Request = Serves!Nothing /\ Request' = Serves!Nothing
    BY <1>1, <1>2, <2>2 DEF View, IsOn, Restarts, Request, routerVars, Idle,
      Serves!Nothing
  <2>6. Serves!Answers
    BY <1>1, <1>2, <2>3, <2>5 DEF Serves!Answers, routerVars
  <2> QED BY <2>4, <2>6 DEF Serves!Next
<1> QED BY <1>3, <1>4

LEMMA ReadPreviousStep ==
  ASSUME TypeOK, OneRequestEach, OneTerminal, ViewInv, NEW t \in Threads,
         ReadPrevious(t)
  PROVE  ViewInv' /\ UNCHANGED Serves!vars
<1> DEFINE f == run[t]
<1>1. InRequest(t) /\ f.pc = "prev" /\ f \in Frames
  BY BeingServed DEF ReadPrevious, At, InRequest, RequestSteps
<1>2. /\ run'[t].pc = "swap" /\ run'[t].on = started[f.r] /\ run'[t].old = f.old
      /\ run'[t].conf = f.conf /\ UNCHANGED <<routerVars, ctl, reply>>
      /\ \A u \in Threads : u # t => run'[u] = run[u]
  BY <1>1 DEF ReadPrevious, TypeOK, Frames, FrameShape
<1>3. Frame = f /\ Frame' = run'[t]
  BY <1>1, <1>2, FrameMoves DEF RequestSteps
<1>4. ViewInv'
  BY <1>1, <1>2, <1>3 DEF ViewInv, FrameFits, routerVars
<1>5. View' = View /\ IsOn' = IsOn /\ Request' = Request
  BY <1>1, <1>2, <1>3 DEF View, IsOn, Restarts, Request, routerVars
<1> QED BY <1>2, <1>4, <1>5 DEF Serves!vars, routerVars

\* The new router is not seen while it is empty.
LEMMA ExchangeStep ==
  ASSUME TypeOK, OneRequestEach, OneTerminal, ViewInv, NEW t \in Threads, Exchange(t)
  PROVE  ViewInv' /\ UNCHANGED Serves!vars
<1> DEFINE f == run[t]
<1>1. InRequest(t) /\ f.pc = "swap" /\ f \in Frames
  BY BeingServed DEF Exchange, At, InRequest, RequestSteps
<1>2. /\ run'[t].pc = "fill" /\ run'[t].on = f.on /\ run'[t].old = cur
      /\ run'[t].conf = f.conf
      /\ \A u \in Threads : u # t => run'[u] = run[u]
  BY <1>1 DEF Exchange, TypeOK, Frames, FrameShape
<1>3. /\ cur' = made + 1 /\ made' = made + 1 /\ made < MaxCommands
      /\ UNCHANGED <<started, conf, ctl, reply>>
  BY DEF Exchange
<1>4. Frame = f /\ Frame' = run'[t]
  BY <1>1, <1>2, FrameMoves DEF RequestSteps
<1>5. cur = made /\ cur \in Routers /\ f.on = started[cur] /\ ~started[made + 1]
  BY <1>1, <1>3, <1>4 DEF ViewInv, FrameFits, TypeOK, Routers
<1>6. ViewInv'
  BY <1>2, <1>3, <1>4, <1>5 DEF ViewInv, FrameFits, Routers
<1>7. View' = View /\ IsOn' = IsOn /\ Request' = Request
  BY <1>1, <1>2, <1>3, <1>4 DEF View, IsOn, Restarts, Request
<1> QED BY <1>3, <1>6, <1>7 DEF Serves!vars

\* The deployment takes effect.
LEMMA FillStep ==
  ASSUME TypeOK, OneRequestEach, OneTerminal, ViewInv, NEW t \in Threads, Fill(t)
  PROVE  ViewInv' /\ [Serves!Next]_(Serves!vars)
<1> DEFINE f == run[t]
<1>1. InRequest(t) /\ f.pc = "fill" /\ f \in Frames /\ ctl[Terminal] = "serving"
  BY BeingServed DEF Fill, At, InRequest, RequestSteps
<1>2. /\ run'[t].pc = "set" /\ run'[t].on = f.on /\ run'[t].old = f.old
      /\ run'[t].r = IF f.on THEN cur ELSE f.old
      /\ \A u \in Threads : u # t => run'[u] = run[u]
  BY <1>1 DEF Fill, TypeOK, Frames, FrameShape
<1>3. /\ conf' = [conf EXCEPT ![cur] = f.conf]
      /\ UNCHANGED <<ctl, cur, made, started, reply>>
  BY DEF Fill
<1>4. Frame = f /\ Frame' = run'[t]
  BY <1>1, <1>2, FrameMoves DEF RequestSteps
<1>5. /\ f.old \in Routers /\ f.old # None /\ f.old # cur
      /\ f.on = started[f.old] /\ ~started[cur]
  BY <1>1, <1>4 DEF ViewInv, FrameFits, Routers
<1>6. ViewInv'
  BY <1>2, <1>3, <1>4, <1>5 DEF ViewInv, FrameFits
<1>7. /\ View' = cur /\ Request = [op |-> "deploy", comps |-> f.conf.comps]
      /\ Request' = Serves!Nothing
  BY <1>1, <1>2, <1>3, <1>4, <1>5 DEF View, Request, Serves!Nothing
<1>8. conf'[View'].comps = f.conf.comps
  BY <1>3, <1>7 DEF TypeOK
<1>9. IsOn' = IsOn
  <2>1. IsOn = f.on
    BY <1>1, <1>4, <1>5 DEF IsOn, View, Restarts, TypeOK
  <2>2. IsOn' = f.on
    BY <1>2, <1>3, <1>4, <1>5, <1>7 DEF IsOn, Restarts, TypeOK
  <2> QED BY <2>1, <2>2
<1>10. Serves!Deploys
  BY <1>1, <1>3, <1>7, <1>8, <1>9 DEF Serves!Deploys, Serves!Pending
<1> QED BY <1>6, <1>10 DEF Serves!Next

LEMMA StatusStep ==
  ASSUME TypeOK, OneRequestEach, OneTerminal, ViewInv, NEW t \in Threads, Status(t)
  PROVE  ViewInv' /\ [Serves!Next]_(Serves!vars)
<1> DEFINE f == run[t]
<1>1. /\ InRequest(t) /\ f.pc = "status" /\ f.k = Terminal
      /\ ctl[Terminal] = "serving"
  BY BeingServed DEF Status, At, InRequest, RequestSteps
<1>2. /\ run' = [run EXCEPT ![t] = Idle]
      /\ ctl' = [ctl EXCEPT ![f.k] = "queued"]
      /\ reply' = [reply EXCEPT ![f.k] = {StatusOf(f.r, c) : c \in conf[f.r].comps}]
      /\ UNCHANGED routerVars
  BY DEF Status, Answer
<1>3. Frame = f /\ Frame' = Idle
  BY <1>1, <1>2, FrameEnds
<1>4. f.r = cur
  BY <1>1, <1>3 DEF ViewInv, FrameFits
<1>5. ViewInv'
  BY <1>2, <1>3 DEF ViewInv, FrameFits, routerVars, Idle
<1>6. /\ ctl'[Terminal] = "queued"
      /\ reply'[Terminal] = {StatusOf(cur, c) : c \in conf[cur].comps}
  BY <1>1, <1>2, <1>4, TerminalType DEF TypeOK
<1>7. {s.c : s \in reply'[Terminal]} = conf[cur].comps
  <2>1. \A c \in conf[cur].comps : StatusOf(cur, c).c = c
    BY DEF StatusOf
  <2> DEFINE S == conf[cur].comps
             st(c) == StatusOf(cur, c)
  <2>2. \A c \in S : st(c).c = c
    BY <2>1
  <2>3. reply'[Terminal] = {st(c) : c \in S}
    BY <1>6
  <2> HIDE DEF S, st
  <2>4. {s.c : s \in {st(c) : c \in S}} = S
    BY <2>2
  <2> QED BY <2>3, <2>4 DEF S
<1>8. /\ View = cur /\ View' = cur /\ IsOn' = IsOn
      /\ Request = [op |-> "status"] /\ Request' = Serves!Nothing
  BY <1>1, <1>2, <1>3 DEF View, IsOn, Restarts, Request, routerVars, Idle,
    Serves!Nothing
<1>9. Serves!Reports
  BY <1>1, <1>2, <1>6, <1>7, <1>8 DEF Serves!Reports, Serves!Pending, routerVars
<1> QED BY <1>5, <1>9 DEF Serves!Next

LEMMA RunReadStep ==
  ASSUME TypeOK, OneRequestEach, OneTerminal, ViewInv, NEW t \in Threads, RunRead(t)
  PROVE  ViewInv' /\ [Serves!Next]_(Serves!vars)
<1>1. Head(ready) \in Handlers /\ Head(ready).op = "read" /\ ready # <<>>
  BY HeadHandler DEF RunRead, Takes
<1>2. Head(ready).k \in Controls
  BY <1>1 DEF Handlers
<1>3. Head(ready).k = Terminal /\ ctl[Terminal] = "queued"
  <2>1. 1 \in DOMAIN ready /\ Head(ready) = ready[1]
    BY <1>1 DEF TypeOK
  <2> QED BY <1>1, <1>2, <2>1, TerminalType DEF OneRequestEach, ReadOnce
<1>4. /\ ctl'[Terminal] = "reading" /\ reply'[Terminal] = {}
      /\ UNCHANGED <<run, routerVars>>
  BY <1>3, TerminalType DEF RunRead, TypeOK
<1>5. Frame' = Frame
  BY <1>4, FrameStays
<1>6. ViewInv'
  BY <1>4, <1>5 DEF ViewInv, FrameFits, routerVars
<1>7. View' = View /\ IsOn' = IsOn /\ Request' = Request
  BY <1>4, <1>5 DEF View, IsOn, Restarts, Request, routerVars
<1>8. Serves!ReadsOn
  BY <1>3, <1>4, <1>7 DEF Serves!ReadsOn, routerVars
<1> QED BY <1>6, <1>8 DEF Serves!Next

\* A request arrives.
LEMMA AcceptStep ==
  ASSUME TypeOK, OneRequestEach, OneTerminal, ViewInv, NEW t \in Threads,
         NEW k \in Controls,
         \/ \E on \in BOOLEAN : AcceptCommand(t, k, on)
         \/ \E new \in Configs : AcceptDeploy(t, k, new)
         \/ AcceptStatus(t, k)
  PROVE  ViewInv' /\ [Serves!Next]_(Serves!vars)
<1>k. k = Terminal
  BY TerminalType
\* whatever the request is
<1>a. ASSUME NEW f, f.old = None, f.r = cur, f.pc \in {"set", "prev", "status"},
             Accepts(t, k, f),
             NEW q \in Serves!Requests,
             q = IF f.pc = "prev" THEN [op |-> "deploy", comps |-> f.conf.comps]
                 ELSE IF f.pc = "set" THEN [op |-> "set", on |-> f.on]
                 ELSE [op |-> "status"]
      PROVE  ViewInv' /\ [Serves!Next]_(Serves!vars)
  <2>1. /\ ctl[Terminal] = "reading" /\ ctl' = [ctl EXCEPT ![k] = "serving"]
        /\ run' = [run EXCEPT ![t] = f] /\ UNCHANGED <<routerVars, reply>>
    BY <1>a, <1>k DEF Accepts
  <2>2. Frame = Idle /\ Frame' = f
    <3>1. ctl[k] = "reading" /\ f.pc \in RequestSteps
      BY <1>a, <1>k, <2>1 DEF RequestSteps
    <3> QED BY <2>1, <3>1, FrameBegins
  <2>3. ctl'[Terminal] = "serving"
    BY <2>1, <1>k DEF TypeOK
  <2>4. cur \in Nat /\ cur # None
    BY DEF TypeOK, Routers
  <2>5. ViewInv'
    BY <1>a, <2>1, <2>2, <2>4 DEF ViewInv, FrameFits, routerVars
  <2>6. View' = View /\ IsOn' = IsOn
    BY <1>a, <2>1, <2>2 DEF View, IsOn, Restarts, routerVars, Idle
  <2>7. Request' = q
    BY <1>a, <2>2 DEF Request
  <2>8. Serves!Asks(q)
    BY <2>1, <2>3, <2>6, <2>7 DEF Serves!Asks, routerVars
  <2> QED BY <2>5, <2>8 DEF Serves!Next
<1>1. ASSUME NEW on \in BOOLEAN, AcceptCommand(t, k, on)
      PROVE  ViewInv' /\ [Serves!Next]_(Serves!vars)
  <2> DEFINE f == [Idle EXCEPT !.pc = "set", !.k = k, !.r = cur, !.on = on]
             q == [op |-> "set", on |-> on]
  <2>1. f.old = None /\ f.r = cur /\ f.pc = "set" /\ f.on = on /\ Accepts(t, k, f)
    BY <1>1 DEF AcceptCommand, Idle
  <2>2. q \in Serves!Requests
    BY DEF Serves!Requests
  <2> HIDE DEF f
  <2> QED BY <1>a, <2>1, <2>2
<1>2. ASSUME NEW new \in Configs, AcceptDeploy(t, k, new)
      PROVE  ViewInv' /\ [Serves!Next]_(Serves!vars)
  <2> DEFINE f == [Idle EXCEPT !.pc = "prev", !.k = k, !.r = cur, !.conf = new]
             q == [op |-> "deploy", comps |-> new.comps]
  <2>1. f.old = None /\ f.r = cur /\ f.pc = "prev" /\ f.conf = new /\ Accepts(t, k, f)
    BY <1>2 DEF AcceptDeploy, Idle
  <2>2. new.comps \in SUBSET Comps
    BY DEF ConfigShape
  <2>3. q \in Serves!Requests
    BY <2>2 DEF Serves!Requests
  <2> HIDE DEF f
  <2> QED BY <1>a, <2>1, <2>3
<1>3. ASSUME AcceptStatus(t, k)
      PROVE  ViewInv' /\ [Serves!Next]_(Serves!vars)
  <2> DEFINE f == [Idle EXCEPT !.pc = "status", !.k = k, !.r = cur]
             q == [op |-> "status"]
  <2>1. f.old = None /\ f.r = cur /\ f.pc = "status" /\ Accepts(t, k, f)
    BY <1>3 DEF AcceptStatus, Idle
  <2>2. q \in Serves!Requests
    BY DEF Serves!Requests
  <2> HIDE DEF f
  <2> QED BY <1>a, <2>1, <2>2
<1> QED BY <1>1, <1>2, <1>3

LEMMA ServiceStep ==
  ASSUME TypeOK, OneRequestEach, OneTerminal, ViewInv, [Next]_vars
  PROVE  ViewInv' /\ [Serves!Next]_(Serves!vars)
<1>1. ASSUME NEW t \in Threads, Works(t) \/ Accept(t)
      PROVE  ViewInv' /\ [Serves!Next]_(Serves!vars)
  BY <1>1, PacketStep, SweepStep, SetStartedStep, SweepDoneStep, ReadPreviousStep,
    ExchangeStep, FillStep, StatusStep, RunReadStep, AcceptStep DEF Works, Accept
<1>2. ASSUME UNCHANGED vars
      PROVE  ViewInv' /\ [Serves!Next]_(Serves!vars)
  <2>1. run' = run /\ UNCHANGED <<routerVars, ctl, reply>>
    BY <1>2 DEF vars
  <2>2. Frame' = Frame
    BY <2>1, FrameStays
  <2> QED BY <2>1, <2>2, UnseenStep
<1> QED BY <1>1, <1>2, TimerStep DEF Next

LEMMA ServiceInit ==
  ASSUME Init, OneTerminal
  PROVE  ViewInv /\ Serves!Init
<1>1. Frame = Idle
  <2>1. \A t \in Threads : run[t].pc \notin RequestSteps
    BY IdleServesNot DEF Init
  <2> QED BY <2>1, FrameOfNone DEF Frame
<1>2. ViewInv
  BY <1>1 DEF Init, ViewInv, FrameFits, Idle
<1>3. View = 0 /\ ~IsOn /\ Request = Serves!Nothing
  BY <1>1, RouterZero DEF Init, View, IsOn, Restarts, Request, Idle, Serves!Nothing
<1>4. Serves!Init
  BY <1>3, TerminalType, RouterZero DEF Init, Serves!Init, NoConfig, IsOn
<1> QED BY <1>2, <1>4

\* A node with one terminal is a set of components and a switch: its requests
\* take effect one at a time, each at once and before it is answered, and a
\* deployment leaves the switch alone - for any number of threads and neighbours,
\* any configurations and any length of the run.
THEOREM NodeImplementsService ==
  ASSUME Controls # {}, \A j, k \in Controls : j = k
  PROVE  Spec => ImplementsService
<1> DEFINE Inv == TypeOK /\ OneRequestEach
<1>1. OneTerminal
  BY DEF OneTerminal
<1>2. Init => ViewInv /\ Serves!Init
  BY <1>1, ServiceInit
<1>3. Inv /\ ViewInv /\ [Next]_vars => ViewInv' /\ [Serves!Next]_(Serves!vars)
  BY <1>1, ServiceStep
<1>4. Spec => []Inv
  BY TypeCorrect, OneRequestPerConnection, PTL
<1> HIDE DEF Inv
<1> QED BY <1>2, <1>3, <1>4, PTL DEF Spec, ImplementsService, Serves!Spec

-----------------------------------------------------------------------------
(* The terminal is obeyed: CmdInv says how far each deployment has got *)

\* The switch is as commanded, except between a Start or Stop and its first line.
AsCommanded(f) ==
    IF f.pc = "set" /\ f.old = None THEN f.on <=> commanded ELSE IsOn <=> commanded

\* Beside the router in use only that which a deployment has still to stop is
\* started.
OnlyOld(f) ==
    \A r \in Routers : started[r] /\ r # cur =>
        f.old = r /\ f.pc \in {"fill", "set", "sweep"} /\ (f.pc = "sweep" => f.on)

OldBefore(f) ==
    f.pc \in {"fill", "set", "sweep"} /\ f.old \in Routers => f.old < cur

SweepFits(f) ==
    f.pc = "sweep" => f.r <= made /\ (started[f.r] <=> f.on) /\ f.todo \subseteq conf[f.r].comps

\* Every generator agrees with its router, but those the loop has not reached.
Obeyed(f) ==
    \A r \in Routers : \A c \in conf[r].comps :
        Kind[c] \in Generators => \/ genOn[r][c] <=> started[r]
                                  \/ f.pc = "sweep" /\ f.r = r /\ c \in f.todo

\* Components that are not there yet are stopped.
Unborn(f) ==
    /\ \A r \in Routers, c \in Comps : r > made => ~genOn[r][c]
    /\ f.pc = "fill" => \A c \in Comps : ~genOn[cur][c]

CmdInv ==
    /\ AsCommanded(Frame) /\ OnlyOld(Frame) /\ OldBefore(Frame)
    /\ SweepFits(Frame) /\ Obeyed(Frame) /\ Unborn(Frame)
-----------------------------------------------------------------------------
(* The steps *)

\* What every lemma about a step of the serving thread begins with.
LEMMA Domains ==
  ASSUME TypeOK
  PROVE  /\ cur \in Routers /\ made \in Routers
         /\ started \in [Routers -> BOOLEAN]
         /\ conf \in [Routers -> ConfigShape]
         /\ genOn \in PerObject(BOOLEAN)
         /\ run \in [Threads -> Frames]
         /\ \A r \in Routers : conf[r].comps \subseteq Comps
<1>1. conf \in [Routers -> ConfigShape]
  BY NoConfigShape DEF TypeOK
<1>2. \A r \in Routers : conf[r].comps \subseteq Comps
  BY <1>1 DEF ConfigShape
<1> QED BY <1>1, <1>2 DEF TypeOK

\* Steps that move nothing the invariant is about.
LEMMA UnseenObeys ==
  ASSUME CmdInv, Frame' = Frame, UNCHANGED <<routerVars, genOn, commanded>>
  PROVE  CmdInv'
<1>1. IsOn' = IsOn
  BY DEF IsOn, View, Restarts, routerVars
<1>2. AsCommanded(Frame)' /\ OnlyOld(Frame)' /\ OldBefore(Frame)'
  BY <1>1 DEF CmdInv, AsCommanded, OnlyOld, OldBefore, routerVars
<1>3. SweepFits(Frame)' /\ Obeyed(Frame)' /\ Unborn(Frame)'
  BY DEF CmdInv, SweepFits, Obeyed, Unborn, routerVars
<1> QED BY <1>2, <1>3 DEF CmdInv

\* Steps of the serving thread outside the loops that leave the routers alone: the
\* switch stays as it was, or is about to be set.
LEMMA QuietObeys ==
  ASSUME CmdInv, UNCHANGED <<routerVars, genOn>>,
         Frame.pc \notin {"fill", "set", "sweep"}, Frame'.pc \notin {"fill", "sweep"},
         IF Frame'.pc = "set" THEN Frame'.old = None /\ (Frame'.on <=> commanded')
                              ELSE commanded' <=> commanded
  PROVE  CmdInv'
<1>1. started[cur] <=> commanded
  BY DEF CmdInv, AsCommanded, IsOn, View, Restarts
<1>2. \A r \in Routers : started[r] => r = cur
  BY DEF CmdInv, OnlyOld
<1>3. \A r \in Routers : \A c \in conf[r].comps :
          Kind[c] \in Generators => (genOn[r][c] <=> started[r])
  BY DEF CmdInv, Obeyed
<1>4. AsCommanded(Frame)'
  BY <1>1 DEF AsCommanded, IsOn, View, Restarts, routerVars
<1>5. OnlyOld(Frame)' /\ Obeyed(Frame)'
  BY <1>2, <1>3 DEF OnlyOld, Obeyed, routerVars
<1>6. None \notin Routers
  BY DEF Routers
<1>7. OldBefore(Frame)' /\ SweepFits(Frame)' /\ Unborn(Frame)'
  BY <1>6 DEF CmdInv, OldBefore, SweepFits, Unborn, routerVars
<1> QED BY <1>4, <1>5, <1>7 DEF CmdInv

LEMMA PacketObeys ==
  ASSUME TypeOK, OneRequestEach, OneTerminal, ViewInv, CmdInv, NEW t \in Threads,
         \/ RunGenerate(t) \/ Generate(t) \/ RunProcess(t) \/ RunRoute(t)
         \/ DoRoute(t) \/ CountBytes(t) \/ Deliver(t) \/ RunRead(t)
         \/ \E k \in Peers, c \in Comps, port \in Ports : HearMessage(t, k, c, port)
  PROVE  CmdInv'
<1>1. UNCHANGED <<routerVars, genOn, commanded>>
  BY DEF RunGenerate, Generate, RunProcess, RunRoute, DoRoute, CountBytes, Deliver,
    RunRead, HearMessage, compVars, histVars
<1>2. Frame' = Frame
  BY PacketFrame, FrameStays DEF RunRead
<1> QED BY <1>1, <1>2, UnseenObeys

\* The first line of start() or stop(): every component is still to be reached.
LEMMA SetStartedObeys ==
  ASSUME TypeOK, OneRequestEach, OneTerminal, ViewInv, CmdInv, NEW t \in Threads,
         SetStarted(t)
  PROVE  CmdInv'
<1> DEFINE f == run[t]
           g == run'[t]
<1>1. InRequest(t) /\ f.pc = "set" /\ f \in Frames
  BY BeingServed DEF SetStarted, At, InRequest, RequestSteps
<1>2. /\ started' = [started EXCEPT ![f.r] = f.on]
      /\ UNCHANGED <<cur, made, conf, genOn, commanded>>
      /\ g.pc = "sweep" /\ g.old = f.old /\ g.on = f.on /\ g.r = f.r
      /\ g.todo = conf[f.r].comps
      /\ \A u \in Threads : u # t => run'[u] = run[u]
  BY <1>1 DEF SetStarted, TypeOK, Frames, FrameShape, compVars
<1>3. Frame = f /\ Frame' = g
  BY <1>1, <1>2, FrameMoves DEF RequestSteps
<1>4. /\ Frame.pc = "set" /\ Frame'.pc = "sweep" /\ Frame'.old = Frame.old
      /\ Frame'.on = Frame.on /\ Frame'.r = Frame.r
      /\ Frame'.todo = conf[Frame.r].comps
      /\ started' = [started EXCEPT ![Frame.r] = Frame.on]
  BY <1>1, <1>2, <1>3
<1>5. /\ Frame.on \in BOOLEAN /\ Frame.r \in Routers /\ Frame.old \in Routers \cup {None}
      /\ started \in [Routers -> BOOLEAN] /\ cur \in Routers
      /\ None \notin Routers
  BY <1>1, <1>3 DEF Frames, FrameShape, TypeOK, Routers
<1>6. /\ Frame.old # cur /\ cur = made
      /\ Frame.r = IF Frame.old = None \/ Frame.on THEN cur ELSE Frame.old
  BY <1>4 DEF ViewInv, FrameFits
<1>7. AsCommanded(Frame)'
  <2>1. View = cur /\ View' = cur /\ ~Restarts'
    BY <1>2, <1>4 DEF View, Restarts
  <2>2. CASE Frame.old = None
    BY <1>2, <1>4, <1>5, <1>6, <2>1, <2>2 DEF CmdInv, AsCommanded, IsOn
  <2>3. CASE Frame.old # None
    <3>1. Restarts <=> Frame.on
      BY <1>4, <2>3 DEF Restarts
    <3>2. IsOn' <=> IsOn
      BY <1>2, <1>4, <1>5, <1>6, <2>1, <2>3, <3>1 DEF IsOn
    <3> QED BY <1>2, <1>4, <2>3, <3>2 DEF CmdInv, AsCommanded
  <2> QED BY <2>2, <2>3
<1>8. OnlyOld(Frame)'
  BY <1>2, <1>4, <1>5, <1>6 DEF CmdInv, OnlyOld
<1>9. OldBefore(Frame)'
  BY <1>2, <1>4 DEF CmdInv, OldBefore
<1>10. SweepFits(Frame)'
  <2>1. Frame.r <= made
    BY <1>4, <1>5, <1>6 DEF CmdInv, OldBefore, Routers
  <2> QED BY <1>2, <1>4, <1>5, <2>1 DEF SweepFits
<1>11. Obeyed(Frame)'
  BY <1>2, <1>4, <1>5 DEF CmdInv, Obeyed
<1>12. Unborn(Frame)'
  BY <1>2, <1>4 DEF CmdInv, Unborn
<1> QED BY <1>7, <1>8, <1>9, <1>10, <1>11, <1>12 DEF CmdInv

\* One component is started or stopped, as its router is.
LEMMA SweepOneObeys ==
  ASSUME TypeOK, OneRequestEach, OneTerminal, ViewInv, CmdInv, NEW t \in Threads,
         SweepOne(t)
  PROVE  CmdInv'
<1> DEFINE f == run[t]
           g == run'[t]
<1>1. InRequest(t) /\ f.pc = "sweep" /\ f \in Frames /\ f.todo # {}
  BY BeingServed DEF SweepOne, At, InRequest, RequestSteps
<1>2. /\ UNCHANGED <<routerVars, commanded>>
      /\ g.pc = "sweep" /\ g.old = f.old /\ g.on = f.on /\ g.r = f.r
      /\ g.todo = f.todo \ {First(f.todo)}
      /\ \A u \in Threads : u # t => run'[u] = run[u]
  BY <1>1 DEF SweepOne, TypeOK, Frames, FrameShape
<1>3. Frame = f /\ Frame' = g
  BY <1>1, <1>2, FrameMoves DEF RequestSteps
<1>4. /\ Frame.pc = "sweep" /\ Frame'.pc = "sweep" /\ Frame'.old = Frame.old
      /\ Frame'.on = Frame.on /\ Frame'.r = Frame.r
      /\ Frame'.todo = Frame.todo \ {First(Frame.todo)}
  BY <1>1, <1>2, <1>3
<1>5. /\ Frame.on \in BOOLEAN /\ Frame.r \in Routers /\ Frame.todo \in SUBSET Comps
      /\ Frame.todo # {}
  BY <1>1, <1>3 DEF Frames, FrameShape
<1> DEFINE c == First(Frame.todo)
<1>6. c \in Frame.todo
  BY <1>5, FirstIn
<1>7. /\ genOn \in PerObject(BOOLEAN)
      /\ \/ genOn' = genOn /\ Frame.on /\ Kind[c] \notin Generators
         \/ genOn' = [genOn EXCEPT ![Frame.r][c] = Frame.on]
  BY <1>1, <1>3, <1>5 DEF SweepOne, StartComponent, StopComponent, TypeOK
<1>8. AsCommanded(Frame)'
  <2>1. IsOn' <=> IsOn
    BY <1>2, <1>4 DEF IsOn, View, Restarts, routerVars
  <2> QED BY <1>2, <1>4, <2>1 DEF CmdInv, AsCommanded
<1>9. OnlyOld(Frame)' /\ OldBefore(Frame)'
  BY <1>2, <1>4 DEF CmdInv, OnlyOld, OldBefore, routerVars
<1>10. SweepFits(Frame)'
  BY <1>2, <1>4 DEF CmdInv, SweepFits, routerVars
<1>11. Obeyed(Frame)'
  <2> SUFFICES ASSUME NEW r \in Routers, NEW d \in conf[r].comps,
                      Kind[d] \in Generators,
                      ~(Frame.r = r /\ d \in Frame.todo \ {c})
               PROVE  genOn'[r][d] <=> started[r]
    BY <1>2, <1>4 DEF Obeyed, routerVars
  <2>1. d \in Comps /\ c \in Comps
    BY <1>5, <1>6, Domains
  <2>2. CASE r = Frame.r /\ d = c
    <3>1. started[r] <=> Frame.on
      BY <1>4, <2>2 DEF CmdInv, SweepFits
    <3>2. genOn'[r][d] <=> Frame.on
      BY <1>5, <1>7, <2>1, <2>2 DEF PerObject
    <3> QED BY <3>1, <3>2
  <2>3. CASE ~(r = Frame.r /\ d = c)
    <3>1. genOn'[r][d] = genOn[r][d]
      BY <1>5, <1>7, <2>1, <2>3 DEF PerObject
    <3>2. ~(Frame.r = r /\ d \in Frame.todo)
      BY <2>3
    <3> QED BY <3>1, <3>2 DEF CmdInv, Obeyed
  <2> QED BY <2>2, <2>3
<1>12. Unborn(Frame)'
  <2> SUFFICES ASSUME NEW r \in Routers, NEW d \in Comps, r > made
               PROVE  ~genOn'[r][d]
    BY <1>2, <1>4 DEF Unborn, routerVars
  <2>1. r # Frame.r
    BY <1>4, <1>5, Domains DEF CmdInv, SweepFits, Routers
  <2>2. genOn'[r][d] = genOn[r][d]
    BY <1>5, <1>7, <2>1 DEF PerObject
  <2> QED BY <2>2 DEF CmdInv, Unborn
<1> QED BY <1>8, <1>9, <1>10, <1>11, <1>12 DEF CmdInv

\* The loop is over: every component of its router agrees with it.
LEMMA SweepDoneObeys ==
  ASSUME TypeOK, OneRequestEach, OneTerminal, ViewInv, CmdInv, NEW t \in Threads,
         SweepDone(t)
  PROVE  CmdInv'
<1> DEFINE f == run[t]
           g == run'[t]
<1>1. InRequest(t) /\ f.pc = "sweep" /\ f.todo = {} /\ f \in Frames
  BY BeingServed DEF SweepDone, At, InRequest, RequestSteps
<1>2. UNCHANGED <<routerVars, genOn, commanded>> /\ None \notin Routers
  BY DEF SweepDone, compVars, histVars, Routers
<1>3. CASE f.on /\ f.old # None
  <2>1. /\ g.pc = "set" /\ g.old = f.old /\ ~g.on
        /\ \A u \in Threads : u # t => run'[u] = run[u]
    BY <1>1, <1>3 DEF SweepDone, TypeOK, Frames, FrameShape
  <2>2. Frame = f /\ Frame' = g
    BY <1>1, <2>1, FrameMoves DEF RequestSteps
  <2>3. /\ Frame.pc = "sweep" /\ Frame.on /\ Frame.old # None /\ Frame.todo = {}
        /\ Frame'.pc = "set" /\ Frame'.old = Frame.old /\ ~Frame'.on
    BY <1>1, <1>3, <2>1, <2>2
  <2>4. AsCommanded(Frame)'
    BY <1>2, <2>3 DEF CmdInv, AsCommanded, IsOn, View, Restarts, routerVars
  <2>5. OnlyOld(Frame)' /\ OldBefore(Frame)' /\ SweepFits(Frame)'
    BY <1>2, <2>3 DEF CmdInv, OnlyOld, OldBefore, SweepFits, routerVars
  <2>6. Obeyed(Frame)' /\ Unborn(Frame)'
    BY <1>2, <2>3 DEF CmdInv, Obeyed, Unborn, routerVars
  <2> QED BY <2>4, <2>5, <2>6 DEF CmdInv
<1>4. CASE ~(f.on /\ f.old # None)
  <2>1. run' = [run EXCEPT ![t] = Idle]
    BY <1>4 DEF SweepDone, Answer
  <2>2. Frame = f /\ Frame' = Idle
    BY <1>1, <2>1, FrameEnds
  <2>3. /\ Frame.pc = "sweep" /\ ~(Frame.on /\ Frame.old # None) /\ Frame.todo = {}
        /\ Frame'.pc = "idle"
    BY <1>1, <1>4, <2>2 DEF Idle
  <2>4. AsCommanded(Frame)'
    BY <1>2, <2>3 DEF CmdInv, AsCommanded, IsOn, View, Restarts, routerVars
  <2>5. OnlyOld(Frame)'
    <3> SUFFICES ASSUME NEW r \in Routers, started[r], r # cur PROVE FALSE
      BY <1>2 DEF OnlyOld, routerVars
    <3>1. Frame.old = r /\ Frame.on
      BY <2>3 DEF CmdInv, OnlyOld
    <3> QED BY <1>2, <2>3, <3>1
  <2>6. OldBefore(Frame)' /\ SweepFits(Frame)'
    BY <2>3 DEF OldBefore, SweepFits
  <2>7. Obeyed(Frame)' /\ Unborn(Frame)'
    BY <1>2, <2>3 DEF CmdInv, Obeyed, Unborn, routerVars
  <2> QED BY <2>4, <2>5, <2>6, <2>7 DEF CmdInv
<1> QED BY <1>3, <1>4

\* The request begins: the switch is about to be set, or stays.
LEMMA AcceptObeys ==
  ASSUME TypeOK, OneRequestEach, OneTerminal, ViewInv, CmdInv, NEW t \in Threads,
         NEW k \in Controls,
         \/ \E on \in BOOLEAN : AcceptCommand(t, k, on)
         \/ \E new \in Configs : AcceptDeploy(t, k, new)
         \/ AcceptStatus(t, k)
  PROVE  CmdInv'
\* whatever the request is
<1>a. ASSUME NEW f, f.old = None, f.pc \in {"set", "prev", "status"}, Accepts(t, k, f),
             IF f.pc = "set" THEN f.on <=> commanded' ELSE commanded' <=> commanded
      PROVE  CmdInv'
  <2>1. ctl[k] = "reading" /\ run' = [run EXCEPT ![t] = f] /\ f.pc \in RequestSteps
    BY <1>a DEF Accepts, RequestSteps
  <2>2. Frame = Idle /\ Frame' = f
    BY <2>1, FrameBegins
  <2>3. UNCHANGED <<routerVars, genOn>>
    BY <1>a DEF Accepts, compVars
  <2>4. Frame.pc = "idle"
    BY <2>2 DEF Idle
  <2>5. /\ Frame'.pc \in {"set", "prev", "status"} /\ Frame'.old = None
        /\ IF Frame'.pc = "set" THEN Frame'.on <=> commanded' ELSE commanded' <=> commanded
    BY <1>a, <2>2
  <2> QED BY <2>3, <2>4, <2>5, QuietObeys
<1>1. ASSUME NEW on \in BOOLEAN, AcceptCommand(t, k, on) PROVE CmdInv'
  <2> DEFINE f == [Idle EXCEPT !.pc = "set", !.k = k, !.r = cur, !.on = on]
  <2>1. f.old = None /\ f.pc = "set" /\ f.on = on /\ Accepts(t, k, f) /\ commanded' = on
    BY <1>1 DEF AcceptCommand, Idle
  <2> HIDE DEF f
  <2> QED BY <1>a, <2>1
<1>2. ASSUME NEW new \in Configs, AcceptDeploy(t, k, new) PROVE CmdInv'
  <2> DEFINE f == [Idle EXCEPT !.pc = "prev", !.k = k, !.r = cur, !.conf = new]
  <2>1. f.old = None /\ f.pc = "prev" /\ Accepts(t, k, f) /\ commanded' = commanded
    BY <1>2 DEF AcceptDeploy, Idle
  <2> HIDE DEF f
  <2> QED BY <1>a, <2>1
<1>3. ASSUME AcceptStatus(t, k) PROVE CmdInv'
  <2> DEFINE f == [Idle EXCEPT !.pc = "status", !.k = k, !.r = cur]
  <2>1. f.old = None /\ f.pc = "status" /\ Accepts(t, k, f) /\ commanded' = commanded
    BY <1>3 DEF AcceptStatus, Idle
  <2> HIDE DEF f
  <2> QED BY <1>a, <2>1
<1> QED BY <1>1, <1>2, <1>3

LEMMA StatusObeys ==
  ASSUME TypeOK, OneRequestEach, OneTerminal, CmdInv, NEW t \in Threads, Status(t)
  PROVE  CmdInv'
<1>1. InRequest(t) /\ run[t].pc = "status"
  BY BeingServed DEF Status, At, InRequest, RequestSteps
<1>2. run' = [run EXCEPT ![t] = Idle] /\ UNCHANGED <<routerVars, genOn, commanded>>
  BY DEF Status, Answer, compVars, histVars
<1>3. Frame = run[t] /\ Frame' = Idle
  BY <1>1, <1>2, FrameEnds
<1>4. Frame.pc = "status" /\ Frame'.pc = "idle"
  BY <1>1, <1>3 DEF Idle
<1> QED BY <1>2, <1>4, QuietObeys

LEMMA ReadPreviousObeys ==
  ASSUME TypeOK, OneRequestEach, OneTerminal, CmdInv, NEW t \in Threads,
         ReadPrevious(t)
  PROVE  CmdInv'
<1>1. InRequest(t) /\ run[t].pc = "prev"
  BY BeingServed DEF ReadPrevious, At, InRequest, RequestSteps
<1>2. /\ run'[t].pc = "swap" /\ UNCHANGED <<routerVars, genOn, commanded>>
      /\ \A u \in Threads : u # t => run'[u] = run[u]
  BY <1>1 DEF ReadPrevious, TypeOK, Frames, FrameShape, compVars, histVars
<1>3. Frame = run[t] /\ Frame' = run'[t]
  BY <1>1, <1>2, FrameMoves DEF RequestSteps
<1>4. Frame.pc = "prev" /\ Frame'.pc = "swap"
  BY <1>1, <1>2, <1>3
<1> QED BY <1>2, <1>4, QuietObeys

\* The new router and its components are stopped, the old one is still to be seen to.
LEMMA ExchangeObeys ==
  ASSUME TypeOK, OneRequestEach, OneTerminal, ViewInv, CmdInv, NEW t \in Threads,
         Exchange(t)
  PROVE  CmdInv'
<1>1. InRequest(t) /\ run[t].pc = "swap"
  BY BeingServed DEF Exchange, At, InRequest, RequestSteps
<1>2. /\ run'[t].pc = "fill" /\ run'[t].old = cur
      /\ \A u \in Threads : u # t => run'[u] = run[u]
  BY <1>1 DEF Exchange, TypeOK, Frames, FrameShape
<1>3. /\ cur' = made + 1 /\ made' = made + 1 /\ made < MaxCommands
      /\ UNCHANGED <<started, conf, genOn, commanded>>
  BY DEF Exchange, compVars, histVars
<1>4. Frame = run[t] /\ Frame' = run'[t]
  BY <1>1, <1>2, FrameMoves DEF RequestSteps
<1>5. Frame.pc = "swap" /\ Frame'.pc = "fill" /\ Frame'.old = cur
  BY <1>1, <1>2, <1>4
<1>6. cur = made /\ cur \in Routers /\ made + 1 \in Routers
  BY <1>3 DEF ViewInv, TypeOK, Routers
<1>7. AsCommanded(Frame)'
  BY <1>3, <1>5 DEF CmdInv, AsCommanded, IsOn, View, Restarts
<1>8. OnlyOld(Frame)'
  BY <1>3, <1>5 DEF CmdInv, OnlyOld
<1>9. OldBefore(Frame)' /\ SweepFits(Frame)'
  BY <1>3, <1>5, <1>6 DEF OldBefore, SweepFits, Routers
<1>10. Obeyed(Frame)'
  BY <1>3, <1>5 DEF CmdInv, Obeyed
<1>11. Unborn(Frame)'
  BY <1>3, <1>5, <1>6 DEF CmdInv, Unborn, Routers
<1> QED BY <1>7, <1>8, <1>9, <1>10, <1>11 DEF CmdInv

\* The new router gets its components: stopped, as it is.
LEMMA FillObeys ==
  ASSUME TypeOK, OneRequestEach, OneTerminal, ViewInv, CmdInv, NEW t \in Threads,
         Fill(t)
  PROVE  CmdInv'
<1>1. InRequest(t) /\ run[t].pc = "fill" /\ run[t] \in Frames
  BY BeingServed DEF Fill, At, InRequest, RequestSteps
<1>2. /\ run'[t].pc = "set" /\ run'[t].on = run[t].on /\ run'[t].old = run[t].old
      /\ \A u \in Threads : u # t => run'[u] = run[u]
  BY <1>1 DEF Fill, TypeOK, Frames, FrameShape
<1>3. /\ conf' = [conf EXCEPT ![cur] = run[t].conf]
      /\ UNCHANGED <<cur, made, started, genOn, commanded>>
  BY DEF Fill, compVars, histVars
<1>4. Frame = run[t] /\ Frame' = run'[t]
  BY <1>1, <1>2, FrameMoves DEF RequestSteps
<1>5. /\ Frame.pc = "fill" /\ Frame'.pc = "set" /\ Frame'.on = Frame.on
      /\ Frame'.old = Frame.old /\ conf' = [conf EXCEPT ![cur] = Frame.conf]
  BY <1>1, <1>2, <1>3, <1>4
<1>6. /\ Frame.old \in Routers /\ Frame.old # None /\ Frame.old # cur
      /\ Frame.on = started[Frame.old] /\ ~started[cur]
  BY <1>5 DEF ViewInv, FrameFits, Routers
<1>7. Frame.conf.comps \subseteq Comps
  <2>1. Frame.conf \in ConfigShape
    BY <1>1, <1>4, NoConfigShape DEF Frames, FrameShape
  <2> QED BY <2>1 DEF ConfigShape
<1>8. AsCommanded(Frame)'
  <2>1. IsOn <=> started[Frame.old]
    BY <1>5 DEF IsOn, View, Restarts
  <2>2. IsOn' <=> started[Frame.old]
    BY <1>3, <1>5, <1>6 DEF IsOn, View, Restarts
  <2> QED BY <1>3, <1>5, <1>6, <2>1, <2>2 DEF CmdInv, AsCommanded
<1>9. OnlyOld(Frame)' /\ OldBefore(Frame)' /\ SweepFits(Frame)'
  BY <1>3, <1>5 DEF CmdInv, OnlyOld, OldBefore, SweepFits
<1>10. Obeyed(Frame)'
  <2> SUFFICES ASSUME NEW r \in Routers, NEW c \in conf'[r].comps,
                      Kind[c] \in Generators
               PROVE  genOn[r][c] <=> started[r]
    BY <1>3 DEF Obeyed
  <2>1. CASE r = cur
    <3>1. conf'[cur] = Frame.conf
      BY <1>5, Domains
    <3> QED BY <1>5, <1>6, <1>7, <2>1, <3>1 DEF CmdInv, Unborn
  <2>2. CASE r # cur
    <3>1. conf'[r] = conf[r]
      BY <1>5, <2>2, Domains
    <3> QED BY <1>5, <3>1 DEF CmdInv, Obeyed
  <2> QED BY <2>1, <2>2
<1>11. Unborn(Frame)'
  BY <1>3, <1>5 DEF CmdInv, Unborn
<1> QED BY <1>8, <1>9, <1>10, <1>11 DEF CmdInv

LEMMA TimerObeys ==
  ASSUME TypeOK, OneRequestEach, OneTerminal, CmdInv, NEW r \in Routers, NEW c \in Comps,
         TimerFires(r, c)
  PROVE  CmdInv'
<1>1. run' = run /\ UNCHANGED <<routerVars, genOn, commanded>>
  BY DEF TimerFires, histVars
<1>2. Frame' = Frame
  BY <1>1, FrameStays
<1> QED BY <1>1, <1>2, UnseenObeys

LEMMA CmdStep ==
  ASSUME TypeOK, OneRequestEach, OneTerminal, ViewInv, CmdInv, [Next]_vars
  PROVE  CmdInv'
<1>1. ASSUME NEW t \in Threads, Works(t) \/ Accept(t)
      PROVE  CmdInv'
  BY <1>1, PacketObeys, SweepOneObeys, SetStartedObeys, SweepDoneObeys,
    ReadPreviousObeys, ExchangeObeys, FillObeys, StatusObeys, AcceptObeys
  DEF Works, Accept
<1>2. ASSUME UNCHANGED vars
      PROVE  CmdInv'
  <2>1. run' = run /\ UNCHANGED <<routerVars, genOn, commanded>>
    BY <1>2 DEF vars, compVars, histVars
  <2>2. Frame' = Frame
    BY <2>1, FrameStays
  <2> QED BY <2>1, <2>2, UnseenObeys
<1> QED BY <1>1, <1>2, TimerObeys DEF Next, Timers

LEMMA CmdInit ==
  ASSUME Init, OneTerminal
  PROVE  CmdInv
<1>1. Frame = Idle
  <2>1. \A t \in Threads : run[t].pc \notin RequestSteps
    BY IdleServesNot DEF Init
  <2> QED BY <2>1, FrameOfNone DEF Frame
<1>2. Frame.pc = "idle"
  BY <1>1 DEF Idle
<1>3. \A r \in Routers : ~started[r] /\ \A c \in Comps : ~genOn[r][c]
  BY DEF Init, False
<1>4. cur \in Routers /\ ~commanded /\ \A r \in Routers : conf[r].comps = {}
  BY RouterZero DEF Init, NoConfig
<1>5. AsCommanded(Frame) /\ OnlyOld(Frame)
  BY <1>2, <1>3, <1>4 DEF AsCommanded, OnlyOld, IsOn, View, Restarts
<1>6. OldBefore(Frame) /\ SweepFits(Frame) /\ Obeyed(Frame) /\ Unborn(Frame)
  BY <1>2, <1>3, <1>4 DEF OldBefore, SweepFits, Obeyed, Unborn
<1> QED BY <1>5, <1>6 DEF CmdInv

LEMMA CmdMeans ==
  ASSUME TypeOK, OneRequestEach, OneTerminal, CmdInv
  PROVE  CommandedState
<1> SUFFICES ASSUME ~Serving PROVE
        /\ started[cur] = commanded
        /\ \A r \in 0 .. made :
            /\ started[r] => r = cur
            /\ \A c \in conf[r].comps :
                Kind[c] \in Generators => genOn[r][c] = started[r]
  BY DEF CommandedState
<1>1. Frame = Idle
  <2> SUFFICES ASSUME NEW t \in Threads, InRequest(t) PROVE FALSE
    BY FrameOfNone DEF Frame, InRequest
  <2>1. run[t].k \in Controls /\ ctl[run[t].k] = "serving"
    BY DEF TypeOK, Frames, InRequest, OneRequestEach
  <2> QED BY <2>1 DEF Serving
<1>2. Frame.pc = "idle"
  BY <1>1 DEF Idle
<1>3. 0 .. made \subseteq Routers
  BY DEF TypeOK, Routers
<1>4. started[cur] = commanded
  BY <1>2 DEF CmdInv, AsCommanded, IsOn, View, Restarts, TypeOK
<1>5. ASSUME NEW r \in Routers PROVE started[r] => r = cur
  BY <1>2 DEF CmdInv, OnlyOld
<1>6. ASSUME NEW r \in Routers, NEW c \in conf[r].comps, Kind[c] \in Generators
      PROVE  genOn[r][c] = started[r]
  <2>1. genOn[r][c] <=> started[r]
    BY <1>2, <1>6 DEF CmdInv, Obeyed
  <2>2. c \in Comps
    BY Domains
  <2>3. genOn[r][c] \in BOOLEAN
    <3>1. genOn \in PerObject(BOOLEAN)
      BY DEF TypeOK
    <3> QED BY <2>2, <3>1 DEF PerObject
  <2>4. started[r] \in BOOLEAN
    BY Domains
  <2> QED BY <2>1, <2>3, <2>4
<1> QED BY <1>3, <1>4, <1>5, <1>6

\* A node with one terminal obeys it: whenever it serves no request, the router in
\* use is started exactly if the last Start or Stop said so, every generator of
\* every router agrees with its router, and of the routers it replaced none is
\* started - for any number of threads, any configurations and any number of
\* redeployments.
THEOREM TerminalIsObeyed ==
  ASSUME Controls # {}, \A j, k \in Controls : j = k
  PROVE  Spec => []CommandedState
<1> DEFINE Inv == TypeOK /\ OneRequestEach
<1>1. OneTerminal
  BY DEF OneTerminal
<1>2. Init => ViewInv /\ CmdInv
  BY <1>1, ServiceInit, CmdInit
<1>3. Inv /\ ViewInv /\ CmdInv /\ [Next]_vars => ViewInv' /\ CmdInv'
  BY <1>1, ServiceStep, CmdStep
<1>4. Inv /\ CmdInv => CommandedState
  BY <1>1, CmdMeans
<1>5. Spec => []Inv
  BY TypeCorrect, OneRequestPerConnection, PTL
<1> HIDE DEF Inv
<1> QED BY <1>2, <1>3, <1>4, <1>5, PTL DEF Spec
=============================================================================
