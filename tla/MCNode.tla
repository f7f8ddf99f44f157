------------------------------- MODULE MCNode -------------------------------
(***************************************************************************)
(* Values for the constants of Node: deployments of small graphs, with the *)
(* components and connections the node tests use (a generator feeding a    *)
(* retranslator that feeds a terminator), a second one that reuses a name, *)
(* drops components and sends to another node, and smaller ones for the    *)
(* runs without a bound on packets.                                        *)
(***************************************************************************)
EXTENDS NodeService, TLC

CONSTANTS t1, t2, k1, k2, p1

\* Names in the order of std::map
Gen == 1
Rel == 2
Cal == 3
End == 4
MCComps == {Gen, Rel, Cal, End}

PlainKind == Gen :> "generator" @@ Rel :> "retranslator" @@ Cal :> "calc" @@ End :> "history"
\* For the run without a bound on packets: Rel is a timed generator
MixedKind == [PlainKind EXCEPT ![Rel] = "timed_generator"]

To(c, p) == <<[dest |-> c, port |-> p]>>
Nowhere == [p \in OutPorts |-> <<>>]
NoRemote == [p \in OutPorts |-> 0]

Graph(comps, local, remote) ==
    [comps  |-> comps,
     local  |-> local @@ [c \in MCComps |-> Nowhere],
     remote |-> remote @@ [c \in MCComps |-> NoRemote]]

\* Gen.0 -> Rel.0, Gen.1 -> End.0, Rel.0 -> End.1
Pipeline ==
    Graph({Gen, Rel, End},
          (Gen :> (0 :> To(Rel, 0) @@ 1 :> To(End, 0)))
          @@ (Rel :> (0 :> To(End, 1) @@ 1 :> <<>>)),
          <<>>)

\* Gen.0 -> Cal.0 and Cal.1, Gen.1 -> another node; Cal.0 -> another node
Outward ==
    Graph({Gen, Cal},
          Gen :> (0 :> (To(Cal, 0) \o To(Cal, 1)) @@ 1 :> <<>>),
          (Gen :> (0 :> 0 @@ 1 :> 1)) @@ (Cal :> (0 :> 1 @@ 1 :> 0)))

\* Gen.0 -> End.0
Pair == Graph({Gen, End}, Gen :> (0 :> To(End, 0) @@ 1 :> <<>>), <<>>)

\* Gen.0 -> another node
Alone == Graph({Gen}, <<>>, Gen :> (0 :> 1 @@ 1 :> 0))

\* Rel.0 -> another node
Ticking == Graph({Rel}, <<>>, Rel :> (0 :> 1 @@ 1 :> 0))

BothConfigs == {Pipeline, Outward}
PairOrTicking == {Pair, Ticking}
OneAlone == {Alone}

SymThreads == Permutations(Threads)
=============================================================================
