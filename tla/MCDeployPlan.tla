---------------------------- MODULE MCDeployPlan ----------------------------
(***************************************************************************)
(* Schemas for DeployPlan: all orders of the maps of three components over *)
(* two nodes with or without reserve nodes, and all short sequences of maps*)
(* right or wrong, with a tag nobody knows and a node nobody described; and *)
(* application schemas with such a tag in any place.                        *)
(***************************************************************************)
EXTENDS DeployPlan

CONSTANTS a, b, c, x, y, z

Instances == <<[tag |-> "instance", comp |-> a], [tag |-> "instance", comp |-> b],
               [tag |-> "instance", comp |-> c]>>
Apps(n) == UNION {{Instances \o s : s \in [1 .. k -> Connection]} : k \in 0 .. n}
Unknown == [tag |-> "other"]
BrokenApps == {InsertAt(s, i, Unknown) : s \in Apps(1), i \in 1 .. 4}

NodeTag(n, p) == [tag |-> "node", node |-> n, pair |-> p]
MapTag(d, n) == [tag |-> "map", comp |-> d, node |-> n]

TwoNodes == {<<NodeTag(x, p), NodeTag(y, q)>> : p, q \in BOOLEAN}

\* Every component mapped once, to x or y, in any order
Orders == {s \in [1 .. 3 -> Comps] : \A i, j \in 1 .. 3 : s[i] = s[j] => i = j}
RightMaps == {[i \in 1 .. 3 |-> MapTag(s[i], f[s[i]])] :
                 s \in Orders, f \in [Comps -> {x, y}]}
RightSchemas == {n \o m : n \in TwoNodes, m \in RightMaps}

\* Up to three tags after the nodes, of any kind
AnyTag == {MapTag(d, n) : d \in Comps, n \in {x, y, z}}
          \cup {NodeTag(x, FALSE), NodeTag(x, TRUE), Unknown}
AnyNodes == {<<NodeTag(x, p), NodeTag(y, FALSE)>> : p \in BOOLEAN}
AnySchemas == {n \o m : n \in AnyNodes,
                        m \in UNION {[1 .. k -> AnyTag] : k \in 0 .. 3}}

\* Every right deployment with up to two connections, every deployment with one,
\* and right deployments of broken applications
AllCases == (Apps(2) \X RightSchemas) \cup (Apps(1) \X AnySchemas)
            \cup (BrokenApps \X RightSchemas)
=============================================================================
