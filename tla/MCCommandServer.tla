-------------------------- MODULE MCCommandServer --------------------------
EXTENDS CommandServer, TLC
CONSTANTS c1, c2
MCSymmetry == Permutations({c1, c2})
Op(k, s, C) == [kind |-> k, stream |-> s, channels |-> C]
MCOperations(S) ==
  {Op(k, s, C) : k \in {"link", "unlink", "rm"}, s \in S, C \in {{0}, {1}, 0..3}}
  \cup {Op("once", "cap", {0}), Op("once", "cap", {1}),
        Op("suspend", "cap", {0}), Op("add", "rtsp", {1})}
MCPlan(d, S, C, T, O, n) ==
  [dual |-> d, streams |-> S, channels |-> C, threads |-> T, operations |-> O,
   commands |-> n]
MCPlans ==
  {MCPlan(TRUE, Streams, {0, 1}, {"terminal"}, MCOperations(Streams), 3),
   MCPlan(FALSE, Streams, {0, 1}, {"terminal"}, MCOperations(Streams), 2),
   MCPlan(TRUE, {"rec", "rtsp"}, {1, 2, 3}, {"terminal"}, MCOperations({"rec"}), 2),
   MCPlan(TRUE, {"rec"}, {0, 1}, Threads,
          {Op("unlink", "rec", 0..3), Op("link", "rec", {0}), Op("rm", "rec", {1})}, 2)}
=============================================================================
