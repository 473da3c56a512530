---------------------------- MODULE MCFindServer ----------------------------
(* Three servers, two keys that rank them differently, every mode, and       *)
(* affinity to one, two or all servers with and without a threshold.         *)
EXTENDS FindServer

Rank(k) == IF k = "k1" THEN <<1, 3, 2>> ELSE <<2, 1, 3>>

MCRendezvous(k, S) ==
  LET Weighs(seed) == seed \in S
      Weightless(seed) == seed \notin S
  IN SelectSeq(Rank(k), Weighs) \o SelectSeq(Rank(k), Weightless)

Config(mode, maxServers, threshold, weighted) ==
  [mode |-> mode, maxServers |-> maxServers, threshold |-> threshold,
   weighted |-> weighted]

MCConfigs ==
  {Config("roundrobin", 1, 0, {1, 2}), Config("leastconn", 1, 0, {1}),
   Config("affinitykey", 0, 1, {1, 2}), Config("affinitykey", -1, 1, Server),
   Config("affinitykey", 4, -1, Server), Config("affinitykey", 2, 0, Server)}

=============================================================================
