-------------------------- MODULE MCChannelRegistry --------------------------
(* ChannelRegistry for TLC: one shard holds every name of the instance; the *)
(* stats channel has one place and the others two; connection c1 may hold   *)
(* two channels and the others one, so that both limits are met and missed. *)
EXTENDS ChannelRegistry, TLC

CONSTANTS sh1, c1

MCShards == {sh1}
MCShardOf == [n \in Names |-> sh1]
MCMaxSubs == [n \in Names |-> IF n = StatsName THEN 1 ELSE 2]
MCMaxChannels == [c \in Conns |-> IF c = c1 THEN 2 ELSE 1]

(* Identities are interchangeable; only the safety run uses this.          *)
MCSymmetry == Permutations(Chans) \cup Permutations(Sweepers)
=============================================================================
