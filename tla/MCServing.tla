----------------------------- MODULE MCServing -----------------------------
EXTENDS Serving
CONSTANTS a, b, c

MCRequests == {a, b, c}
MCPrompt == (a :> 2) @@ (b :> 3) @@ (c :> 2)
MCGoal == (a :> 5) @@ (b :> 4) @@ (c :> 4)

Config(arrive, pool, tokens) ==
  [overlap |-> TRUE, inflight |-> FALSE, chunked |-> FALSE, onload |-> FALSE,
   abandon |-> FALSE, pct |-> 90, pool |-> pool, tokens |-> tokens,
   strategy |-> "per_replica", arrive |-> arrive, grammar |-> {}]

MCModes ==
  { Config({a, b, c}, 6, 4),
    [Config({a, b, c}, 6, 4) EXCEPT !.overlap = FALSE, !.strategy = "decode_first"],
    [Config({a, b, c}, 6, 1) EXCEPT !.inflight = TRUE],
    [Config({a, b}, 9, 2) EXCEPT !.chunked = TRUE, !.abandon = TRUE],
    [Config({a, b}, 6, 4) EXCEPT !.onload = TRUE, !.abandon = TRUE, !.pct = 101],
    [Config({a, b}, 6, 4) EXCEPT !.grammar = {b}, !.abandon = TRUE],
    Config({a, b}, 2, 4) }

\* The default threshold of the TG priority rule, with chunked prefill.
ChunkModes == {[Config({a, b}, 5, 2) EXCEPT !.chunked = TRUE]}

\* A strategy with a priority override.
OverrideModes == {[Config({a, b}, 4, 4) EXCEPT !.strategy = "balanced"]}
=============================================================================
