------------------------------ MODULE MCDisagg ------------------------------
EXTENDS Disaggregated
CONSTANTS a, b, c

MCRequests == {a, b, c}
MCNeed == (a :> 1) @@ (b :> 1) @@ (c :> 2)
MCShort == {c}

OverlapOnly(arrive) ==
  [cancel |-> FALSE, ttl |-> FALSE, lossy |-> FALSE, overlap |-> TRUE, arrive |-> arrive]

MCModes ==
  { OverlapOnly({a, b, c}),
    [OverlapOnly({a, b}) EXCEPT !.cancel = TRUE],
    [OverlapOnly({a}) EXCEPT !.cancel = TRUE, !.overlap = FALSE],
    [OverlapOnly({a}) EXCEPT !.ttl = TRUE, !.lossy = TRUE, !.cancel = TRUE],
    [OverlapOnly({c}) EXCEPT !.ttl = TRUE, !.lossy = TRUE] }

CancelModes == {[OverlapOnly({a, b}) EXCEPT !.cancel = TRUE, !.overlap = FALSE]}
=============================================================================
