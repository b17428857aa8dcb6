------------------------------ MODULE MCBlocks ------------------------------
(* Instances of BlockManager: two requests that share their first block and *)
(* one that does not; every configuration is an initial state of one run.   *)
EXTENDS BlockManager, TLC

CONSTANTS r1, r2, r3

Streams == r1 :> <<1, 1, 1, 2, 2, 1, 1, 1>> @@ r2 :> <<1, 1, 1, 2, 1, 1, 1>>
             @@ r3 :> <<2, 1, 1, 1, 1, 1>>
Prompts == r1 :> 5 @@ r2 :> 4 @@ r3 :> 3

Mode(connector, cross, replicas, depth, arrive) ==
  [connector |-> connector, cross |-> cross, replicas |-> replicas,
   depth |-> depth, arrive |-> arrive]

\* One batch in flight without a connector; two batches in flight; the
\* synchronous and the asynchronous connector; two replicas with copies
\* between them, without overlap.
PassModes ==
  {Mode("null", FALSE, {0}, 1, Requests), Mode("null", FALSE, {0}, 2, Requests),
   Mode("sync", FALSE, {0}, 1, Requests), Mode("async", FALSE, {0}, 1, {r1, r2}),
   Mode("null", TRUE, {0, 1}, 0, Requests)}

\* Two forwards in flight and one request.
AheadModes == {Mode("null", FALSE, {0}, 2, {r1})}

\* A request whose load is in flight when its allocation fails and is retried.
RaceStreams == r1 :> <<1, 1, 1, 1, 1, 1>> @@ r2 :> <<1, 1, 1, 2, 1>>
                 @@ r3 :> <<2, 2, 2, 2, 2>>
RacePrompts == r1 :> 3 @@ r2 :> 3 @@ r3 :> 2
RaceModes == {Mode("async", FALSE, {0}, 0, Requests)}
=============================================================================
