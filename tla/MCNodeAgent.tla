----------------------------- MODULE MCNodeAgent -----------------------------
EXTENDS NodeAgent, TLC

CONSTANTS a, b

\* Two concurrent placed jobs beside crashes and restarts, two serialized jobs
\* one after the other without a crash, and every other kind alone with one.
MCScenes ==
    {[kinds |-> a :> "placed" @@ b :> "placed", crashes |-> 2],
     [kinds |-> a :> "partitioned" @@ b :> "sharded", crashes |-> 0],
     [kinds |-> a :> "partitioned" @@ b :> "absent", crashes |-> 1],
     [kinds |-> a :> "headless" @@ b :> "absent", crashes |-> 1],
     [kinds |-> a :> "sharded" @@ b :> "absent", crashes |-> 1],
     [kinds |-> a :> "window" @@ b :> "absent", crashes |-> 0]}
=============================================================================
