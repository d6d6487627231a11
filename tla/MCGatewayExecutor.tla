------------------------- MODULE MCGatewayExecutor -------------------------
EXTENDS GatewayExecutor, TLC

\* Runs, triggers, packages and callers are interchangeable ids.
Symmetry == Permutations(Runs) \union Permutations(Triggers) \union Permutations(Packages)
            \union Permutations(Requests)
=============================================================================
