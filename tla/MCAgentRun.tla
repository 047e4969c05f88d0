---------------------------- MODULE MCAgentRun ----------------------------
EXTENDS AgentRun, TLC

\* A request that follows the newest ingestion run and its retry under one key, a
\* pinned request of the same key, and a keyless request of somebody else.
MCForm == { [user |-> "ann", key |-> "k", query |-> "q", pin |-> 0, needs |-> {"lexical"}],
            [user |-> "ann", key |-> "k", query |-> "q", pin |-> 1, needs |-> {"lexical", "vector"}],
            [user |-> "bob", key |-> NoKey, query |-> "q", pin |-> 0, needs |-> {"lexical"}] }
MCUser == {"ann", "bob"}
\* Either what requests resolve moves while a client pages, or claims are written.
MCBounds == { [moves |-> 2, updates |-> 1, writes |-> 0, lists |-> 1],
              [moves |-> 0, updates |-> 3, writes |-> 3, lists |-> 0] }
Symmetry == Permutations(Attempt)
=============================================================================
