---------------------------- MODULE MCAgentAuth ----------------------------
\* Values of the constants of AgentAuth for TLC.
EXTENDS AgentAuth, TLC

\* Two files with a token each; "t3" is an inline one.
MCFirst == ("f1" :> "t1") @@ ("f2" :> "t2")

\* Everybody's scope and group, a lacking group, a forgery.
MCScopes == ("jwt" :> {"mcp"}) @@ ("poor" :> {"mcp"}) @@ ("forged" :> {"mcp"})
MCGroups == ("jwt" :> {"ops", "dev"}) @@ ("poor" :> {"dev"}) @@ ("forged" :> {"ops", "dev"})

RequestSymmetry == Permutations(Requests)
=============================================================================
