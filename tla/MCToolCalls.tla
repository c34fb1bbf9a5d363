---------------------------- MODULE MCToolCalls ----------------------------
\* Values of the constants of ToolCalls for TLC.
EXTENDS ToolCalls, TLC

MCTypeOf == ("vm" :> "victoriametrics") @@ ("am" :> "alertmanager")
                @@ ("amro" :> "alertmanager")

MCLogsAM == ("vl" :> "victorialogs") @@ ("am" :> "alertmanager") @@ ("amro" :> "alertmanager")
MCOneAM  == "am" :> "alertmanager"

\* What others made is on the Alertmanager that is not to be written to.
MCOthersOn   == [o \in Others |-> "amro"]
MCOthersOnAM == [o \in Others |-> "am"]

MCNoOthers == [o \in {} |-> "am"]

\* No configured name, and none that agents make up, contains a word that
\* classifyResult looks for; outside errors may say "forbidden".
MCPlainNames == [d \in Names \cup AskedNames |-> {}]
MCNoWords == {{}}
MCForbidden == {{}, {"forbidden"}}

\* A metrics datasource whose name happens to say that it is read-only.
MCTellingType  == ("vm-readonly" :> "victoriametrics")
MCTellingNames == [d \in Names \cup AskedNames |-> IF d = "vm-readonly" THEN {"readonly"} ELSE {}]

CallSymmetry == Permutations(Calls)
=============================================================================
