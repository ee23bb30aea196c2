----------------------------- MODULE MCGateways ------------------------------
(* Each adapter alone, and the orchestrator over none, one, two with equal and   *)
(* with different fees, and all of them; fees as the built-in table has them.    *)
EXTENDS Gateways

Alone == {[active |-> g, loaded |-> {g}] : g \in AdapterNames}
Together == {[active |-> Orchestrated, loaded |-> S] :
               S \in {{}, {"doku"}, {"midtrans", "doku"}, {"xendit", "mayar"}, AdapterNames}}
MCDeployments == Alone \cup Together

Table == INSTANCE Router WITH Providers <- <<>>, FallbackPriority <- <<>>
MCProviders == Table!DefaultProviders
MCPriority == Table!DefaultPriority

MCChannels == {"id_qris", "id_virtual_account", "card", "gopay", "id_hosted"}
MCAmounts == {0, 1, 100000}
==============================================================================
