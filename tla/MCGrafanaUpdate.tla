-------------------------- MODULE MCGrafanaUpdate --------------------------
(* Small lists for the model checker: blank and repeated lines, a dns node   *)
(* that the shard's list lacks, one that it has, a node that moves.          *)
EXTENDS GrafanaUpdate

MCShards     == <<"shard0">>
MCServices   == <<"multisig", "explorerv2">>

MCMainnet(nodes, dns, multisig, explorer) ==
  [f \in Files("mainnet") |->
     CASE f = Nodes("shard0")   -> nodes
       [] f = Dns("shard0")     -> dns
       [] f = Of("multisig")    -> multisig
       [] f = Of("explorerv2")  -> explorer
       [] f = Api               -> explorer]
MCTestnet(nodes) == [f \in Files("testnet") |-> nodes]

MCBefore == [mainnet |-> MCMainnet(<<"a", "b", "a">>, <<"b", "d">>, <<"m">>, <<>>),
             testnet |-> MCTestnet(<<"a">>)]
MCAfter  == [mainnet |-> MCMainnet(<<"b", "", "c">>, <<"c">>, <<"m", "e">>, <<"e">>),
             testnet |-> MCTestnet(<<"t", "t">>)]
MCListings == [mode \in {"mainnet", "testnet"} |-> {MCBefore[mode], MCAfter[mode]}]
=============================================================================
