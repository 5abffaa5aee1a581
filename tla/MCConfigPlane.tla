---------------------------- MODULE MCConfigPlane -----------------------------
(***************************************************************************)
(* UEConfigPlane on two interfaces.  Besides the command line an operator  *)
(* writes an entry with LLR whose list of versions has a blank, and one    *)
(* without LLR and with paths for one of two versions.  The ECMP groups    *)
(* are good, bad, or raise.                                                *)
(***************************************************************************)
EXTENDS UEConfigPlane

MCInterfaces == {"Ethernet0", "Ethernet4"}
MCOperatorEntries ==
  {[ue_enable |-> "true", versions |-> {"4", " 6"}, max_paths |-> {"4"},
    llr_enable |-> "true"],
   [ue_enable |-> "true", versions |-> {"4", "6"}, max_paths |-> {"4"},
    llr_enable |-> "false"]}
MCOperatorGlobals == {[enable |-> "true", versions |-> {"4", " 6"}]}
MCOtherTables ==
  {[af |-> {"ipv4", "ipv6"}, groups |-> groups, rdma |-> {"global"}] :
     groups \in {[ipv4 |-> "good", ipv6 |-> "good"], [ipv4 |-> "bad", ipv6 |-> "good"],
                 [ipv4 |-> "good", ipv6 |-> "flat"]}}
MCLlrEntries == {[enabled |-> TRUE], [enabled |-> FALSE]}
=============================================================================
