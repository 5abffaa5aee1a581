------------------------------ MODULE MCLinkD --------------------------------
(***************************************************************************)
(* UELinkD on two ports: an entry that asks for everything and one that    *)
(* asks for nothing, edited in any order while the daemon works, dies,     *)
(* is down or starts.  Three edits are enough for two monitors of one port *)
(* with work pending on another.                                           *)
(***************************************************************************)
EXTENDS UELinkD

MCPorts == {"Ethernet0", "Ethernet4"}
MCEntries == {[llr_enable |-> "true", pri_enable |-> "true", fec_mode |-> "rs"],
              [pri_enable |-> "false"]}
=============================================================================
