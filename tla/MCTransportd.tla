---------------------------- MODULE MCTransportd -----------------------------
(***************************************************************************)
(* UETransportd with two flows, a timeout of two seconds and a cleanup     *)
(* every three.                                                            *)
(***************************************************************************)
EXTENDS UETransportd

CONSTANTS f1, f2
MCFlows == {f1, f2}
=============================================================================
