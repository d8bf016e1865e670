---------------------------- MODULE MCLocalTree ----------------------------
(* LocalTree over the trees and names of MCLocalNode. *)
EXTENDS LocalTree, MCLocalNode
=============================================================================
