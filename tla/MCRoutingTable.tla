--------------------------- MODULE MCRoutingTable ---------------------------
(* One bucket with room for one of two nodes, one of them reliable.        *)
EXTENDS RoutingTable
=============================================================================
