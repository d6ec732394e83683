--------------------------- MODULE MCClientAccess ---------------------------
(* ClientAccess on small sets of nodes.                                    *)
EXTENDS ClientAccess, TLC

NodeSymmetry == Permutations(Node)
=============================================================================
