--------------------------- MODULE MCSemanticEdges ---------------------------
(***************************************************************************)
(* A root and one persistent child with four requests between them.         *)
(***************************************************************************)
EXTENDS SemanticEdges

CONSTANT c1

MCChildren == {c1}
MCRoot == {"root"}
=============================================================================
