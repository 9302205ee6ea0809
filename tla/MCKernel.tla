------------------------------ MODULE MCKernel ------------------------------
(* A few cells, with every kind of trouble once or twice.                    *)
EXTENDS Kernel
=============================================================================
