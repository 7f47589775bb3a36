--------------------------- MODULE MCKernelPaging ---------------------------
EXTENDS KernelPaging

(* From memory that ends in the middle of the heap to memory to spare. *)
Sizes == 10 .. 52
=============================================================================
