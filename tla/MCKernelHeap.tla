---------------------------- MODULE MCKernelHeap ----------------------------
(* A header of one byte, pages of five, a heap of three pages; requests    *)
(* that leave a rest too small to split, that split, and that need more    *)
(* than a page.                                                            *)
EXTENDS KernelHeap

MCSizes == {1, 2, 6}
=============================================================================
