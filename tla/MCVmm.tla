------------------------------- MODULE MCVmm --------------------------------
(* Two programs, in pages of two bytes.  Text and data of three pages may   *)
(* be well made, with the stack's header, which has no address, behind      *)
(* them; or the data begin in the middle of a page, in front of one that    *)
(* is mapped or of one that is not; or the data are in the page of the      *)
(* text; or an address is the kernel's.  The memory is enough for one and   *)
(* a heap of two pages, and runs out with both; there are blocks for all.   *)
EXTENDS Vmm

MCText == [vaddr |-> 4, memSize |-> 3, offset |-> 1]
MCStack == [vaddr |-> 0, memSize |-> 0, offset |-> 0]
MCAt(vaddr, memSize) == [vaddr |-> vaddr, memSize |-> memSize, offset |-> 7]

MCPrograms ==
    {<<MCText, MCAt(8, 2), MCStack, MCAt(4, 2)>>,       \* well made
     <<MCAt(6, 2), [MCAt(5, 1) EXCEPT !.offset = 1]>>,  \* clears the next page
     <<MCText, MCAt(7, 1)>>,                            \* the next page is not mapped
     <<MCText, MCAt(6, 1)>>,                            \* the same page
     <<MCText, MCAt(2, 1), MCAt(8, 2)>>}                \* the kernel's
=============================================================================
