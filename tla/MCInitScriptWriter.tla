------------------------- MODULE MCInitScriptWriter -------------------------
(* Systems with up to four unplaced sections, on a page of 32 words.        *)
EXTENDS InitScriptWriter

M(phys, virt) == [phys |-> phys, virt |-> virt, pages |-> 1, mapped |-> TRUE]
S(n, caps, maps) ==
  [threads |-> n, plat |-> FALSE, irqs |-> 0, mutexes |-> 0, caps |-> caps, maps |-> maps]

MCDescriptions ==
  {<<[heap |-> 8, spaces |-> <<S(n, <<>>, [k \in 1 .. m |-> M(Unplaced, k)])>>]>> :
     n \in 1 .. 2, m \in 1 .. 4}
=============================================================================
