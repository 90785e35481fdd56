------------------------------- MODULE MCBoot -------------------------------
(* Boot on pages of 4 words' worth of everything: a 64k page of 2, a 1m      *)
(* section of 4, a level-0 entry of 8 and an address space of 16 pages.      *)
EXTENDS Boot, TLC

MCSize == <<2, 4, 8, 16>> @@ (0 :> 1)
MCTableBytes == (2 :> 8) @@ (3 :> 8)
MCObjSize == [space |-> 3, tcb |-> 2, l0 |-> 2]
\* segment_list_t counts num_segments and one segment of two words, and a
\* pointer for each further segment.
MCListBytes(n) == 3 + (n - 1)

M(phys, virt, pages) == [phys |-> phys, virt |-> virt, pages |-> pages, mapped |-> TRUE]
S(n, caps, maps) ==
  [threads |-> n, plat |-> FALSE, irqs |-> 0, mutexes |-> 0, caps |-> caps, maps |-> maps]
D(size, list) == <<[heap |-> size, spaces |-> list]>>

MCDescriptions ==
  \* Two spaces: a section, a page placed by the layout, and a region over the
  \* border of two level-0 entries; caps both ways.
  {D(h, <<S(2, <<<<2, 1>>, <<1, 2>>>>, <<M(4, 4, 4), M(-1, 2, 1)>>),
          [S(2, <<<<1, 1>>>>, <<M(2, 6, 3)>>) EXCEPT !.plat = TRUE, !.irqs = 1]>>) :
     h \in {2 * n : n \in 1 .. 14}}
  \* More threads than UTCBs, and a mapping of two sections and a 64k page.
  \cup {D(h, <<[S(4, <<>>, <<M(0, 0, 10), [M(12, 12, 1) EXCEPT !.mapped = FALSE]>>)
                EXCEPT !.mutexes = 1]>>) : h \in {16, 20, 28}}
  \* A space without segments, and as many threads as a block holds.
  \cup {D(28, <<S(5, <<>>, <<>>)>>)}
  \* Pages whose frames are not aligned as they are.
  \cup {D(h, <<S(1, <<>>, <<M(3, 2, 2), M(9, 8, 5)>>)>>) : h \in {24, 28}}
=============================================================================
