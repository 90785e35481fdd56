----------------------------- MODULE AddressMap -----------------------------
(***************************************************************************)
(* What a boot promises about memory, without page tables: a translation   *)
(* <<space, page, frame>> exists only because a mapping asked for it, no    *)
(* page of a space gets two frames, and what is mapped stays mapped.        *)
(* PageTable, driven by InitScript, implements it.                          *)
(***************************************************************************)
VARIABLES asked,  \* the translations the mappings so far have asked for
          mapped  \* those that exist

amvars == <<asked, mapped>>

\* A page of a space has one frame.
Single(T) == \A x, y \in T : x[1] = y[1] /\ x[2] = y[2] => x = y

Init == asked = {} /\ mapped = {}

\* A mapping asks for translations of pages nobody asked for before.
Ask ==
  /\ asked \subseteq asked' /\ Single(asked')
  /\ UNCHANGED mapped

\* Some of the missing translations come to exist.
Enter ==
  /\ mapped \subseteq mapped' /\ mapped' \subseteq asked
  /\ UNCHANGED asked

Next == Ask \/ Enter

Spec == Init /\ [][Next]_amvars
=============================================================================
