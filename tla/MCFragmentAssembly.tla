------------------------- MODULE MCFragmentAssembly -------------------------
(***************************************************************************)
(* Messages for FragmentAssembly, with fragments of two bytes.               *)
(***************************************************************************)
EXTENDS FragmentAssembly

\* An exact multiple, one above the size limit that uses the last index, the empty
\* message and an odd length.
Mixed == <<6, 7, 0, 3>>

\* Three messages of two fragments.
Alike == <<3, 3, 3>>
=============================================================================
