--------------------------- MODULE MCPageTables ----------------------------
(* PageTables with two spaces, of which the Root Task's has a superpage of  *)
(* the kernel's identity map.                                               *)
EXTENDS PageTables

CONSTANTS root, other

KernelLeaf == {<<root, 1>>}
=============================================================================
