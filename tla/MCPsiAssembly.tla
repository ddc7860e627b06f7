---------------------------- MODULE MCPsiAssembly ----------------------------
(* Sections that end in the packet they begin in and sections that do not. *)
EXTENDS PsiAssembly

MCLengths == {1, 2, 5}
=============================================================================
