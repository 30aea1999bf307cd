--------------------------- MODULE MCPkgCompiler ---------------------------
EXTENDS PkgCompiler, TLC

\* The processes are alike, and no property distinguishes one.
Symmetry == Permutations(Proc)

=============================================================================
