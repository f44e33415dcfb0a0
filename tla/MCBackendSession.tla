-------------------------- MODULE MCBackendSession --------------------------
(* Two requests, two paths, chunks of zero or one byte.                    *)
EXTENDS BackendSession

CONSTANTS r1, r2, pa, pb
MCRequestIds == {r1, r2}
MCPaths == {pa, pb}
Symmetry == Permutations(MCRequestIds) \cup Permutations(MCPaths)
MCPayloads == {<<>>, <<"x">>}
=============================================================================
