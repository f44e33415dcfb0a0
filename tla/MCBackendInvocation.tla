------------------------- MODULE MCBackendInvocation -------------------------
(* Outputs below, at and above the limits of two artifacts and two bytes.  *)
EXTENDS BackendInvocation

CONSTANTS pa, pb, pc1
File(p, c) == [path |-> p, content |-> c]
MCSourceSets == { << >>,
                  <<File(pa, <<"x">>), File(pb, <<"y">>)>>,
                  <<File(pa, <<"x", "x">>), File(pb, <<"y">>)>>,
                  <<File(pa, << >>), File(pb, << >>), File(pc1, << >>)>> }
MCContents == { << >>, <<"x">>, <<"y">>, <<"x", "x">> }
MCPaths == {pa, pb, pc1}
=============================================================================
