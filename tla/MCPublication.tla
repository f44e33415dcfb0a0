---------------------------- MODULE MCPublication ----------------------------
(* Two dispatching runs A and C and a core run B whose outputs overlap.    *)
EXTENDS ArtifactPublication

Art(p, b) == [path |-> p, bytes |-> b]
MCReceipt == [A |-> "receiptA", B |-> "unused", C |-> "receiptC"]
\* B shares a directory and a file with A; C puts a file where they have the
\* directory.
Flat == [A |-> <<Art(<<"d", "x">>, "ax"), Art(<<"z">>, "az")>>,
         B |-> <<Art(<<"d", "y">>, "by"), Art(<<"z">>, "bz")>>,
         C |-> <<Art(<<"d">>, "cd")>>]
\* A is nested two directories deep; C returns a reserved name.
Deep == [A |-> <<Art(<<"d", "e", "x">>, "ax")>>,
         B |-> << >>,
         C |-> <<Art(<<"manifest.json">>, "cm")>>]

\* A visible file of these instances tells whose it is.
ASSUME MCOwnOutputs == OwnOutputs
=============================================================================
