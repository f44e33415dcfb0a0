------------------------------ MODULE MCRepository ------------------------------
(***************************************************************************)
(* The flows of RepositoryFlows and the pull requests of GateFlows, in one *)
(* run of TLC: a behaviour is one flow's or one gate's.                    *)
(***************************************************************************)
EXTENDS RepositoryFlows

CONSTANTS Gates, MaxGateEdits, MaxGateMerges

VARIABLES gate, trunk, branch, gateEdits, gateMerges, probe

Pulls == INSTANCE GateFlows

gateVars == <<gate, trunk, branch, gateEdits, gateMerges, probe>>

GateIdle ==
    /\ gate = Idle /\ trunk = Idle /\ branch = Idle
    /\ gateEdits = Idle /\ gateMerges = Idle /\ probe = Idle

MCInit ==
    \/ FlowInit /\ GateIdle
    \/ /\ chosen = "gate" /\ Pulls!Init
       /\ LitIdle /\ CoreIdle /\ LoopIdle /\ DomainIdle /\ MatrixIdle

MCNext ==
    \/ FlowNext /\ UNCHANGED gateVars
    \/ chosen = "gate" /\ Pulls!Next /\ UNCHANGED flowVars

MCSpec == MCInit /\ [][MCNext]_<<flowVars, gateVars>>

-----------------------------------------------------------------------------
(***************************************************************************)
(* Whatever sequence of pull requests a gate let through, main is sound:   *)
(* it satisfies the relation the gate is there for, stated over the tree   *)
(* itself and not over the gate's snapshot, diff or order of checks.       *)
(* (Evaluate and Main of the gates)                                        *)
(***************************************************************************)
MergedIsSound == chosen = "gate" => Pulls!MergedIsSound

(***************************************************************************)
(* No pull request authorizes itself: what a merge changes was permitted   *)
(* by main as it stood before, and what main had is not lost.  (the        *)
(* ratchets, which read the base revision from git)                        *)
(***************************************************************************)
MergeIsAuthorized == [][chosen = "gate" => Pulls!AuthorizedStep]_trunk

(***************************************************************************)
(* Every probe of a gate's selftest bites: the tampered tree is refused,   *)
(* and with the code the probe names, on the tree it was written for.      *)
(* (--selftest)                                                            *)
(***************************************************************************)
ProbesBite == chosen = "gate" => Pulls!ProbesBite
=============================================================================
