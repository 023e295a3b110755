------------------------ MODULE MCContinuityLedger ------------------------
(***************************************************************************)
(* Model-checking instance of ContinuityLedger: an ordinary agent that     *)
(* holds its own capabilities, and a general one that holds only           *)
(* operate_internal and is never revoked.                                  *)
(***************************************************************************)
EXTENDS ContinuityLedger, TLC

CONSTANTS Owner, General, inspect, charge, unlisted

MCCapabilities == Owner :> {inspect, charge} @@ General :> {OperateInternal}

MCAgents == {Owner, General}
MCRevocable == {Owner}

MCAutonomous == {inspect}
MCApprovalRequired == {charge}
MCOtherTypes == {unlisted}

Symmetry == Permutations(Actions)

=============================================================================
