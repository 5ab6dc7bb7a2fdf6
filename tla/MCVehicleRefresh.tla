-------------------------- MODULE MCVehicleRefresh --------------------------
(* How many faults of each kind a run of VehicleRefresh lets in.           *)
EXTENDS VehicleRefresh, TLC

Budget(force, call, trip, provider, loss, restart, overlap, late) ==
    [force |-> force, call |-> call, trip |-> trip, provider |-> provider,
     loss |-> loss, restart |-> restart, overlap |-> overlap, late |-> late]

(* Either events keep clear of chains, with most faults, or a few do not.  *)
WakeBudgets == {Budget(1, 1, 0, 1, 0, 1, 0, 0), Budget(1, 1, 0, 0, 0, 0, 2, 1)}
(* Answers that fail or do not come, then a backoff and a failed trip.     *)
RetriedBudgets == {Budget(0, 2, 0, 0, 0, 0, 0, 0), Budget(0, 1, 0, 0, 1, 0, 0, 0),
                   Budget(0, 0, 1, 1, 1, 0, 0, 0)}
EvidenceBudgets == {Budget(0, 0, 0, 1, 0, 0, 0, 0)}
=============================================================================
