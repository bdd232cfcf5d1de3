----------------------------- MODULE SharingProofs -----------------------------
(***************************************************************************)
(* What the run of MCSharing checks of the leases, for every value of the  *)
(* constants: its behaviours are behaviours of Leases.                     *)
(***************************************************************************)
EXTENDS MCSharing, LeasesProofs

\* The parts of the composition that lease accounts take steps of Leases; others stutter.
LEMMA SharingLeases == MCSpec => LeasesSpec
<1>1. MCInit => LeasesInit
  BY DEF MCInit
<1>2. [MCNext]_mcVars => [LeasesNext]_leaseVars
  BY Zenon DEF MCNext, mcVars, LeasesNext
<1> QED BY <1>1, <1>2, PTL DEF MCSpec, LeasesSpec

\* Attempts of workers run on accounts that are reserved for them; capacity comes back when
\* they end, and what an operator revoked stays out (accounts/remote.rs,
\* federation/account_control.rs).
THEOREM LeasesSafeAlways == MCSpec => LeasesSafe
<1>1. LeasesInv => (part \in {"lease", "leases"} => LeasesInv)
  OBVIOUS
<1> QED BY <1>1, SharingLeases, LeasesInvAlways, PTL DEF LeasesSafe
================================================================================
