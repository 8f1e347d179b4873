---------------------------- MODULE TenantRotation ----------------------------
(***************************************************************************)
(* Which tenant a worker serves: run_once reads the tenants with queued or *)
(* running jobs in order, starts at an offset it advances on every poll,   *)
(* and claims from the first tenant that has an eligible job.  Other       *)
(* workers and clients change both sets between polls.  What a claim does  *)
(* to the rows of the tenant is JobQueue's.                                *)
(***************************************************************************)
EXTENDS Integers, FiniteSets, FiniteSetsExt, SequencesExt

CONSTANT Tenants   \* tenant ids, ordered as the query orders them

ASSUME TenantsAssumption == Tenants \subseteq Nat /\ IsFiniteSet(Tenants)

VARIABLES
  active,     \* tenants with queued or running jobs
  eligible,   \* tenants with a job that can be claimed now
  offset,     \* _tenant_offset
  passed      \* tenant -> polls in a row that found it eligible and served
              \* another one, while the set of active tenants was the same

rotationVars == <<active, eligible, offset, passed>>

RotationInit ==
  /\ active = {}
  /\ eligible = {}
  /\ offset = 0
  /\ passed = [t \in Tenants |-> 0]

\* Wrong variant for a mutation run: the offset is counted and never used.
NotRotated(values, by) == values

\* _rotate
Rotated(values, by) ==
  LET n == by % Len(values)
  IN SubSeq(values, n + 1, Len(values)) \o SubSeq(values, 1, n)

Sorted(S) == CHOOSE s \in SetToSeqs(S) : \A i, j \in DOMAIN s : i < j => s[i] < s[j]

Ordered == Rotated(Sorted(active), offset)
Served == IF eligible = {} THEN {} ELSE {SelectInSeq(Ordered, LAMBDA t : t \in eligible)}

\* run_once; the claimed job may have been the tenant's last eligible one.
PollTenants ==
  /\ active # {}
  /\ offset' = (offset + 1) % Cardinality(active)
  /\ LET served == {Ordered[i] : i \in Served}
     IN /\ eligible' \in {eligible, eligible \ served}
        /\ passed' = [t \in Tenants |->
             IF t \in eligible \ served THEN passed[t] + 1 ELSE 0]
  /\ UNCHANGED active

\* Jobs are submitted, end, wait for their retry, and become eligible again.
JobsChange ==
  /\ active' \in SUBSET Tenants
  /\ eligible' \in SUBSET active'
  /\ <<active', eligible'>> # <<active, eligible>>
  /\ passed' = [t \in Tenants |->
       IF active' = active /\ t \in eligible \cap eligible' THEN passed[t] ELSE 0]
  /\ UNCHANGED offset

RotationNext == PollTenants \/ JobsChange

RotationSpec == RotationInit /\ [][RotationNext]_rotationVars
-----------------------------------------------------------------------------
\* While the set of active tenants stays the same, no tenant with an eligible
\* job is passed over by a worker as many polls in a row as there are active
\* tenants, however many jobs the others have.  (When the set changes between
\* polls the offset loses its meaning and a tenant may be passed over longer.)
TenantServedInTurn ==
  \A t \in Tenants : passed[t] > 0 => passed[t] < Cardinality(active)
=============================================================================
