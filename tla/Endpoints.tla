----------------------------- MODULE Endpoints -----------------------------
(***************************************************************************)
(* The reader the indexer shares between its background loop and the       *)
(* on-demand route (web/src/lib/indexer/endpoints.ts): it counts failures  *)
(* in a row and moves to the next endpoint at a threshold.  Several reads  *)
(* may be in flight; each belongs to the endpoint it was sent to, while    *)
(* its outcome is counted against whichever endpoint is current.           *)
(***************************************************************************)
EXTENDS Integers, FiniteSets

CONSTANTS
  Readers,     \* the callers: the loop and every request to the route
  Endpoints,   \* how many endpoints are configured
  Threshold    \* failuresBeforeRotate

ASSUME EndpointsAssumption ==
  /\ IsFiniteSet(Readers) /\ Readers # {}
  /\ Endpoints \in Nat \ {0}
  /\ Threshold \in Nat \ {0}

Positions == 0..(Endpoints - 1)

VARIABLES
  index,      \* the current endpoint
  failures,   \* failures in a row
  flying,     \* reader -> the endpoint its read was sent to, or -1
  stale,      \* readers whose read in flight was sent before the last rotation
  borrowed    \* counted failures of reads sent before the last rotation

rotationVars == <<index, failures, flying, stale, borrowed>>

NoRead == -1
InFlight(r) == flying[r] # NoRead

RotationTypeOK ==
  /\ index \in Positions
  /\ failures \in 0..(Threshold - 1)
  /\ flying \in [Readers -> Positions \cup {NoRead}]
  /\ stale \subseteq {r \in Readers : InFlight(r)}
  /\ borrowed \in Nat

RotationInit ==
  /\ index = 0 /\ failures = 0
  /\ flying = [r \in Readers |-> NoRead]
  /\ stale = {} /\ borrowed = 0

\* attempt(): the read goes to the endpoint that is current now.
Send(r) ==
  /\ ~InFlight(r)
  /\ flying' = [flying EXCEPT ![r] = index]
  /\ UNCHANGED <<index, failures, stale, borrowed>>

ReadSucceeds(r) ==
  /\ InFlight(r)
  /\ flying' = [flying EXCEPT ![r] = NoRead]
  /\ failures' = 0 /\ borrowed' = 0
  /\ stale' = stale \ {r}
  /\ UNCHANGED index

\* Mutant: the count is kept across a rotation.
RotateKeeping(r) ==
  /\ index' = (index + 1) % Endpoints
  /\ UNCHANGED failures
  /\ borrowed' = failures
  /\ stale' = {q \in Readers : InFlight(q)} \ {r}

\* Mutant: the count starts again on the same endpoint.
RotateInPlace(r) ==
  /\ failures' = 0 /\ borrowed' = 0
  /\ stale' = {q \in Readers : InFlight(q)} \ {r}
  /\ UNCHANGED index

\* recordFailure() at the threshold: the next endpoint, with a clean count.
Rotate(r) ==
  /\ index' = (index + 1) % Endpoints
  /\ failures' = 0 /\ borrowed' = 0
  /\ stale' = {q \in Readers : InFlight(q)} \ {r}

\* recordFailure() below the threshold.
Count(r) ==
  /\ failures' = failures + 1
  /\ borrowed' = IF r \in stale THEN borrowed + 1 ELSE borrowed
  /\ stale' = stale \ {r}
  /\ UNCHANGED index

ReadFails(r) ==
  /\ InFlight(r)
  /\ flying' = [flying EXCEPT ![r] = NoRead]
  /\ IF failures + 1 < Threshold THEN Count(r) ELSE Rotate(r)

RotationNext == \E r \in Readers : Send(r) \/ ReadSucceeds(r) \/ ReadFails(r)

RotationSpec == RotationInit /\ [][RotationNext]_rotationVars

-----------------------------------------------------------------------------
(***************************************************************************)
(* The current endpoint is judged on its own record: of the failures       *)
(* counted against it, those of reads sent to its predecessor are at most  *)
(* one for each other reader, and no more than were in flight when it      *)
(* became current.                                                         *)
(***************************************************************************)
JudgedOnItsOwn ==
  /\ borrowed <= failures
  /\ borrowed + Cardinality(stale) < Cardinality(Readers)
=============================================================================
