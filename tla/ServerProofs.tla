---------------------------- MODULE ServerProofs ----------------------------
(***************************************************************************)
(* The rotating reader, for any number of readers, endpoints and failures  *)
(* to a rotation; and the server as a user of it, who reads the chain in   *)
(* no other way.                                                           *)
(***************************************************************************)
EXTENDS Server, FiniteSetTheorems, TLAPS

RotationInv == RotationTypeOK /\ JudgedOnItsOwn

\* Reads sent before a rotation that one reader brought about are of others.
LEMMA OthersAreFewer ==
    ASSUME NEW r \in Readers, NEW S \in SUBSET (Readers \ {r})
    PROVE  /\ Cardinality(S) \in Nat
           /\ Cardinality(S) < Cardinality(Readers)
<1>1. /\ IsFiniteSet(Readers \ {r})
      /\ Cardinality(Readers \ {r}) = Cardinality(Readers) - 1
  BY FS_RemoveElement, EndpointsAssumption
<1>2. IsFiniteSet(S) /\ Cardinality(S) <= Cardinality(Readers \ {r})
  BY <1>1, FS_Subset
<1>3. Cardinality(S) \in Nat /\ Cardinality(Readers) \in Nat
  BY <1>2, FS_CardinalityType, EndpointsAssumption
<1> QED BY <1>1, <1>2, <1>3

LEMMA RotationStarts == RotationInit => RotationInv
<1> SUFFICES ASSUME RotationInit PROVE RotationInv
  OBVIOUS
<1>1. RotationTypeOK
  BY EndpointsAssumption DEF RotationInit, RotationTypeOK, Positions, NoRead
<1>2. Cardinality(Readers) \in Nat /\ Cardinality(Readers) # 0
  BY EndpointsAssumption, FS_CardinalityType, FS_EmptySet
<1>3. JudgedOnItsOwn
  BY <1>2, FS_EmptySet DEF RotationInit, JudgedOnItsOwn
<1> QED BY <1>1, <1>3 DEF RotationInv

\* Sending moves no count; the reader that sends has no read among the stale.
LEMMA SendKeeps ==
    ASSUME RotationInv, NEW r \in Readers, Send(r)
    PROVE  RotationInv'
<1>1. r \notin stale
  BY DEF Send, RotationInv, RotationTypeOK, InFlight
<1>2. RotationTypeOK'
  BY <1>1, EndpointsAssumption
  DEF Send, RotationInv, RotationTypeOK, InFlight, Positions, NoRead
<1>3. JudgedOnItsOwn'
  BY DEF Send, RotationInv, JudgedOnItsOwn
<1> QED BY <1>2, <1>3 DEF RotationInv

LEMMA SuccessKeeps ==
    ASSUME RotationInv, NEW r \in Readers, ReadSucceeds(r)
    PROVE  RotationInv'
<1>1. RotationTypeOK'
  BY EndpointsAssumption
  DEF ReadSucceeds, RotationInv, RotationTypeOK, InFlight, Positions, NoRead
<1>2. stale \ {r} \in SUBSET (Readers \ {r})
  BY DEF RotationInv, RotationTypeOK
<1>3. JudgedOnItsOwn'
  BY <1>2, OthersAreFewer DEF ReadSucceeds, JudgedOnItsOwn
<1> QED BY <1>1, <1>3 DEF RotationInv

\* Below the threshold a failure counted from among the stale leaves them.
LEMMA CountKeeps ==
    ASSUME RotationInv, NEW r \in Readers, ReadFails(r), failures + 1 < Threshold
    PROVE  RotationInv'
<1>1. Count(r) /\ flying' = [flying EXCEPT ![r] = NoRead]
  BY DEF ReadFails
<1>2. RotationTypeOK'
  BY <1>1, EndpointsAssumption
  DEF Count, RotationInv, RotationTypeOK, InFlight, Positions, NoRead
<1>3. /\ IsFiniteSet(stale) /\ Cardinality(stale) \in Nat
      /\ Cardinality(Readers) \in Nat
  BY EndpointsAssumption, FS_Subset, FS_CardinalityType DEF RotationInv, RotationTypeOK
<1>4. Cardinality(stale \ {r}) =
        IF r \in stale THEN Cardinality(stale) - 1 ELSE Cardinality(stale)
  BY <1>3, FS_RemoveElement
<1>5. JudgedOnItsOwn'
  BY <1>1, <1>3, <1>4 DEF Count, RotationInv, RotationTypeOK, JudgedOnItsOwn
<1> QED BY <1>2, <1>5 DEF RotationInv

\* At the threshold the count starts again, and every read in flight is stale.
LEMMA RotateKeeps ==
    ASSUME RotationInv, NEW r \in Readers, ReadFails(r), ~(failures + 1 < Threshold)
    PROVE  RotationInv'
<1>1. Rotate(r) /\ flying' = [flying EXCEPT ![r] = NoRead]
  BY DEF ReadFails
<1>2. (index + 1) % Endpoints \in Positions
  BY EndpointsAssumption DEF RotationInv, RotationTypeOK, Positions
<1>3. RotationTypeOK'
  BY <1>1, <1>2, EndpointsAssumption
  DEF Rotate, RotationInv, RotationTypeOK, InFlight, NoRead
<1>4. stale' \in SUBSET (Readers \ {r})
  BY <1>1 DEF Rotate
<1>5. JudgedOnItsOwn'
  BY <1>1, <1>4, OthersAreFewer DEF Rotate, JudgedOnItsOwn
<1> QED BY <1>3, <1>5 DEF RotationInv

LEMMA RotationKeeps == RotationInv /\ [RotationNext]_rotationVars => RotationInv'
<1> SUFFICES ASSUME RotationInv, [RotationNext]_rotationVars
             PROVE  RotationInv'
  OBVIOUS
<1>1. ASSUME NEW r \in Readers, Send(r) \/ ReadSucceeds(r) \/ ReadFails(r)
      PROVE  RotationInv'
  BY <1>1, SendKeeps, SuccessKeeps, CountKeeps, RotateKeeps
<1>2. CASE UNCHANGED rotationVars
  BY <1>2 DEF rotationVars, RotationInv, RotationTypeOK, JudgedOnItsOwn, InFlight
<1> QED BY <1>1, <1>2 DEF RotationNext

\* However many readers share the rotation and however their reads interleave,
\* what is counted against an endpoint is its own, but for at most one failure
\* of each other reader (recordFailure, attempt).
THEOREM RotationIsFair == RotationSpec => []JudgedOnItsOwn
<1>1. RotationInv => JudgedOnItsOwn
  BY DEF RotationInv
<1> QED BY <1>1, RotationStarts, RotationKeeps, PTL DEF RotationSpec

-----------------------------------------------------------------------------
\* Every step of the server is a step of the rotation or leaves it alone.
LEMMA ServerStepRotates == [Next]_vars => [RotationNext]_rotationVars
<1> SUFFICES ASSUME [Next]_vars PROVE [RotationNext]_rotationVars
  OBVIOUS
<1>1. ASSUME NEW r \in Readers, SyncStep(r) PROVE [RotationNext]_rotationVars
  <2>1. CASE BeginSync(r)
    BY <2>1 DEF BeginSync, RotationNext
  <2>2. CASE HeadAnswered(r)
    BY <2>2 DEF HeadAnswered, RotationNext
  <2>3. CASE LogsAnswered(r)
    BY <2>3 DEF LogsAnswered, RotationNext
  <2>4. CASE ReadRefused(r)
    BY <2>4 DEF ReadRefused, RotationNext
  <2>5. CASE Plan(r)
    BY <2>5 DEF Plan, RotationNext
  <2>6. CASE Persist(r)
    BY <2>6 DEF Persist
  <2> QED BY <1>1, <2>1, <2>2, <2>3, <2>4, <2>5, <2>6 DEF SyncStep
<1>2. CASE Migration
  BY <1>2 DEF Migration
<1>3. CASE \E b \in Boots : EnsureSyncLoop(b)
  BY <1>3 DEF EnsureSyncLoop
<1>4. CASE \E q \in Requests : RequestStep(q)
  BY <1>4 DEF RequestStep, Ask, IndexReadEnds
<1>5. CASE DatabaseChanges
  BY <1>5 DEF DatabaseChanges
<1>6. CASE \E e \in Positions, to \in {"nothing", "logs", "all"} : EndpointChanges(e, to)
  BY <1>6 DEF EndpointChanges
<1>7. CASE UNCHANGED vars
  BY <1>7 DEF vars
<1> QED BY <1>1, <1>2, <1>3, <1>4, <1>5, <1>6, <1>7 DEF Next

\* The server, its loop, its routes, its faults and its database included, is
\* a client of the rotating reader that keeps to its interface.
THEOREM ServerRotates == Spec => RotationSpec
<1>1. Init => RotationInit
  BY DEF Init
<1> QED BY <1>1, ServerStepRotates, PTL DEF Spec, RotationSpec

\* So the endpoints of a running server are judged on their own records.
THEOREM ServerJudgesFairly == Spec => []JudgedOnItsOwn
BY RotationIsFair, ServerRotates, PTL
=============================================================================
