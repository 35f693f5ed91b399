----------------------------- MODULE PollProofs -----------------------------
(***************************************************************************)
(* A poll, for every set of voters, configuration and bound: its types,    *)
(* its deposits, its end, and its power.                                   *)
(*                                                                         *)
(* The argument goes in layers, each inductive relative to the ones below: *)
(* Types gives every variable its type, with integers where the handlers   *)
(* subtract; Modes says which of the two ballot mechanisms may have left   *)
(* anything behind in a phase; StakeInv relates deposits to ballots.       *)
(* The verdict, the books of power and the counts follow, and last, from   *)
(* all of them, that the poll's page is right and that no poll gets stuck. *)
(***************************************************************************)
EXTENDS PollPage, FunctionTheorems, FiniteSetTheorems, TLAPS

-----------------------------------------------------------------------------
(***************************************************************************)
(* What Total obeys: the sum of a function over a finite set is a natural, *)
(* depends only on the values over that set, and moves by f[x] when x      *)
(* joins or leaves the set or when the function is updated at x.           *)
(***************************************************************************)

\* The units of one element are as many as the amount they stand for.
LEMMA UnitsOfOne ==
    ASSUME NEW x, NEW n \in Nat
    PROVE  /\ IsFiniteSet({x} \X (1 .. n))
           /\ Cardinality({x} \X (1 .. n)) = n
<1>1. IsFiniteSet({x}) /\ Cardinality({x}) = 1
  BY FS_Singleton
<1>2. IsFiniteSet(1 .. n) /\ Cardinality(1 .. n) = n
  BY FS_Interval
<1>3. /\ IsFiniteSet({x} \X (1 .. n))
      /\ Cardinality({x} \X (1 .. n)) = Cardinality({x}) * Cardinality(1 .. n)
  BY <1>1, <1>2, FS_Product
<1>4. 1 * n = n
  OBVIOUS
<1> QED
  BY <1>1, <1>2, <1>3, <1>4

\* Finitely many elements have finitely many units.
LEMMA UnitsFinite ==
    ASSUME NEW S, IsFiniteSet(S), NEW f, \A x \in S : f[x] \in Nat
    PROVE  IsFiniteSet(Units(f, S))
<1> DEFINE g == [x \in S |-> {x} \X (1 .. f[x])]
           T == {{x} \X (1 .. f[x]) : x \in S}
<1>1. g \in Surjection(S, T)
  BY DEF Surjection
<1>2. IsFiniteSet(T)
  BY <1>1, FS_Surjection
<1>3. ASSUME NEW x \in S
      PROVE  IsFiniteSet({x} \X (1 .. f[x]))
  <2>1. f[x] \in Nat
    OBVIOUS
  <2> QED  BY <2>1, UnitsOfOne
<1>4. \A u \in T : IsFiniteSet(u)
  BY <1>3
<1> QED
  BY <1>2, <1>4, FS_UNION DEF Units

\* A sum of naturals is a natural; nothing sums to zero.
LEMMA TotalType ==
    ASSUME NEW S, IsFiniteSet(S), NEW f, \A x \in S : f[x] \in Nat
    PROVE  Total(f, S) \in Nat
BY UnitsFinite, FS_CardinalityType DEF Total

LEMMA TotalEmpty ==
    ASSUME NEW f
    PROVE  Total(f, {}) = 0
<1>1. Units(f, {}) = {}
  BY DEF Units
<1> QED
  BY <1>1, FS_EmptySet DEF Total

\* Only the values over S matter.
LEMMA TotalCongruence ==
    ASSUME NEW S, NEW f, NEW g, \A x \in S : f[x] = g[x]
    PROVE  Total(f, S) = Total(g, S)
<1>1. Units(f, S) = Units(g, S)
  BY DEF Units
<1> QED
  BY <1>1 DEF Total

\* A new element adds its amount.
LEMMA TotalAdd ==
    ASSUME NEW S, IsFiniteSet(S), NEW f, NEW y, y \notin S,
           \A x \in S \cup {y} : f[x] \in Nat
    PROVE  Total(f, S \cup {y}) = Total(f, S) + f[y]
<1> DEFINE A == Units(f, S)
           B == {y} \X (1 .. f[y])
<1>1. Units(f, S \cup {y}) = A \cup B
  BY DEF Units
<1>2. A \cap B = {}
  BY DEF Units
<1>3. IsFiniteSet(A)
  BY UnitsFinite
<1>4. IsFiniteSet(B) /\ Cardinality(B) = f[y]
  BY UnitsOfOne
<1>5. Cardinality(A \cup B) = Cardinality(A) + Cardinality(B) - Cardinality(A \cap B)
  <2> HIDE DEF A, B
  <2> QED  BY <1>3, <1>4, FS_Union
<1>6. Cardinality(A \cap B) = 0
  BY <1>2, FS_EmptySet
<1>7. Cardinality(A) \in Nat
  BY <1>3, FS_CardinalityType
<1>8. Total(f, S) = Cardinality(A) /\ Total(f, S \cup {y}) = Cardinality(A \cup B)
  BY <1>1 DEF Total
<1>9. f[y] \in Nat
  OBVIOUS
<1> HIDE DEF A, B
<1> QED
  BY <1>4, <1>5, <1>6, <1>7, <1>8, <1>9

\* An element that leaves takes its amount along.
LEMMA TotalRemove ==
    ASSUME NEW S, IsFiniteSet(S), NEW f, NEW y \in S,
           \A x \in S : f[x] \in Nat
    PROVE  Total(f, S) = Total(f, S \ {y}) + f[y]
<1>1. IsFiniteSet(S \ {y})
  BY FS_RemoveElement
<1>2. (S \ {y}) \cup {y} = S
  OBVIOUS
<1> QED
  BY <1>1, <1>2, TotalAdd

\* Updating the function at one element of S replaces that element's amount.
LEMMA TotalUpdate ==
    ASSUME NEW S, IsFiniteSet(S), NEW f, NEW g, NEW y \in S,
           \A x \in S : f[x] \in Nat /\ g[x] \in Nat,
           \A x \in S \ {y} : g[x] = f[x]
    PROVE  Total(g, S) + f[y] = Total(f, S) + g[y]
<1>1. Total(f, S) = Total(f, S \ {y}) + f[y]
  BY TotalRemove
<1>2. Total(g, S) = Total(g, S \ {y}) + g[y]
  BY TotalRemove
<1>3. Total(g, S \ {y}) = Total(f, S \ {y})
  BY TotalCongruence
<1>4. IsFiniteSet(S \ {y})
  BY FS_RemoveElement
<1>5. Total(f, S \ {y}) \in Nat
  BY <1>4, TotalType
<1> QED
  BY <1>1, <1>2, <1>3, <1>5

\* A sum over S bounds each of its terms.
LEMMA TotalBounds ==
    ASSUME NEW S, IsFiniteSet(S), NEW f, NEW y \in S,
           \A x \in S : f[x] \in Nat
    PROVE  f[y] <= Total(f, S)
<1>1. Total(f, S) = Total(f, S \ {y}) + f[y]
  BY TotalRemove
<1>2. IsFiniteSet(S \ {y})
  BY FS_RemoveElement
<1>3. Total(f, S \ {y}) \in Nat
  BY <1>2, TotalType
<1> QED
  BY <1>1, <1>3

\* What one element hands to another leaves the sum alone.
LEMMA TotalTransfer ==
    ASSUME NEW S, IsFiniteSet(S), NEW f, NEW g, NEW x \in S, NEW y \in S, x # y,
           \A z \in S : f[z] \in Nat /\ g[z] \in Nat,
           \A z \in S \ {x, y} : g[z] = f[z],
           f[x] + f[y] = g[x] + g[y]
    PROVE  Total(g, S) = Total(f, S)
<1> DEFINE R == (S \ {x}) \ {y}
<1>1. IsFiniteSet(S \ {x}) /\ IsFiniteSet(R)
  BY FS_RemoveElement
<1>2. Total(f, S) = Total(f, S \ {x}) + f[x] /\ Total(g, S) = Total(g, S \ {x}) + g[x]
  BY TotalRemove
<1>3. y \in S \ {x}
  OBVIOUS
<1>4. Total(f, S \ {x}) = Total(f, R) + f[y]
  BY <1>1, <1>3, TotalRemove
<1>5. Total(g, S \ {x}) = Total(g, R) + g[y]
  BY <1>1, <1>3, TotalRemove
<1>6. Total(f, R) = Total(g, R)
  BY TotalCongruence
<1>7. Total(f, R) \in Nat /\ Total(g, R) \in Nat
  BY <1>1, TotalType
<1> HIDE DEF R
<1> QED
  BY <1>2, <1>4, <1>5, <1>6, <1>7

\* The sum over a set is the sum over a part of it and over the rest.
LEMMA TotalSplit ==
    ASSUME NEW S, IsFiniteSet(S), NEW f, \A x \in S : f[x] \in Nat, NEW P \in SUBSET S
    PROVE  Total(f, S) = Total(f, P) + Total(f, S \ P)
<1> DEFINE A == Units(f, P)
           B == Units(f, S \ P)
<1>1. Units(f, S) = A \cup B /\ A \cap B = {}
  BY DEF Units
<1>2. IsFiniteSet(P) /\ IsFiniteSet(S \ P)
  BY FS_Subset
<1>3. IsFiniteSet(A) /\ IsFiniteSet(B)
  BY <1>2, UnitsFinite
<1>4. Total(f, S) = Cardinality(A \cup B) /\ Total(f, P) = Cardinality(A)
      /\ Total(f, S \ P) = Cardinality(B)
  BY <1>1 DEF Total
<1> HIDE DEF A, B
<1>5. Cardinality(A \cup B) = Cardinality(A) + Cardinality(B) - Cardinality(A \cap B)
  BY <1>3, FS_Union
<1>6. Cardinality(A \cap B) = 0 /\ Cardinality(A) \in Nat /\ Cardinality(B) \in Nat
  BY <1>1, <1>3, FS_EmptySet, FS_CardinalityType
<1> QED
  BY <1>4, <1>5, <1>6

-----------------------------------------------------------------------------
(***************************************************************************)
(* Types.  That the subtracting counters never fall below zero needs the   *)
(* layers above: TypeOK itself is not inductive, and is proved as          *)
(* TypeIsKept at the end.                                                  *)
(***************************************************************************)

Types ==
    /\ now \in Nat
    /\ phase \in Phases
    /\ votingEndedAt \in Nat /\ revealEndsAt \in Nat
    /\ outcomeState \in Outcomes
    /\ optionCount \in MinOptions .. MaxOptions
    /\ isWhitelisted \in SUBSET Voters
    /\ weightOf \in [Voters -> Nat] /\ totalWeightAssigned \in Int
    /\ frozenEligiblePower \in Nat
    /\ votedOptions \in [Voters -> SUBSET Options]
    /\ votingPowerOf \in [Voters -> Int]
    /\ voteCount \in [Options -> Int]
    /\ delegatedTo \in [Voters -> Voters \cup {None}]
    /\ delegateCountOf \in [Voters -> Int]
    /\ delegatedSurplus \in [Voters -> Int]
    /\ commitmentOf \in [Voters -> {None} \cup SUBSET Options]
    /\ expired \in SUBSET Voters
    /\ stakeOf \in [Voters -> Nat] /\ totalStaked \in Nat
    /\ balance \in Nat /\ forced \in Nat
    /\ execution \in Executions
    /\ performed \in Nat

LEMMA ConfigFields ==
    /\ Config.revealWindowSeconds \in Nat /\ Config.timelockSeconds \in Nat
    /\ Config.weighted \in BOOLEAN /\ Config.openToAll \in BOOLEAN
    /\ Config.commitReveal \in BOOLEAN /\ Config.delegable \in BOOLEAN
    /\ Config.multiSelect \in BOOLEAN
    /\ Config.quorumBps \in Nat /\ Config.maxSelections \in Nat
BY ConfigAssumption DEF PollConfig

\* What any set of voters brings is a natural number.
LEMMA OwnPowerType ==
    ASSUME weightOf \in [Voters -> Nat]
    PROVE  OwnPower \in [Voters -> Nat]
BY ConfigFields DEF OwnPower, OwnPowerOf

LEMMA EligiblePowerType ==
    ASSUME Types PROVE EligiblePower \in Nat
<1>1. IsFiniteSet(isWhitelisted)
  BY VotersAssumption, FS_Subset DEF Types
<1>2. OwnPower \in [Voters -> Nat] /\ isWhitelisted \subseteq Voters
  BY OwnPowerType DEF Types
<1>3. Total(OwnPower, isWhitelisted) \in Nat
  BY <1>1, <1>2, TotalType
<1> QED
  BY <1>3 DEF EligiblePower, OwnPower

LEMMA VerdictType == Verdict \in Outcomes
BY DEF Verdict, Outcomes

LEMMA TypesInit == Init => Types
BY ConstantsAssumption DEF Init, Types, Phases, Outcomes, MinOptions,
   NoExecution, Executions

LEMMA TypesOwner == Types /\ OwnerStep => Types'
<1> SUFFICES ASSUME Types, OwnerStep PROVE Types'
  OBVIOUS
<1> USE ConstantsAssumption, ConfigFields DEF Types, Phases, MinOptions, Options,
        clockVars, setupVars, ballotVars, delegationVars, sealVars, stakeVars,
        execVars
<1>1. ASSUME NEW vs \in SUBSET Voters, NEW w \in [vs -> Weights], SetWeights(w)
      PROVE  Types'
  <2>1. DOMAIN w = vs /\ \A v \in vs : w[v] \in Nat
    OBVIOUS
  <2>2. IsFiniteSet(vs)
    BY VotersAssumption, FS_Subset
  <2>3. Total(w, vs) \in Nat /\ Total(weightOf, vs) \in Nat
    BY <2>1, <2>2, TotalType
  <2>4. weightOf' \in [Voters -> Nat]
    BY <1>1, <2>1 DEF SetWeights
  <2>5. totalWeightAssigned' \in Int
    BY <1>1, <2>1, <2>3 DEF SetWeights
  <2> QED
    BY <1>1, <2>4, <2>5 DEF SetWeights
<1>2. CASE AddOption
  BY <1>2 DEF AddOption
<1>3. ASSUME NEW id \in Options, RemoveOption(id) PROVE Types'
  BY <1>3 DEF RemoveOption, CanRemoveOption
<1>4. ASSUME NEW vs \in SUBSET Voters, NEW allowed \in BOOLEAN,
             SetWhitelist(vs, allowed)
      PROVE  Types'
  BY <1>4 DEF SetWhitelist
<1>5. CASE StartPoll
  BY <1>5, EligiblePowerType DEF StartPoll
<1>6. CASE EndPoll
  <2>1. /\ phase' \in Phases /\ outcomeState' \in Outcomes
        /\ votingEndedAt' \in Nat /\ revealEndsAt' \in Nat
    BY <1>6, VerdictType DEF EndPoll, CloseVoting, SettleAndEnd
  <2>2. UNCHANGED <<now, setupVars, isWhitelisted, ballotVars, delegationVars,
                    sealVars, stakeVars, execVars>>
    BY <1>6 DEF EndPoll, CloseVoting
  <2> QED
    BY <2>1, <2>2
<1>7. CASE SweepUnclaimed
  BY <1>7 DEF SweepUnclaimed, CanSweep
<1>8. CASE CancelExecution
  BY <1>8 DEF CancelExecution, NoExecution, Executions
<1> HIDE DEF Types
<1> QED
  BY <1>1, <1>2, <1>3, <1>4, <1>5, <1>6, <1>7, <1>8 DEF OwnerStep

\* The three fragments the voters' handlers share keep the types.
LEMMA TakeStakeType ==
    ASSUME Types, NEW v \in Voters, TakeStake(v)
    PROVE  /\ stakeOf' \in [Voters -> Nat] /\ totalStaked' \in Nat
           /\ balance' \in Nat /\ forced' \in Nat
<1>1. Stake \in Nat
  BY ConstantsAssumption
<1> QED
  BY <1>1 DEF Types, TakeStake

LEMMA ReturnStakeType ==
    ASSUME Types, NEW v \in Voters, Returnable(v), ReturnStake(v)
    PROVE  /\ stakeOf' \in [Voters -> Nat] /\ totalStaked' \in Nat
           /\ balance' \in Nat /\ forced' \in Nat
<1>1. stakeOf[v] \in Nat /\ totalStaked \in Nat /\ balance \in Nat
  BY DEF Types
<1>2. totalStaked' \in Nat /\ balance' \in Nat
  BY <1>1 DEF ReturnStake, Returnable
<1>3. stakeOf' \in [Voters -> Nat] /\ forced' \in Nat
  BY DEF Types, ReturnStake
<1> QED
  BY <1>2, <1>3

LEMMA RecordVoteType ==
    ASSUME Types, NEW v \in Voters, NEW S \in SUBSET Options, NEW power \in Int,
           NEW held \in SUBSET Options, NEW counts \in [Options -> Int],
           RecordVote(v, S, power, held, counts)
    PROVE  /\ votedOptions' \in [Voters -> SUBSET Options]
           /\ votingPowerOf' \in [Voters -> Int]
           /\ voteCount' \in [Options -> Int]
<1>1. held \cup S \in SUBSET Options
  OBVIOUS
<1>2. votedOptions' \in [Voters -> SUBSET Options]
  BY <1>1 DEF Types, RecordVote
<1>3. votingPowerOf' \in [Voters -> Int]
  BY DEF Types, RecordVote
<1>4. voteCount' \in [Options -> Int]
  BY DEF RecordVote
<1> QED
  BY <1>2, <1>3, <1>4

LEMMA ClearedCountsType ==
    ASSUME Types, NEW v \in Voters
    PROVE  ClearedCounts(v) \in [Options -> Int]
BY DEF Types, ClearedCounts

LEMMA TypesVoter ==
    ASSUME NEW v \in Voters PROVE Types /\ VoterStep(v) => Types'
<1> SUFFICES ASSUME Types, VoterStep(v) PROVE Types'
  OBVIOUS
<1> USE DEF clockVars, setupVars, ballotVars, delegationVars, sealVars,
            stakeVars, execVars
<1>0. OwnPowerOf(v) \in Int /\ delegatedSurplus[v] \in Int /\ votingPowerOf[v] \in Int
  BY DEF OwnPowerOf, Types
<1>1. ASSUME NEW to \in Voters \cup {None}, Delegate(v, to) PROVE Types'
  <2>1. delegatedTo' \in [Voters -> Voters \cup {None}]
    BY <1>1 DEF Delegate, Types
  <2>2. delegatedSurplus' \in [Voters -> Int] /\ delegateCountOf' \in [Voters -> Int]
    BY <1>0, <1>1 DEF Delegate, Types
  <2> QED
    BY <1>1, <2>1, <2>2 DEF Delegate, Types
<1>2. ASSUME NEW S \in SUBSET Options, Vote(v, S) PROVE Types'
  <2>1. OwnPowerOf(v) + delegatedSurplus[v] \in Int
    BY <1>0
  <2>2. {} \in SUBSET Options /\ voteCount \in [Options -> Int]
    BY DEF Types
  <2>3. /\ RecordVote(v, S, OwnPowerOf(v) + delegatedSurplus[v], {}, voteCount)
        /\ TakeStake(v)
    BY <1>2 DEF Vote
  <2> QED
    BY <1>2, <2>1, <2>2, <2>3, RecordVoteType, TakeStakeType DEF Vote, Types
<1>3. ASSUME NEW S \in SUBSET Options, ChangeVote(v, S) PROVE Types'
  <2>1. RecordVote(v, S, votingPowerOf[v], {}, ClearedCounts(v)) /\ {} \in SUBSET Options
    BY <1>3 DEF ChangeVote
  <2> QED
    BY <1>0, <1>3, <2>1, RecordVoteType, ClearedCountsType DEF ChangeVote, Types
<1>4. CASE WithdrawVote(v)
  <2>1. Returnable(v) /\ ReturnStake(v) /\ voteCount' \in [Options -> Int]
    BY <1>4, ClearedCountsType DEF WithdrawVote, CanWithdrawVote
  <2>2. /\ votedOptions' \in [Voters -> SUBSET Options]
        /\ votingPowerOf' \in [Voters -> Int]
    BY <1>4 DEF WithdrawVote, Types
  <2> QED
    BY <1>4, <2>1, <2>2, ReturnStakeType DEF WithdrawVote, Types
<1>5. ASSUME NEW c \in Commitments, Commit(v, c) PROVE Types'
  <2>1. c \in {None} \cup SUBSET Options
    BY ConstantsAssumption
  <2>2. TakeStake(v) /\ commitmentOf' \in [Voters -> {None} \cup SUBSET Options]
    BY <1>5, <2>1 DEF Commit, Types
  <2> QED
    BY <1>5, <2>2, TakeStakeType DEF Commit, Types
<1>6. CASE WithdrawCommitment(v)
  <2>1. /\ Returnable(v) /\ ReturnStake(v)
        /\ commitmentOf' \in [Voters -> {None} \cup SUBSET Options]
    BY <1>6 DEF WithdrawCommitment, CanWithdrawCommitment, Types
  <2> QED
    BY <1>6, <2>1, ReturnStakeType DEF WithdrawCommitment, Types
<1>7. ASSUME NEW S \in SUBSET Options, Reveal(v, S) PROVE Types'
  <2>1. /\ RecordVote(v, S, OwnPowerOf(v), votedOptions[v], voteCount)
        /\ votedOptions[v] \in SUBSET Options /\ voteCount \in [Options -> Int]
    BY <1>7 DEF Reveal, Types
  <2>2. commitmentOf' \in [Voters -> {None} \cup SUBSET Options]
    BY <1>7 DEF Reveal, Types
  <2> QED
    BY <1>0, <1>7, <2>1, <2>2, RecordVoteType DEF Reveal, Types
<1>8. CASE Refund(v)
  <2>1. /\ Returnable(v) /\ ReturnStake(v)
        /\ commitmentOf' \in [Voters -> {None} \cup SUBSET Options]
    BY <1>8 DEF Refund, CanRefund, Types
  <2>2. expired' \in SUBSET Voters
    BY <1>8 DEF Refund, Types
  <2> QED
    BY <1>8, <2>1, <2>2, ReturnStakeType DEF Refund, Types
<1> QED
  BY <1>1, <1>2, <1>3, <1>4, <1>5, <1>6, <1>7, <1>8 DEF VoterStep

\* execute() only marks the record it found.
LEMMA ExecutionMarks ==
    ASSUME NEW e \in Executions
    PROVE  /\ [e EXCEPT !.failed = TRUE] \in Executions
           /\ [e EXCEPT !.done = TRUE, !.failed = FALSE] \in Executions
BY DEF Executions

LEMMA TypesRest == Types /\ (AnyoneStep \/ Tick \/ UNCHANGED vars) => Types'
<1> SUFFICES ASSUME Types, AnyoneStep \/ Tick \/ UNCHANGED vars PROVE Types'
  OBVIOUS
<1> USE ConstantsAssumption, ConfigFields DEF Types, Phases,
        clockVars, setupVars, ballotVars, delegationVars, sealVars, stakeVars,
        execVars
<1>1. CASE CloseAfterDeadline
  BY <1>1, VerdictType DEF CloseAfterDeadline, CloseVoting, SettleAndEnd
<1>2. CASE CloseRevealWindow
  BY <1>2, VerdictType DEF CloseRevealWindow, SettleAndEnd
<1>3. ASSUME NEW value \in Values, QueueExecution(value) PROVE Types'
  BY <1>3 DEF QueueExecution, Executions
<1>4. ASSUME NEW ok \in BOOLEAN, Execute(ok) PROVE Types'
  <2>0. execution.value \in Nat
    BY DEF Executions
  <2>1. balance' \in Nat /\ performed' \in Nat
    BY <1>4, <2>0 DEF Execute
  <2>2. \/ execution' = [execution EXCEPT !.done = TRUE, !.failed = FALSE]
        \/ execution' = [execution EXCEPT !.failed = TRUE]
    BY <1>4 DEF Execute
  <2>3. execution' \in Executions
    BY <2>2, ExecutionMarks DEF Executions
  <2> QED
    BY <1>4, <2>1, <2>3 DEF Execute, Executions
<1>5. CASE Tick
  BY <1>5 DEF Tick
<1>6. CASE UNCHANGED vars
  BY <1>6 DEF vars
<1>7. CASE ForceEther
  BY <1>7 DEF ForceEther
<1> QED
  BY <1>1, <1>2, <1>3, <1>4, <1>5, <1>6, <1>7 DEF AnyoneStep

\* Every variable keeps its type.
THEOREM TypesHold == Spec => []Types
<1>1. Types /\ [Next]_vars => Types'
  BY TypesOwner, TypesVoter, TypesRest DEF Next
<1> QED
  BY TypesInit, <1>1, PTL DEF Spec

-----------------------------------------------------------------------------
(***************************************************************************)
(* The deposits of a poll: the running total is the sum of the stakes, a   *)
(* ballot is backed by exactly one stake, and the poll's ether moves as    *)
(* the abstract escrow's does.                                             *)
(*                                                                         *)
(* Two hypotheses single out the inputs some of the books are right for:   *)
(* nobody commits to the zero word (NoZeroWord), which the run             *)
(* zero_commitment shows StakesSum to need, and no execution carries a     *)
(* value (NoValue), which is paid from the balance that holds the stakes   *)
(* and which the escrow knows nothing of.  The ether itself needs neither. *)
(***************************************************************************)

NoZeroWord == Config.commitReveal => None \notin Commitments
NoValue == Values \subseteq {0}

\* What each ballot mechanism may have left behind in a phase.
Modes ==
    /\ ~Config.commitReveal => /\ phase # "Reveal"
                               /\ \A v \in Voters : commitmentOf[v] = None
    /\ Config.commitReveal /\ phase = "Voting" => \A v \in Voters : votedOptions[v] = {}
    /\ phase = "Setup" => \A v \in Voters : votedOptions[v] = {} /\ commitmentOf[v] = None

\* BallotIsBacked, from the creation of the poll on; a stake is never split.
Backed ==
    /\ \A v \in Voters : stakeOf[v] \in {0, Stake}
    /\ phase # "Ended" =>
          \A v \in Voters : stakeOf[v] = IF v \in Participants THEN Stake ELSE 0

StakeInv == Modes /\ Backed /\ StakesSum

\* Nothing in the state a stake depends on moves.
StakesUntouched ==
    UNCHANGED <<phase, votingEndedAt, votedOptions, commitmentOf, stakeOf, totalStaked>>

(***************************************************************************)
(* The sum of the stakes.                                                  *)
(***************************************************************************)

LEMMA StakesTotalType == ASSUME Types PROVE Total(stakeOf, Voters) \in Nat
BY VotersAssumption, TotalType DEF Types

LEMMA TakeStakeSum ==
    ASSUME Types, NEW v \in Voters, TakeStake(v), stakeOf[v] = 0,
           totalStaked = Total(stakeOf, Voters)
    PROVE  totalStaked' = Total(stakeOf', Voters)
<1>1. stakeOf' \in [Voters -> Nat] /\ stakeOf \in [Voters -> Nat] /\ Stake \in Nat
  BY TakeStakeType, ConstantsAssumption DEF Types
<1>2. stakeOf'[v] = Stake /\ \A u \in Voters \ {v} : stakeOf'[u] = stakeOf[u]
  BY <1>1 DEF TakeStake
<1>3. Total(stakeOf', Voters) + stakeOf[v] = Total(stakeOf, Voters) + stakeOf'[v]
  BY <1>1, <1>2, TotalUpdate, VotersAssumption
<1>4. Total(stakeOf, Voters) \in Nat /\ Total(stakeOf', Voters) \in Nat
  BY <1>1, VotersAssumption, TotalType
<1> QED
  BY <1>1, <1>2, <1>3, <1>4 DEF TakeStake

LEMMA ReturnStakeSum ==
    ASSUME Types, NEW v \in Voters, Returnable(v), ReturnStake(v),
           totalStaked = Total(stakeOf, Voters)
    PROVE  totalStaked' = Total(stakeOf', Voters)
<1>1. stakeOf' \in [Voters -> Nat] /\ stakeOf \in [Voters -> Nat]
  BY ReturnStakeType DEF Types
<1>2. stakeOf'[v] = 0 /\ \A u \in Voters \ {v} : stakeOf'[u] = stakeOf[u]
  BY <1>1 DEF ReturnStake
<1>3. Total(stakeOf', Voters) + stakeOf[v] = Total(stakeOf, Voters) + stakeOf'[v]
  BY <1>1, <1>2, TotalUpdate, VotersAssumption
<1>4. Total(stakeOf, Voters) \in Nat /\ Total(stakeOf', Voters) \in Nat
  BY <1>1, VotersAssumption, TotalType
<1> QED
  BY <1>1, <1>2, <1>3, <1>4 DEF ReturnStake

(***************************************************************************)
(* The inductive step.                                                     *)
(***************************************************************************)

LEMMA StakeInvInit == Init => StakeInv
<1> SUFFICES ASSUME Init PROVE StakeInv
  OBVIOUS
<1>1. Modes /\ Backed
  BY DEF Init, Modes, Backed, Participants
<1>2. Units(stakeOf, Voters) = {}
  BY DEF Init, Units
<1>3. Total(stakeOf, Voters) = 0
  BY <1>2, FS_EmptySet DEF Total
<1> QED
  BY <1>1, <1>3 DEF StakeInv, StakesSum, Init

\* A step that leaves the deposits and the ballots alone, the clock aside.
LEMMA StakeInvUntouched ==
    ASSUME Types, StakeInv, StakesUntouched, now' \in Nat, now <= now'
    PROVE  StakeInv'
<1>1. Modes'
  BY DEF StakeInv, Modes, StakesUntouched
<1>2. Backed'
  BY DEF StakeInv, Backed, Participants, StakesUntouched
<1>3. StakesSum'
  BY ConstantsAssumption DEF StakeInv, StakesSum, Swept, StakesUntouched, Types
<1> QED
  BY <1>1, <1>2, <1>3 DEF StakeInv

\* Before the end nothing has been swept.
LEMMA SumBeforeEnd ==
    ASSUME StakesSum, phase # "Ended" PROVE totalStaked = Total(stakeOf, Voters)
BY DEF StakesSum, Swept

LEMMA StakeInvOwner == Types /\ StakeInv /\ OwnerStep => StakeInv'
<1> SUFFICES ASSUME Types, StakeInv, OwnerStep PROVE StakeInv'
  OBVIOUS
<1> USE DEF clockVars, setupVars, ballotVars, delegationVars, sealVars,
            stakeVars, execVars
<1>0. now \in Nat /\ now <= now
  BY DEF Types
<1>1. ASSUME NEW vs \in SUBSET Voters, NEW w \in [vs -> Weights], SetWeights(w)
      PROVE  StakeInv'
  BY <1>0, <1>1, StakeInvUntouched DEF SetWeights, StakesUntouched
<1>2. CASE AddOption
  BY <1>0, <1>2, StakeInvUntouched DEF AddOption, StakesUntouched
<1>3. ASSUME NEW id \in Options, RemoveOption(id) PROVE StakeInv'
  BY <1>0, <1>3, StakeInvUntouched DEF RemoveOption, StakesUntouched
<1>4. ASSUME NEW vs \in SUBSET Voters, NEW allowed \in BOOLEAN,
             SetWhitelist(vs, allowed)
      PROVE  StakeInv'
  BY <1>0, <1>4, StakeInvUntouched DEF SetWhitelist, StakesUntouched
<1>5. CASE StartPoll
  BY <1>5 DEF StartPoll, CanStartPoll, StakeInv, Modes, Backed, Participants,
     StakesSum, Swept
<1>6. CASE EndPoll
  BY <1>6 DEF EndPoll, CloseVoting, CanClose, SettleAndEnd, StakeInv, Modes,
     Backed, Participants, StakesSum, Swept
<1>7. CASE SweepUnclaimed
  BY <1>7 DEF SweepUnclaimed, CanSweep, StakeInv, Modes, Backed, StakesSum,
     Swept
<1>8. CASE CancelExecution
  BY <1>0, <1>8, StakeInvUntouched DEF CancelExecution, StakesUntouched
<1> QED
  BY <1>1, <1>2, <1>3, <1>4, <1>5, <1>6, <1>7, <1>8 DEF OwnerStep

LEMMA StakeInvVoter ==
    ASSUME NoZeroWord, NEW v \in Voters
    PROVE  Types /\ StakeInv /\ VoterStep(v) => StakeInv'
<1> SUFFICES ASSUME Types, StakeInv, VoterStep(v) PROVE StakeInv'
  OBVIOUS
<1> USE DEF clockVars, setupVars, ballotVars, delegationVars, sealVars,
            stakeVars, execVars
<1>0. now \in Nat /\ now <= now
  BY DEF Types
<1>1. ASSUME NEW to \in Voters \cup {None}, Delegate(v, to) PROVE StakeInv'
  BY <1>0, <1>1, StakeInvUntouched DEF Delegate, StakesUntouched
<1>2. ASSUME NEW S \in SUBSET Options, Vote(v, S) PROVE StakeInv'
  <2>1. /\ phase = "Voting" /\ phase' = "Voting" /\ ~Config.commitReveal
        /\ votedOptions[v] = {} /\ TakeStake(v) /\ S # {}
        /\ votedOptions' = [votedOptions EXCEPT ![v] = S]
        /\ commitmentOf' = commitmentOf
    BY <1>2 DEF Vote, CanVote, RecordVote, Selectable
  <2>2. v \notin Participants /\ stakeOf[v] = 0
    BY <2>1 DEF StakeInv, Modes, Backed, Participants
  <2>3. Modes'
    BY <2>1 DEF StakeInv, Modes
  <2>4. Backed'
    BY <2>1, <2>2 DEF StakeInv, Backed, Participants, TakeStake, Types
  <2>5. StakesSum'
    BY <2>1, <2>2, SumBeforeEnd, TakeStakeSum DEF StakeInv, StakesSum
  <2> QED
    BY <2>3, <2>4, <2>5 DEF StakeInv
<1>3. ASSUME NEW S \in SUBSET Options, ChangeVote(v, S) PROVE StakeInv'
  <2>1. /\ phase = "Voting" /\ ~Config.commitReveal
        /\ votedOptions[v] # {} /\ S # {}
        /\ votedOptions' = [votedOptions EXCEPT ![v] = S]
        /\ UNCHANGED <<phase, now, votingEndedAt, commitmentOf, stakeOf, totalStaked>>
    BY <1>3 DEF ChangeVote, CanChangeVote, RecordVote, Selectable
  <2>2. Modes'
    BY <2>1 DEF StakeInv, Modes
  <2>3. Backed'
    BY <2>1 DEF StakeInv, Backed, Participants, Types
  <2>4. StakesSum'
    BY <2>1 DEF StakeInv, StakesSum, Swept
  <2> QED
    BY <2>2, <2>3, <2>4 DEF StakeInv
<1>4. CASE WithdrawVote(v)
  <2>1. /\ phase = "Voting" /\ phase' = "Voting" /\ ~Config.commitReveal
        /\ Returnable(v) /\ ReturnStake(v)
        /\ votedOptions' = [votedOptions EXCEPT ![v] = {}]
        /\ commitmentOf' = commitmentOf
    BY <1>4 DEF WithdrawVote, CanWithdrawVote
  <2>2. Modes'
    BY <2>1 DEF StakeInv, Modes
  <2>3. Backed'
    BY <2>1 DEF StakeInv, Modes, Backed, Participants, ReturnStake, Types
  <2>4. StakesSum'
    BY <2>1, SumBeforeEnd, ReturnStakeSum DEF StakeInv, StakesSum
  <2> QED
    BY <2>2, <2>3, <2>4 DEF StakeInv
<1>5. ASSUME NEW c \in Commitments, Commit(v, c) PROVE StakeInv'
  <2>1. /\ phase = "Voting" /\ phase' = "Voting" /\ Config.commitReveal
        /\ commitmentOf[v] = None /\ c # None /\ TakeStake(v)
        /\ commitmentOf' = [commitmentOf EXCEPT ![v] = c]
        /\ votedOptions' = votedOptions
    BY <1>5 DEF Commit, NoZeroWord
  <2>2. v \notin Participants /\ stakeOf[v] = 0
    BY <2>1 DEF StakeInv, Modes, Backed, Participants
  <2>3. Modes'
    BY <2>1 DEF StakeInv, Modes
  <2>4. Backed'
    BY <2>1, <2>2 DEF StakeInv, Backed, Participants, TakeStake, Types
  <2>5. StakesSum'
    BY <2>1, <2>2, SumBeforeEnd, TakeStakeSum DEF StakeInv, StakesSum
  <2> QED
    BY <2>3, <2>4, <2>5 DEF StakeInv
<1>6. CASE WithdrawCommitment(v)
  <2>1. /\ phase = "Voting" /\ phase' = "Voting" /\ Config.commitReveal
        /\ Returnable(v) /\ ReturnStake(v)
        /\ commitmentOf' = [commitmentOf EXCEPT ![v] = None]
        /\ votedOptions' = votedOptions
    BY <1>6 DEF WithdrawCommitment, CanWithdrawCommitment
  <2>2. Modes'
    BY <2>1 DEF StakeInv, Modes
  <2>3. Backed'
    BY <2>1 DEF StakeInv, Modes, Backed, Participants, ReturnStake, Types
  <2>4. StakesSum'
    BY <2>1, SumBeforeEnd, ReturnStakeSum DEF StakeInv, StakesSum
  <2> QED
    BY <2>2, <2>3, <2>4 DEF StakeInv
<1>7. ASSUME NEW S \in SUBSET Options, Reveal(v, S) PROVE StakeInv'
  <2>1. /\ phase = "Reveal" /\ commitmentOf[v] # None /\ S # {}
        /\ commitmentOf' = [commitmentOf EXCEPT ![v] = None]
        /\ votedOptions' = [votedOptions EXCEPT ![v] = votedOptions[v] \cup S]
        /\ UNCHANGED <<phase, now, votingEndedAt, stakeOf, totalStaked>>
    BY <1>7 DEF Reveal, RecordVote, Selectable
  <2>2. Modes'
    BY <2>1 DEF StakeInv, Modes
  <2>3. Backed'
    BY <2>1 DEF StakeInv, Backed, Participants, Types
  <2>4. StakesSum'
    BY <2>1 DEF StakeInv, StakesSum, Swept
  <2> QED
    BY <2>2, <2>3, <2>4 DEF StakeInv
<1>8. CASE Refund(v)
  <2>1. /\ phase = "Ended" /\ phase' = "Ended" /\ stakeOf[v] # 0
        /\ Returnable(v) /\ ReturnStake(v)
        /\ commitmentOf' = [commitmentOf EXCEPT ![v] = None]
    BY <1>8 DEF Refund, CanRefund
  <2>2. Modes'
    BY <2>1 DEF StakeInv, Modes, Types
  <2>3. totalStaked = Total(stakeOf, Voters)
    BY <2>1 DEF StakeInv, StakesSum, Swept, Returnable, Types
  <2>4. StakesSum'
    BY <2>1, <2>3, ReturnStakeSum DEF StakesSum
  <2>5. Backed'
    BY <2>1 DEF StakeInv, Backed, ReturnStake, Types
  <2> QED
    BY <2>2, <2>4, <2>5 DEF StakeInv
<1> QED
  BY <1>1, <1>2, <1>3, <1>4, <1>5, <1>6, <1>7, <1>8 DEF VoterStep

LEMMA StakeInvRest ==
    Types /\ StakeInv /\ (AnyoneStep \/ Tick \/ UNCHANGED vars) => StakeInv'
<1> SUFFICES ASSUME Types, StakeInv, AnyoneStep \/ Tick \/ UNCHANGED vars
             PROVE  StakeInv'
  OBVIOUS
<1> USE DEF clockVars, setupVars, ballotVars, delegationVars, sealVars,
            stakeVars, execVars
<1>0. now \in Nat /\ now <= now /\ now + 1 \in Nat /\ now <= now + 1
  BY DEF Types
<1>1. CASE CloseAfterDeadline
  BY <1>1 DEF CloseAfterDeadline, CanCloseAfterDeadline, CloseVoting, CanClose,
     SettleAndEnd, StakeInv, Modes, Backed, Participants, StakesSum, Swept
<1>2. CASE CloseRevealWindow
  BY <1>2 DEF CloseRevealWindow, CanCloseRevealWindow, SettleAndEnd, StakeInv,
     Modes, Backed, StakesSum, Swept
<1>3. ASSUME NEW value \in Values, QueueExecution(value) PROVE StakeInv'
  BY <1>0, <1>3, StakeInvUntouched DEF QueueExecution, StakesUntouched
<1>4. ASSUME NEW ok \in BOOLEAN, Execute(ok) PROVE StakeInv'
  BY <1>0, <1>4, StakeInvUntouched DEF Execute, StakesUntouched
<1>5. CASE Tick
  BY <1>0, <1>5, StakeInvUntouched DEF Tick, StakesUntouched
<1>6. CASE UNCHANGED vars
  BY <1>0, <1>6, StakeInvUntouched DEF vars, StakesUntouched
<1>7. CASE ForceEther
  BY <1>0, <1>7, StakeInvUntouched DEF ForceEther, StakesUntouched
<1> QED
  BY <1>1, <1>2, <1>3, <1>4, <1>5, <1>6, <1>7 DEF AnyoneStep

LEMMA StakeInvHolds == ASSUME NoZeroWord PROVE Spec => []StakeInv
<1>1. Types /\ StakeInv /\ [Next]_vars => StakeInv'
  BY StakeInvOwner, StakeInvVoter, StakeInvRest DEF Next
<1>2. NoZeroWord
  OBVIOUS
<1> QED
  BY StakeInvInit, TypesHold, <1>1, PTL DEF Spec

\* totalStaked is the sum of the outstanding stakes (Poll.totalStaked), for any
\* number of voters and under every mechanism.
THEOREM StakesAreSummed == ASSUME NoZeroWord PROVE Spec => []StakesSum
BY StakeInvHolds, PTL DEF StakeInv

\* A ballot, sealed or open, is backed by exactly one stake.
THEOREM BallotsAreBacked == ASSUME NoZeroWord PROVE Spec => []BallotIsBacked
<1>1. StakeInv => BallotIsBacked
  BY DEF StakeInv, Backed, BallotIsBacked
<1> QED
  BY StakeInvHolds, <1>1, PTL

(***************************************************************************)
(* The ether.                                                              *)
(***************************************************************************)

CustodyInv == balance + Spent = totalStaked + forced

LEMMA SpentType == ASSUME Types PROVE Spent \in Nat
BY DEF Types, Executions, Spent

LEMMA CustodyInit == Init => CustodyInv
BY DEF Init, CustodyInv, NoExecution, Spent

\* Stakes move the balance and the total alike, and an execution that is carried
\* out is not carried out again; nothing else moves either.
LEMMA CustodyStep == Types /\ CustodyInv /\ [Next]_vars => CustodyInv'
<1> SUFFICES ASSUME Types, CustodyInv, [Next]_vars PROVE CustodyInv'
  OBVIOUS
<1> USE DEF clockVars, setupVars, ballotVars, delegationVars, sealVars,
            stakeVars, execVars
<1> DEFINE Same == UNCHANGED <<balance, forced, totalStaked, Spent>>
<1>0. ASSUME Same PROVE CustodyInv'
  BY <1>0 DEF CustodyInv
<1>s. execution' = execution => Spent' = Spent
  BY DEF Spent
<1>t. /\ Spent \in Nat /\ balance \in Nat /\ forced \in Nat /\ totalStaked \in Nat
      /\ balance + Spent = totalStaked + forced
  BY SpentType DEF Types, CustodyInv
<1>1. OwnerStep => CustodyInv'
  <2>1. CASE SweepUnclaimed
    BY <1>s, <1>t, <2>1 DEF SweepUnclaimed, CustodyInv
  <2>2. CASE CancelExecution
    BY <1>0, <2>2 DEF CancelExecution, CanCancel, NoExecution, Spent
  <2>3. OwnerStep => Same \/ SweepUnclaimed \/ CancelExecution
    BY <1>s DEF OwnerStep, SetWeights, AddOption, RemoveOption, SetWhitelist,
           StartPoll, EndPoll, CloseVoting
  <2> QED
    BY <1>0, <2>1, <2>2, <2>3
<1>2. ASSUME NEW v \in Voters, VoterStep(v) PROVE CustodyInv'
  <2>1. \/ Same
        \/ TakeStake(v) /\ execution' = execution
        \/ Returnable(v) /\ ReturnStake(v) /\ execution' = execution
    BY <1>2, <1>s DEF VoterStep, Delegate, Vote, ChangeVote, WithdrawVote,
       CanWithdrawVote, Commit, WithdrawCommitment, CanWithdrawCommitment,
       Reveal, Refund, CanRefund
  <2>2. ASSUME TakeStake(v), execution' = execution PROVE CustodyInv'
    BY <1>s, <1>t, <2>2, ConstantsAssumption DEF TakeStake, CustodyInv
  <2>3. ASSUME Returnable(v), ReturnStake(v), execution' = execution
        PROVE  CustodyInv'
    <3>1. stakeOf[v] \in Nat
      BY DEF Types
    <3> QED
      BY <1>s, <1>t, <2>3, <3>1 DEF ReturnStake, CustodyInv
  <2> QED
    BY <1>0, <2>1, <2>2, <2>3
<1>3. AnyoneStep => CustodyInv'
  <2>1. ASSUME NEW value \in Values, QueueExecution(value) PROVE CustodyInv'
    BY <1>0, <2>1 DEF QueueExecution, CanQueue, Spent
  <2>2. ASSUME NEW ok \in BOOLEAN, Execute(ok) PROVE CustodyInv'
    <3>1. Spent = 0 /\ execution \in Executions /\ ~execution.done
      BY <2>2 DEF Execute, CanExecute, Spent, Types
    <3>2. CASE /\ execution' = [execution EXCEPT !.done = TRUE, !.failed = FALSE]
               /\ balance' = balance - execution.value
      <4>1. Spent' = execution.value /\ execution.value \in Nat
        BY <3>1, <3>2 DEF Spent, Executions
      <4>2. UNCHANGED <<totalStaked, forced>>
        BY <2>2 DEF Execute
      <4> QED
        BY <1>t, <3>1, <3>2, <4>1, <4>2 DEF CustodyInv
    <3>3. CASE /\ execution' = [execution EXCEPT !.failed = TRUE]
               /\ UNCHANGED balance
      <4>1. Spent' = 0
        BY <3>1, <3>3 DEF Spent, Executions
      <4> QED
        BY <1>0, <2>2, <3>1, <3>3, <4>1 DEF Execute
    <3> QED
      BY <2>2, <3>2, <3>3 DEF Execute
  <2>3. CloseAfterDeadline \/ CloseRevealWindow => Same
    BY <1>s DEF CloseAfterDeadline, CloseVoting, CloseRevealWindow
  <2>4. CASE ForceEther
    BY <1>s, <1>t, <2>4 DEF ForceEther, CustodyInv
  <2> QED
    BY <1>0, <2>1, <2>2, <2>3, <2>4 DEF AnyoneStep
<1>4. Tick \/ UNCHANGED vars => Same
  BY <1>s DEF Tick, vars
<1> QED
  BY <1>0, <1>1, <1>2, <1>3, <1>4 DEF Next

LEMMA CustodyInvHolds == Spec => []CustodyInv
<1>1. Types /\ CustodyInv /\ [Next]_vars => CustodyInv'
  BY CustodyStep
<1> QED
  BY CustodyInit, TypesHold, <1>1, PTL DEF Spec

\* The poll holds exactly the ether it owes and what was forced into it, less
\* what its execution took, whatever is committed to, forced in or spent.
THEOREM EtherIsTheStakes == Spec => []Custody
<1>1. Types /\ CustodyInv => Custody
  BY SpentType DEF CustodyInv, Custody, Types
<1> QED
  BY CustodyInvHolds, TypesHold, <1>1, PTL

(***************************************************************************)
(* The refinement.                                                         *)
(***************************************************************************)

Stakers == {v \in Voters : stakeOf[v] # 0}

\* Until the sweep everybody with a stake is a claimant.
\* Only three handlers touch the record of the execution.
LEMMA ExecutionStep ==
    ASSUME [Next]_vars
    PROVE  \/ UNCHANGED execVars
           \/ \E value \in Values : QueueExecution(value)
           \/ \E ok \in BOOLEAN : Execute(ok)
           \/ CancelExecution
<1> USE DEF clockVars, setupVars, ballotVars, delegationVars, sealVars,
            stakeVars, execVars
<1>1. CASE OwnerStep
  BY <1>1 DEF OwnerStep, SetWeights, AddOption, RemoveOption, SetWhitelist,
      StartPoll, EndPoll, CloseVoting, SettleAndEnd, SweepUnclaimed
<1>2. ASSUME NEW v \in Voters, VoterStep(v) PROVE UNCHANGED execVars
  BY <1>2 DEF VoterStep, Delegate, Vote, ChangeVote, WithdrawVote, Commit,
              WithdrawCommitment, Reveal, Refund
<1>3. CASE AnyoneStep
  BY <1>3 DEF AnyoneStep, CloseAfterDeadline, CloseVoting, SettleAndEnd,
      CloseRevealWindow, ForceEther
<1>4. CASE Tick \/ UNCHANGED vars
  BY <1>4 DEF Tick, vars
<1> QED
  BY <1>1, <1>2, <1>3, <1>4 DEF Next

\* No execution carries a value, and the balance has lost nothing to one.
Intact == execution.value = 0 /\ balance = totalStaked + forced

LEMMA IntactHolds == ASSUME NoValue PROVE Spec => []Intact
<1> DEFINE Free == execution.value = 0
<1>1. Init => Free
  BY DEF Init, NoExecution
<1>2. ASSUME Types, Free, [Next]_vars PROVE Free'
  <2>1. CASE UNCHANGED execVars
    BY <1>2, <2>1 DEF execVars
  <2>2. ASSUME NEW value \in Values, QueueExecution(value) PROVE Free'
    BY <2>2 DEF QueueExecution, NoValue
  <2>3. ASSUME NEW ok \in BOOLEAN, Execute(ok) PROVE Free'
    BY <1>2, <2>3 DEF Execute, Types, Executions
  <2>4. CASE CancelExecution
    BY <2>4 DEF CancelExecution, NoExecution
  <2> QED
    BY <1>2, <2>1, <2>2, <2>3, <2>4, ExecutionStep
<1>3. Types /\ Free /\ [Next]_vars => Free'
  BY <1>2
<1>4. Types /\ CustodyInv /\ Free => Intact
  BY DEF Intact, CustodyInv, Spent, Types
<1> QED
  BY <1>1, <1>3, <1>4, TypesHold, CustodyInvHolds, PTL DEF Spec

LEMMA ClaimantsUnswept == ~Swept => Claimants = Stakers
BY DEF Claimants, Stakers

LEMMA NoStakersNoTotal ==
    ASSUME Types, totalStaked = Total(stakeOf, Voters)
    PROVE  totalStaked = 0 <=> Stakers = {}
<1>1. ASSUME totalStaked = 0, NEW v \in Voters PROVE stakeOf[v] = 0
  <2>1. stakeOf[v] <= Total(stakeOf, Voters) /\ stakeOf[v] \in Nat
    BY VotersAssumption, TotalBounds DEF Types
  <2> QED
    BY <1>1, <2>1
<1>2. ASSUME Stakers = {} PROVE totalStaked = 0
  <2>1. Units(stakeOf, Voters) = {}
    BY <1>2 DEF Stakers, Units
  <2> QED
    BY <2>1, FS_EmptySet DEF Total
<1> QED
  BY <1>1, <1>2 DEF Stakers

\* Whether or not the clock makes an empty poll count as swept.
LEMMA ClaimantsBySum ==
    ASSUME Types, StakesSum
    PROVE  Claimants = IF totalStaked = 0 THEN {} ELSE Stakers
BY NoStakersNoTotal DEF StakesSum, Claimants, Stakers, Swept

LEMMA EscrowInit == Init => Escrow!Init
<1> SUFFICES ASSUME Init PROVE Escrow!Init
  OBVIOUS
<1>1. Claimants = {}
  BY DEF Init, Claimants
<1> QED
  BY <1>1 DEF Init, Escrow!Init

LEMMA EscrowDeposit ==
    ASSUME Types, Types', StakeInv, NEW v \in Voters, TakeStake(v),
           v \notin Participants, phase = "Voting", phase' = "Voting"
    PROVE  Escrow!Deposit(v)
<1>1. ~Swept /\ ~Swept'
  BY DEF Swept
<1>2. Claimants = Stakers /\ Claimants' = Stakers'
  BY <1>1 DEF Claimants, Stakers
<1>3. stakeOf[v] = 0
  BY DEF StakeInv, Backed
<1>4. Stakers' = Stakers \cup {v}
  BY <1>3, ConstantsAssumption DEF Stakers, TakeStake, Types
<1> QED
  BY <1>2, <1>3, <1>4, ConstantsAssumption
     DEF Escrow!Deposit, TakeStake, Stakers, Types

LEMMA EscrowReturn ==
    ASSUME Types, Types', StakeInv, NEW v \in Voters, Returnable(v), ReturnStake(v),
           stakeOf[v] # 0, phase' = phase
    PROVE  Escrow!Return(v)
<1>1. ~Swept
  BY DEF Swept, ReturnStake, Types
<1>2. totalStaked' = Total(stakeOf', Voters)
  BY <1>1, ReturnStakeSum DEF StakeInv, StakesSum
<1>3. Claimants = Stakers
  BY <1>1, ClaimantsUnswept
<1>4. Stakers' = Stakers \ {v}
  BY DEF Stakers, ReturnStake, Types
<1>5. totalStaked' = 0 <=> Stakers' = {}
  <2>1. ASSUME totalStaked' = 0, NEW u \in Voters PROVE stakeOf'[u] = 0
    <3>1. stakeOf'[u] <= Total(stakeOf', Voters) /\ stakeOf'[u] \in Nat
      BY VotersAssumption, TotalBounds DEF Types
    <3> QED
      BY <1>2, <2>1, <3>1
  <2>2. ASSUME Stakers' = {} PROVE totalStaked' = 0
    <3>1. Units(stakeOf', Voters) = {}
      BY <2>2 DEF Stakers, Units
    <3> QED
      BY <1>2, <3>1, FS_EmptySet DEF Total
  <2> QED
    BY <2>1, <2>2 DEF Stakers
<1>6. Claimants' = Stakers'
  BY <1>5 DEF Claimants, Stakers, Swept
<1>7. stakeOf[v] = Stake
  BY DEF StakeInv, Backed
<1> QED
  BY <1>3, <1>4, <1>6, <1>7, ConstantsAssumption
     DEF Escrow!Return, ReturnStake, Stakers, Types

\* No deposit moves: the claimants stay who they are.
LEMMA EscrowStutter ==
    ASSUME Types, Types', StakeInv, StakeInv',
           UNCHANGED <<stakeOf, totalStaked>>
    PROVE  Claimants' = Claimants
<1>1. Claimants = IF totalStaked = 0 THEN {} ELSE Stakers
  BY ClaimantsBySum DEF StakeInv
<1>2. StakesSum'
  BY DEF StakeInv
<1>3. ~Swept' => totalStaked' = Total(stakeOf', Voters)
  BY <1>2 DEF StakesSum
<1>4. ~Swept' /\ totalStaked = 0 => Stakers = {}
  <2> SUFFICES ASSUME ~Swept', totalStaked = 0, NEW v \in Voters
               PROVE  stakeOf[v] = 0
    BY DEF Stakers
  <2>1. stakeOf[v] <= Total(stakeOf, Voters) /\ stakeOf[v] \in Nat
    BY VotersAssumption, TotalBounds DEF Types
  <2>2. Total(stakeOf, Voters) = 0
    BY <1>3
  <2> QED
    BY <2>1, <2>2
<1> QED
  BY <1>1, <1>4 DEF Claimants, Stakers, Swept

LEMMA EscrowSweep ==
    ASSUME Types, StakeInv, Intact, SweepUnclaimed
    PROVE  Escrow!Forfeit
<1> USE DEF clockVars, setupVars, ballotVars, delegationVars, sealVars, execVars
<1>1. ~Swept /\ Swept'
  BY DEF SweepUnclaimed, CanSweep, Swept
<1>2. Claimants = Stakers /\ Claimants' = {}
  BY <1>1 DEF Claimants, Stakers
<1>3. Stakers # {}
  BY <1>1, NoStakersNoTotal DEF StakeInv, StakesSum, SweepUnclaimed, CanSweep
<1>4. balance' - forced' = 0
  BY DEF SweepUnclaimed, Intact, Types
<1> QED
  BY <1>2, <1>3, <1>4 DEF Escrow!Forfeit, SweepUnclaimed, CanSweep

LEMMA EscrowStep ==
    ASSUME NoZeroWord, NoValue
    PROVE  Types /\ Types' /\ StakeInv /\ StakeInv' /\ Intact /\ Intact'
           /\ [Next]_vars => [Escrow!Next]_(Escrow!vars)
<1> SUFFICES ASSUME Types, Types', StakeInv, StakeInv', Intact, Intact',
                    [Next]_vars
             PROVE  [Escrow!Next]_(Escrow!vars)
  OBVIOUS
<1> USE DEF clockVars, setupVars, ballotVars, delegationVars, sealVars,
            stakeVars, execVars
<1> DEFINE Same == UNCHANGED <<stakeOf, totalStaked, balance - forced>>
           Open == phase \in {"Setup", "Voting"}
<1>1. ASSUME Same, Open' = Open PROVE UNCHANGED Escrow!vars
  BY <1>1, EscrowStutter DEF Escrow!vars
<1>2. ASSUME Same, Open, ~Open' PROVE Escrow!Close
  BY <1>2, EscrowStutter DEF Escrow!Close
<1>3. ASSUME OwnerStep PROVE \/ Same /\ Open' = Open
                             \/ Same /\ Open /\ ~Open'
                             \/ SweepUnclaimed
  BY <1>3 DEF OwnerStep, SetWeights, AddOption, RemoveOption, CanRemoveOption,
     SetWhitelist, CanSetWhitelist, StartPoll, CanStartPoll, EndPoll,
     CloseVoting, CanClose, SettleAndEnd, CancelExecution, CanCancel
<1>4. ASSUME NEW v \in Voters, VoterStep(v)
      PROVE  [Escrow!Next]_(Escrow!vars)
  <2>1. ASSUME NEW S \in SUBSET Options, Vote(v, S) PROVE Escrow!Deposit(v)
    <3>1. /\ phase = "Voting" /\ phase' = "Voting" /\ TakeStake(v)
          /\ votedOptions[v] = {} /\ ~Config.commitReveal
      BY <2>1 DEF Vote, CanVote
    <3>2. v \notin Participants
      BY <3>1 DEF StakeInv, Modes, Participants
    <3> QED
      BY <3>1, <3>2, EscrowDeposit
  <2>2. ASSUME NEW c \in Commitments, Commit(v, c) PROVE Escrow!Deposit(v)
    <3>1. /\ phase = "Voting" /\ phase' = "Voting" /\ TakeStake(v)
          /\ commitmentOf[v] = None /\ Config.commitReveal
      BY <2>2 DEF Commit
    <3>2. v \notin Participants
      BY <3>1 DEF StakeInv, Modes, Participants
    <3> QED
      BY <3>1, <3>2, EscrowDeposit
  <2>3. CASE WithdrawVote(v) \/ WithdrawCommitment(v)
    <3>1. /\ phase = "Voting" /\ phase' = phase /\ Returnable(v) /\ ReturnStake(v)
          /\ v \in Participants
      BY <2>3 DEF WithdrawVote, CanWithdrawVote, WithdrawCommitment,
         CanWithdrawCommitment, Participants
    <3>2. stakeOf[v] # 0
      BY <3>1, ConstantsAssumption DEF StakeInv, Backed
    <3>3. Escrow!Return(v)
      BY <3>1, <3>2, EscrowReturn
    <3> QED
      BY <3>3 DEF Escrow!Next
  <2>4. CASE Refund(v)
    <3>1. phase' = phase /\ Returnable(v) /\ ReturnStake(v) /\ stakeOf[v] # 0
      BY <2>4 DEF Refund, CanRefund
    <3>2. Escrow!Return(v)
      BY <3>1, EscrowReturn
    <3> QED
      BY <3>2 DEF Escrow!Next
  <2>5. ASSUME \/ \E to \in Voters \cup {None} : Delegate(v, to)
               \/ \E S \in SUBSET Options : ChangeVote(v, S) \/ Reveal(v, S)
        PROVE  Same /\ Open' = Open
    BY <2>5 DEF Delegate, ChangeVote, Reveal
  <2> QED
    BY <1>1, <1>4, <2>1, <2>2, <2>3, <2>4, <2>5 DEF VoterStep, Escrow!Next
<1>5. ASSUME AnyoneStep PROVE \/ Same /\ Open' = Open
                              \/ Same /\ Open /\ ~Open'
  <2>1. ASSUME NEW ok \in BOOLEAN, Execute(ok) PROVE Same /\ Open' = Open
    BY <2>1 DEF Execute, Intact, Types
  <2>2. ForceEther => Same /\ Open' = Open
    BY DEF ForceEther, Types
  <2> QED
    BY <1>5, <2>1, <2>2 DEF AnyoneStep, CloseAfterDeadline, CloseVoting, SettleAndEnd,
                      CloseRevealWindow, QueueExecution
<1>6. ASSUME Tick \/ UNCHANGED vars PROVE Same /\ Open' = Open
  BY <1>6 DEF Tick, vars
<1> QED
  BY <1>1, <1>2, <1>3, <1>4, <1>5, <1>6, EscrowSweep DEF Next, Escrow!Next

\* The deposits of a poll, of any size and under every mechanism, behave as the
\* abstract escrow.
THEOREM PollImplementsEscrow ==
    ASSUME NoZeroWord, NoValue PROVE Spec => ImplementsEscrow
<1>1. Types /\ Types' /\ StakeInv /\ StakeInv' /\ Intact /\ Intact'
      /\ [Next]_vars => [Escrow!Next]_(Escrow!vars)
  BY EscrowStep
<1> QED
  BY EscrowInit, TypesHold, StakeInvHolds, IntactHolds, <1>1, PTL
     DEF Spec, ImplementsEscrow, Escrow!Spec

-----------------------------------------------------------------------------
(***************************************************************************)
(* The end of a poll: nothing new is counted once voting has closed, the   *)
(* cached verdict is the one the counts give, and the action that follows  *)
(* it is carried out once, after its timelock.                             *)
(***************************************************************************)

\* What outcome() computes its answer from.
countVars == <<voteCount, optionCount, frozenEligiblePower>>

LEMMA VerdictDepends == UNCHANGED countVars => Verdict' = Verdict
BY DEF countVars, Verdict, QuorumMet, Tally

(***************************************************************************)
(* Sealed ballots.  Modes needs no hypothesis on the commitments here.     *)
(***************************************************************************)

SealInv ==
    /\ Modes
    /\ \A v \in Voters : commitmentOf[v] # None => votedOptions[v] = {}

LEMMA SealInvInit == Init => SealInv
BY DEF Init, SealInv, Modes

LEMMA SealInvVoter ==
    ASSUME Types, SealInv, NEW v \in Voters, VoterStep(v)
    PROVE  SealInv'
<1> USE DEF SealInv, Modes, Types, clockVars, setupVars, ballotVars,
            delegationVars, sealVars, stakeVars, execVars
<1>1. ASSUME NEW to \in Voters \cup {None}, Delegate(v, to) PROVE SealInv'
  BY <1>1 DEF Delegate
<1>2. ASSUME NEW S \in SUBSET Options, Vote(v, S) PROVE SealInv'
  BY <1>2 DEF Vote, CanVote, RecordVote
<1>3. ASSUME NEW S \in SUBSET Options, ChangeVote(v, S) PROVE SealInv'
  BY <1>3 DEF ChangeVote, CanChangeVote, RecordVote
<1>4. CASE WithdrawVote(v)
  BY <1>4 DEF WithdrawVote
<1>5. ASSUME NEW c \in Commitments, Commit(v, c) PROVE SealInv'
  BY <1>5 DEF Commit
<1>6. CASE WithdrawCommitment(v)
  BY <1>6 DEF WithdrawCommitment
<1>7. ASSUME NEW S \in SUBSET Options, Reveal(v, S) PROVE SealInv'
  BY <1>7 DEF Reveal, RecordVote
<1>8. CASE Refund(v)
  BY <1>8 DEF Refund
<1> QED
  BY <1>1, <1>2, <1>3, <1>4, <1>5, <1>6, <1>7, <1>8 DEF VoterStep

LEMMA SealInvRest ==
    ASSUME Types, SealInv, OwnerStep \/ AnyoneStep \/ Tick \/ UNCHANGED vars
    PROVE  SealInv'
<1> USE DEF SealInv, Modes, clockVars, setupVars, ballotVars,
            delegationVars, sealVars, stakeVars, execVars
<1>1. CASE OwnerStep
  BY <1>1 DEF OwnerStep, SetWeights, AddOption, RemoveOption, CanRemoveOption,
     SetWhitelist, CanSetWhitelist, StartPoll, CanStartPoll, EndPoll,
     CloseVoting, CanClose, SettleAndEnd, SweepUnclaimed, CanSweep,
     CancelExecution, CanCancel
<1>2. CASE AnyoneStep
  BY <1>2 DEF AnyoneStep, CloseAfterDeadline, CloseVoting, SettleAndEnd,
      CloseRevealWindow, QueueExecution, Execute, ForceEther
<1>3. CASE Tick \/ UNCHANGED vars
  BY <1>3 DEF Tick, vars
<1> QED
  BY <1>1, <1>2, <1>3

LEMMA SealInvHolds == Spec => []SealInv
<1>1. Types /\ SealInv /\ [Next]_vars => SealInv'
  BY SealInvVoter, SealInvRest DEF Next
<1> QED
  BY SealInvInit, TypesHold, <1>1, PTL DEF Spec

\* Only an opened commitment adds a ballot after the close, and only once.
LEMMA AfterCloseStep ==
    ASSUME Types, SealInv, [Next]_vars, phase \in {"Reveal", "Ended"}
    PROVE  /\ Participants' \subseteq Participants
           /\ \A v \in Voters : votedOptions'[v] # votedOptions[v] =>
                 votedOptions[v] = {} /\ votedOptions'[v] = commitmentOf[v]
<1> USE DEF clockVars, setupVars, ballotVars, delegationVars, sealVars,
            stakeVars, execVars
<1> DEFINE Same == UNCHANGED <<votedOptions, commitmentOf>>
<1>1. ASSUME NEW u \in Voters, NEW S \in SUBSET Options, Reveal(u, S)
      PROVE  /\ Participants' \subseteq Participants
             /\ \A v \in Voters : votedOptions'[v] # votedOptions[v] =>
                   votedOptions[v] = {} /\ votedOptions'[v] = commitmentOf[v]
  <2>1. /\ commitmentOf[u] = S /\ votedOptions[u] = {}
        /\ commitmentOf' = [commitmentOf EXCEPT ![u] = None]
        /\ votedOptions' = [votedOptions EXCEPT ![u] = {} \cup S]
    BY <1>1 DEF Reveal, RecordVote, SealInv
  <2> QED
    BY <1>1, <2>1 DEF Participants, Types, Reveal
<1>2. ASSUME NEW u \in Voters, Refund(u)
      PROVE  UNCHANGED votedOptions /\ Participants' \subseteq Participants
  BY <1>2 DEF Refund, Participants, Types
<1>3. ASSUME NEW u \in Voters, VoterStep(u)
      PROVE  Refund(u) \/ \E S \in SUBSET Options : Reveal(u, S)
                       \/ Same
  BY <1>3 DEF VoterStep, Delegate, Vote, CanVote, ChangeVote, CanChangeVote,
     WithdrawVote, CanWithdrawVote, Commit, WithdrawCommitment,
     CanWithdrawCommitment
<1>4. ASSUME OwnerStep PROVE Same
  BY <1>4 DEF OwnerStep, SetWeights, AddOption, RemoveOption, SetWhitelist,
      StartPoll, EndPoll, CloseVoting, SettleAndEnd, SweepUnclaimed, CancelExecution
<1>5. ASSUME AnyoneStep PROVE Same
  BY <1>5 DEF AnyoneStep, CloseAfterDeadline, CloseVoting, SettleAndEnd,
      CloseRevealWindow, QueueExecution, Execute, ForceEther
<1>6. ASSUME Tick \/ UNCHANGED vars PROVE Same
  BY <1>6 DEF Tick, vars
<1>7. Same => Participants' = Participants
  BY DEF Participants
<1> QED
  BY <1>1, <1>2, <1>3, <1>4, <1>5, <1>6, <1>7 DEF Next

\* Once voting has closed nobody joins, and the ballots that appear are those
\* the commitments fixed, each once, for any voters and any mechanism.
THEOREM ClosedIsClosed == Spec => NothingNewAfterClose
<1>1. Types /\ SealInv /\ [Next]_vars =>
        [(phase \in {"Reveal", "Ended"}) =>
           /\ Participants' \subseteq Participants
           /\ \A v \in Voters : votedOptions'[v] # votedOptions[v] =>
                 /\ votedOptions[v] = {}
                 /\ votedOptions'[v] = commitmentOf[v]]_vars
  BY AfterCloseStep
<1> QED
  BY TypesHold, SealInvHolds, <1>1, PTL DEF Spec, NothingNewAfterClose

(***************************************************************************)
(* Verdict and execution.                                                  *)
(***************************************************************************)

\* The record of the execution, relative to the verdict it follows.
RecordInv ==
    /\ ExecutesAtMostOnce
    /\ execution.done => execution.queued
    /\ execution.queued =>
          /\ phase = "Ended" /\ outcomeState = "Passed"
          /\ execution.readyAt >= votingEndedAt + Config.timelockSeconds

VerdictInv == CachedVerdictIsCurrent /\ votingEndedAt <= now /\ RecordInv

\* A step ends the poll, with the verdict of that moment, or leaves alone what
\* the result is read from; whatever has ended stays as it is.
LEMMA ResultStep ==
    ASSUME Types, [Next]_vars
    PROVE  \/ /\ phase # "Ended" /\ phase' = "Ended"
              /\ outcomeState' = Verdict
              /\ UNCHANGED countVars /\ UNCHANGED execVars
           \/ /\ phase # "Ended" /\ phase' # "Ended"
              /\ UNCHANGED outcomeState
           \/ /\ phase = "Ended"
              /\ UNCHANGED <<phase, votingEndedAt, outcomeState>>
              /\ UNCHANGED countVars
<1> USE DEF clockVars, setupVars, ballotVars, delegationVars, sealVars,
            stakeVars, execVars, countVars
<1>1. CASE OwnerStep
  BY <1>1 DEF OwnerStep, SetWeights, AddOption, RemoveOption, CanRemoveOption,
     SetWhitelist, CanSetWhitelist, StartPoll, CanStartPoll, EndPoll,
     CloseVoting, CanClose, SettleAndEnd, SweepUnclaimed, CanSweep,
     CancelExecution, CanCancel
<1>2. ASSUME NEW v \in Voters, VoterStep(v)
      PROVE  \/ /\ phase # "Ended" /\ phase' # "Ended" /\ UNCHANGED outcomeState
             \/ /\ phase = "Ended"
                /\ UNCHANGED <<phase, votingEndedAt, outcomeState, countVars>>
  BY <1>2 DEF VoterStep, Delegate, Vote, CanVote, ChangeVote, CanChangeVote,
     WithdrawVote, CanWithdrawVote, Commit, WithdrawCommitment,
     CanWithdrawCommitment, Reveal, Refund, CanRefund
<1>3. CASE AnyoneStep
  BY <1>3 DEF AnyoneStep, CloseAfterDeadline, CanCloseAfterDeadline,
     CloseVoting, CanClose, SettleAndEnd, CloseRevealWindow,
     CanCloseRevealWindow, QueueExecution, CanQueue, Execute, CanExecute,
     ForceEther
<1>4. CASE Tick \/ UNCHANGED vars
  BY <1>4 DEF Tick, vars
<1> QED
  BY <1>1, <1>2, <1>3, <1>4 DEF Next

LEMMA VerdictInvInit == Init => VerdictInv
BY DEF Init, VerdictInv, RecordInv, CachedVerdictIsCurrent, Outcome,
       ExecutesAtMostOnce, NoExecution

LEMMA ClockStep ==
    ASSUME Types, [Next]_vars, votingEndedAt <= now
    PROVE  votingEndedAt' <= now'
<1> USE DEF Types, clockVars, setupVars, ballotVars, delegationVars, sealVars,
            stakeVars, execVars
<1> DEFINE Clock == \/ UNCHANGED <<now, votingEndedAt>>
                    \/ votingEndedAt' = now /\ now' = now
<1>1. ASSUME OwnerStep PROVE Clock
  BY <1>1 DEF OwnerStep, SetWeights, AddOption, RemoveOption, SetWhitelist,
      StartPoll, EndPoll, CloseVoting, SettleAndEnd, SweepUnclaimed, CancelExecution
<1>2. ASSUME NEW v \in Voters, VoterStep(v) PROVE Clock
  BY <1>2 DEF VoterStep, Delegate, Vote, ChangeVote, WithdrawVote, Commit,
              WithdrawCommitment, Reveal, Refund
<1>3. ASSUME AnyoneStep PROVE Clock
  BY <1>3 DEF AnyoneStep, CloseAfterDeadline, CloseVoting, SettleAndEnd,
      CloseRevealWindow, QueueExecution, Execute, ForceEther
<1>4. CASE Tick \/ UNCHANGED vars
  BY <1>4 DEF Tick, vars
<1> QED
  BY <1>1, <1>2, <1>3, <1>4 DEF Next

\* What the three handlers make of the record.
LEMMA RecordKeeps ==
    ASSUME Types, VerdictInv,
           \/ \E value \in Values : QueueExecution(value)
           \/ \E ok \in BOOLEAN : Execute(ok)
           \/ CancelExecution
    PROVE  RecordInv'
<1> USE DEF clockVars, VerdictInv, RecordInv, ExecutesAtMostOnce
<1>0. /\ now \in Nat /\ votingEndedAt \in Nat /\ Config.timelockSeconds \in Nat
      /\ execution \in Executions
  BY ConfigFields DEF Types
<1>1. ASSUME NEW value \in Values, QueueExecution(value) PROVE RecordInv'
  <2>1. phase = "Ended" /\ outcomeState = "Passed"
    BY <1>1 DEF QueueExecution, CanQueue, Outcome, CachedVerdictIsCurrent
  <2>2. UNCHANGED <<phase, votingEndedAt, outcomeState, performed>> /\ ~execution.done
    BY <1>1 DEF QueueExecution, CanQueue
  <2>3. /\ execution'.queued /\ ~execution'.done
        /\ execution'.readyAt = now + Config.timelockSeconds
    BY <1>1 DEF QueueExecution
  <2>4. execution'.readyAt >= votingEndedAt' + Config.timelockSeconds
    BY <1>0, <2>2, <2>3
  <2> QED
    BY <2>1, <2>2, <2>3, <2>4
<1>2. ASSUME NEW ok \in BOOLEAN, Execute(ok) PROVE RecordInv'
  <2>1. /\ execution.queued /\ ~execution.done /\ performed = 0
        /\ UNCHANGED <<phase, votingEndedAt, outcomeState>>
    BY <1>2 DEF Execute, CanExecute
  <2>2. execution'.queued /\ execution'.readyAt = execution.readyAt
    BY <1>0, <1>2 DEF Execute, CanExecute, Executions
  <2>3. \/ execution'.done = TRUE /\ performed' = performed + 1
        \/ execution'.done = execution.done /\ performed' = performed
    BY <1>0, <1>2 DEF Execute, Executions
  <2>4. performed' = IF execution'.done THEN 1 ELSE 0
    BY <2>1, <2>3
  <2> QED
    BY <2>1, <2>2, <2>4
<1>3. CASE CancelExecution
  BY <1>3 DEF CancelExecution, CanCancel, NoExecution
<1> QED
  BY <1>1, <1>2, <1>3

LEMMA VerdictInvStep ==
    ASSUME Types, VerdictInv, [Next]_vars
    PROVE  VerdictInv'
<1>1. votingEndedAt' <= now'
  BY ClockStep DEF VerdictInv
<1>2. CachedVerdictIsCurrent'
  BY ResultStep, VerdictDepends DEF VerdictInv, CachedVerdictIsCurrent, Outcome
<1>3. RecordInv'
  <2>1. CASE UNCHANGED execVars
    <3>1. execution.queued => UNCHANGED <<phase, votingEndedAt, outcomeState>>
      BY ResultStep DEF VerdictInv, RecordInv
    <3> QED
      BY <2>1, <3>1 DEF VerdictInv, RecordInv, ExecutesAtMostOnce, execVars
  <2> QED
    BY <2>1, ExecutionStep, RecordKeeps
<1> QED
  BY <1>1, <1>2, <1>3 DEF VerdictInv

LEMMA VerdictInvHolds == Spec => []VerdictInv
BY VerdictInvInit, TypesHold, VerdictInvStep, PTL DEF Spec

\* The verdict cached when the poll ends is the one outcome() computes ever after.
THEOREM VerdictIsFinal == Spec => []CachedVerdictIsCurrent
BY VerdictInvHolds, PTL DEF VerdictInv

\* The action of a poll is carried out once at most.
THEOREM CarriedOutOnce == Spec => []ExecutesAtMostOnce
BY VerdictInvHolds, PTL DEF VerdictInv, RecordInv

\* It is carried out for a poll that passed, a whole timelock after its end.
THEOREM TimelockIsKept == Spec => TimelockHonoured
<1>1. Types /\ VerdictInv /\ [Next]_vars =>
        [performed' # performed =>
           /\ outcomeState = "Passed"
           /\ now >= votingEndedAt + Config.timelockSeconds]_vars
  <2> SUFFICES ASSUME Types, VerdictInv, [Next]_vars, performed' # performed
               PROVE  /\ outcomeState = "Passed"
                      /\ now >= votingEndedAt + Config.timelockSeconds
    OBVIOUS
  <2>1. PICK ok \in BOOLEAN : Execute(ok)
    BY ExecutionStep DEF execVars, QueueExecution, CancelExecution
  <2>2. execution.queued /\ now >= execution.readyAt
    BY <2>1 DEF Execute, CanExecute
  <2>3. execution.readyAt \in Nat /\ now \in Nat /\ votingEndedAt \in Nat
    BY DEF Types, Executions
  <2> QED
    BY <2>2, <2>3, ConfigFields DEF VerdictInv, RecordInv
<1> QED
  BY TypesHold, VerdictInvHolds, <1>1, PTL DEF Spec, TimelockHonoured

\* The whitelist may be edited until the poll ends; no edit moves the verdict.
THEOREM WhitelistMovesNoVerdict == Spec => EditsMoveNoVerdict
<1>1. [Next]_vars =>
        [(isWhitelisted' # isWhitelisted /\ phase # "Setup") => Verdict' = Verdict]_vars
  <2> SUFFICES ASSUME [Next]_vars, isWhitelisted' # isWhitelisted
               PROVE  Verdict' = Verdict
    OBVIOUS
  <2> USE DEF clockVars, setupVars, ballotVars, delegationVars, sealVars,
              stakeVars, execVars
  <2>1. \E vs \in SUBSET Voters, allowed \in BOOLEAN : SetWhitelist(vs, allowed)
    <3>1. ~(AnyoneStep \/ Tick \/ UNCHANGED vars)
      BY DEF AnyoneStep, CloseAfterDeadline, CloseVoting, SettleAndEnd,
          CloseRevealWindow, QueueExecution, Execute, ForceEther, Tick, vars
    <3>2. ASSUME NEW v \in Voters, VoterStep(v) PROVE FALSE
      BY <3>2 DEF VoterStep, Delegate, Vote, ChangeVote, WithdrawVote, Commit,
                  WithdrawCommitment, Reveal, Refund
    <3> QED
      BY <3>1, <3>2 DEF Next, OwnerStep, SetWeights, AddOption, RemoveOption,
          StartPoll, EndPoll, CloseVoting, SettleAndEnd, SweepUnclaimed,
          CancelExecution
  <2>2. UNCHANGED countVars
    BY <2>1 DEF SetWhitelist, countVars
  <2> QED
    BY <2>2, VerdictDepends
<1> QED
  BY <1>1, PTL DEF Spec, EditsMoveNoVerdict
-----------------------------------------------------------------------------
(***************************************************************************)
(* Power: what the delegations of a poll move, what its ballots carry and  *)
(* what its options count, for any number of voters and any weights.       *)
(*                                                                         *)
(* Three facts make the books inductive beyond what they say themselves:   *)
(* a ballot always weighs something, so that a power of zero does mean     *)
(* that there is no ballot; nobody delegates during setup, while weights   *)
(* still move; and a poll that delegates does not seal its ballots.        *)
(***************************************************************************)


BallotsWeigh == \A v \in Voters : votedOptions[v] # {} => OwnPowerOf(v) # 0

DelegationsAllowed ==
    (\E v \in Voters : delegatedTo[v] # None) => Config.delegable /\ phase # "Setup"

PowerInv ==
    /\ SealInv
    /\ DelegationBooks
    /\ BallotCarriesControlledPower
    /\ BallotsWeigh
    /\ DelegationsAllowed

\* What the books are kept about.
powerVars == <<weightOf, votedOptions, votingPowerOf, delegationVars>>

Controlled == [v \in Voters |-> ControlledPowerOf(v)]

(***************************************************************************)
(* Delegators and what they bring.                                         *)
(***************************************************************************)

LEMMA NotSealedAndDelegable == ~(Config.commitReveal /\ Config.delegable)
BY ConfigAssumption DEF Validate

LEMMA DelegatorsFinite ==
    ASSUME NEW d PROVE IsFiniteSet(DelegatorsOf(d)) /\ DelegatorsOf(d) \subseteq Voters
BY VotersAssumption, FS_Subset DEF DelegatorsOf

LEMMA DelegatedPowerType ==
    ASSUME Types, NEW d PROVE Total(OwnPower, DelegatorsOf(d)) \in Nat
<1>1. \A v \in DelegatorsOf(d) : OwnPower[v] \in Nat
  BY OwnPowerType DEF Types, DelegatorsOf
<1> QED
  BY <1>1, DelegatorsFinite, TotalType

LEMMA NobodyBringsNothing ==
    ASSUME NEW d, DelegatorsOf(d) = {}
    PROVE  Total(OwnPower, DelegatorsOf(d)) = 0 /\ Cardinality(DelegatorsOf(d)) = 0
BY TotalEmpty, FS_EmptySet

\* Whoever holds no delegation is nobody's delegate, and the other way round.
LEMMA CountTellsDelegates ==
    ASSUME DelegationBooks, NEW v \in Voters
    PROVE  delegateCountOf[v] = 0 <=> DelegatorsOf(v) = {}
BY DelegatorsFinite, FS_EmptySet DEF DelegationBooks

\* A ballot is worth nothing exactly when there is none.
LEMMA PowerTellsBallots ==
    ASSUME Types, PowerInv, NEW v \in Voters
    PROVE  /\ votingPowerOf[v] \in Nat
           /\ votingPowerOf[v] = 0 <=> votedOptions[v] = {}
<1>1. OwnPowerOf(v) \in Nat
  BY OwnPowerType DEF Types, OwnPower
<1> QED
  BY <1>1, DelegatedPowerType DEF PowerInv, BallotCarriesControlledPower, BallotsWeigh

\* Nothing the books are kept about moves, and no poll returns to its setup.
LEMMA PowerUntouched ==
    ASSUME PowerInv, SealInv', UNCHANGED powerVars, phase' = "Setup" => phase = "Setup"
    PROVE  PowerInv' /\ Controlled' = Controlled /\ OwnPower' = OwnPower
<1> USE DEF powerVars, delegationVars
<1>1. OwnPower' = OwnPower /\ \A v \in Voters : OwnPowerOf(v)' = OwnPowerOf(v)
  BY DEF OwnPower, OwnPowerOf
<1>2. \A d \in Voters : DelegatorsOf(d)' = DelegatorsOf(d)
  BY DEF DelegatorsOf
<1>3. Controlled' = Controlled
  BY <1>1 DEF Controlled, ControlledPowerOf
<1>4. DelegationBooks'
  BY <1>1, <1>2 DEF PowerInv, DelegationBooks, SingleHop
<1>5. BallotCarriesControlledPower'
  BY <1>1, <1>2 DEF PowerInv, BallotCarriesControlledPower
<1>6. BallotsWeigh' /\ DelegationsAllowed'
  BY <1>1 DEF PowerInv, BallotsWeigh, DelegationsAllowed
<1> QED
  BY <1>1, <1>3, <1>4, <1>5, <1>6 DEF PowerInv

(***************************************************************************)
(* Delegate: given, moved or taken back.                                   *)
(***************************************************************************)

\* What the guards of delegate() establish about the addresses it touches.
LEMMA DelegateTouches ==
    ASSUME Types, PowerInv, NEW v \in Voters, NEW to \in Voters \cup {None},
           Delegate(v, to)
    PROVE  /\ to # v /\ to # delegatedTo[v] /\ delegatedTo[v] # v
           /\ votedOptions[v] = {} /\ DelegatorsOf(v) = {}
           /\ to # None => to \in Voters /\ delegatedTo[to] = None /\ votedOptions[to] = {}
           /\ delegatedTo[v] # None =>
                 /\ delegatedTo[v] \in Voters
                 /\ delegatedTo[delegatedTo[v]] = None
                 /\ votedOptions[delegatedTo[v]] = {}
<1>1. /\ to # v /\ to # delegatedTo[v] /\ votedOptions[v] = {}
      /\ to # None => MayReceive(v, to)
      /\ MayLeave(delegatedTo[v])
  BY DEF Delegate
<1>2. to # None => DelegatorsOf(v) = {}
  BY <1>1, CountTellsDelegates DEF MayReceive, PowerInv
<1>3. delegatedTo[v] # None => DelegatorsOf(v) = {}
  BY VotersAssumption DEF PowerInv, DelegationBooks, SingleHop, DelegatorsOf
<1>4. to # None => to \in Voters /\ delegatedTo[to] = None /\ votedOptions[to] = {}
  BY <1>1, PowerTellsBallots DEF MayReceive
<1>5. delegatedTo[v] # None =>
         /\ delegatedTo[v] \in Voters /\ delegatedTo[v] # v
         /\ delegatedTo[delegatedTo[v]] = None
         /\ votedOptions[delegatedTo[v]] = {}
  BY <1>1, PowerTellsBallots DEF MayLeave, Types, PowerInv, DelegationBooks, SingleHop
<1> QED
  BY <1>1, <1>2, <1>3, <1>4, <1>5, VotersAssumption

LEMMA DelegatorsMove ==
    ASSUME Types, NEW v \in Voters, NEW to \in Voters \cup {None}, NEW d \in Voters,
           delegatedTo' = [delegatedTo EXCEPT ![v] = to], to # delegatedTo[v]
    PROVE  /\ DelegatorsOf(d)' = IF d = to THEN DelegatorsOf(d) \cup {v}
                                 ELSE IF d = delegatedTo[v] THEN DelegatorsOf(d) \ {v}
                                 ELSE DelegatorsOf(d)
           /\ d = to => v \notin DelegatorsOf(d)
           /\ d = delegatedTo[v] => v \in DelegatorsOf(d)
BY DEF DelegatorsOf, Types

LEMMA DelegateKeeps ==
    ASSUME Types, PowerInv, SealInv', NEW v \in Voters,
           NEW to \in Voters \cup {None}, Delegate(v, to)
    PROVE  PowerInv'
<1> DEFINE current == delegatedTo[v]
<1> USE DEF setupVars, ballotVars, clockVars
<1>1. /\ delegatedTo' = [delegatedTo EXCEPT ![v] = to]
      /\ UNCHANGED <<weightOf, votedOptions, votingPowerOf, phase>>
      /\ Config.delegable /\ phase = "Voting"
  BY DEF Delegate
<1>2. OwnPower' = OwnPower /\ \A u \in Voters : OwnPowerOf(u)' = OwnPowerOf(u)
  BY <1>1 DEF OwnPower, OwnPowerOf
<1>0. to # current
  BY DEF Delegate
<1>3. SingleHop'
  <2> SUFFICES ASSUME NEW u \in Voters, delegatedTo'[u] # None
               PROVE  /\ delegatedTo'[u] # u
                      /\ delegatedTo'[delegatedTo'[u]] = None
                      /\ votedOptions[u] = {}
    BY <1>1 DEF SingleHop
  <2>1. CASE u = v
    BY <1>1, <2>1, DelegateTouches DEF Types
  <2>2. CASE u # v
    <3>1. /\ delegatedTo'[u] = delegatedTo[u] /\ delegatedTo[u] \in Voters
          /\ delegatedTo[u] # u /\ delegatedTo[delegatedTo[u]] = None
          /\ votedOptions[u] = {}
      BY <1>1, <2>2 DEF Types, PowerInv, DelegationBooks, SingleHop
    <3>2. delegatedTo[u] # v
      BY DelegateTouches, <3>1 DEF DelegatorsOf
    <3> QED
      BY <1>1, <3>1, <3>2 DEF Types
  <2> QED
    BY <2>1, <2>2
<1>4. ASSUME NEW d \in Voters
      PROVE  /\ delegateCountOf'[d] = Cardinality(DelegatorsOf(d)')
             /\ delegatedSurplus'[d] = Total(OwnPower, DelegatorsOf(d)')
  <2> DEFINE D == DelegatorsOf(d)
  <2>1. /\ delegateCountOf[d] = Cardinality(D) /\ delegatedSurplus[d] = Total(OwnPower, D)
        /\ IsFiniteSet(D) /\ \A u \in D \cup {v} : OwnPower[u] \in Nat
        /\ Cardinality(D) \in Nat /\ Total(OwnPower, D) \in Nat
    BY DelegatorsFinite, OwnPowerType, FS_CardinalityType, DelegatedPowerType
       DEF PowerInv, DelegationBooks, Types
  <2>2. OwnPower[v] = OwnPowerOf(v)
    BY DEF OwnPower
  <2>3. CASE d = to
    <3>1. DelegatorsOf(d)' = D \cup {v} /\ v \notin D
      BY <1>1, <2>3, DelegateTouches, DelegatorsMove
    <3>2. Cardinality(D \cup {v}) = Cardinality(D) + 1
      BY <2>1, <3>1, FS_AddElement
    <3>4. Total(OwnPower, D \cup {v}) = Total(OwnPower, D) + OwnPower[v]
      <4>1. v \notin D /\ IsFiniteSet(D) /\ \A u \in D \cup {v} : OwnPower[u] \in Nat
        BY <2>1, <3>1
      <4> HIDE DEF D
      <4> QED  BY <4>1, TotalAdd
    <3>3. /\ delegateCountOf'[d] = delegateCountOf[d] + 1
          /\ delegatedSurplus'[d] = delegatedSurplus[d] + OwnPowerOf(v)
      BY <2>3 DEF Delegate
    <3> QED
      BY <2>1, <2>2, <3>1, <3>2, <3>3, <3>4
  <2>4. CASE d # to /\ d = current
    <3>1. DelegatorsOf(d)' = D \ {v} /\ v \in D
      BY <1>1, <2>4, DelegateTouches, DelegatorsMove
    <3>2. IsFiniteSet(D \ {v}) /\ Cardinality(D \ {v}) = Cardinality(D) - 1
      BY <2>1, <3>1, FS_RemoveElement
    <3>5. Total(OwnPower, D) = Total(OwnPower, D \ {v}) + OwnPower[v]
      <4> HIDE DEF D
      <4> QED  BY <2>1, <3>1, TotalRemove
    <3>3. Total(OwnPower, D \ {v}) \in Nat /\ OwnPower[v] \in Nat
      BY <2>1, <3>2, TotalType
    <3>4. /\ delegateCountOf'[d] = delegateCountOf[d] - 1
          /\ delegatedSurplus'[d] = delegatedSurplus[d] - OwnPowerOf(v)
      BY <2>4 DEF Delegate
    <3> QED
      BY <2>1, <2>2, <3>1, <3>2, <3>3, <3>4, <3>5
  <2>5. CASE d # to /\ d # current
    <3>1. DelegatorsOf(d)' = D
      BY <1>0, <1>1, <2>5, DelegatorsMove
    <3> QED
      BY <2>1, <2>5, <3>1 DEF Delegate
  <2> QED
    BY <2>3, <2>4, <2>5
<1>5. DelegationBooks'
  BY <1>2, <1>3, <1>4 DEF DelegationBooks
<1>6. BallotCarriesControlledPower'
  <2> SUFFICES ASSUME NEW u \in Voters, votedOptions[u] # {}
               PROVE  DelegatorsOf(u)' = DelegatorsOf(u)
    BY <1>1, <1>2 DEF PowerInv, BallotCarriesControlledPower
  <2>1. u # to /\ u # current
    BY DelegateTouches, VotersAssumption
  <2> QED
    BY <1>0, <1>1, <2>1, DelegatorsMove
<1>7. BallotsWeigh' /\ DelegationsAllowed'
  BY <1>1, <1>2 DEF PowerInv, BallotsWeigh, DelegationsAllowed
<1> QED
  BY <1>5, <1>6, <1>7 DEF PowerInv

(***************************************************************************)
(* What an address controls.                                               *)
(***************************************************************************)

\* Ballot or none, an address controls what it brings and what was handed to
\* it, unless it handed its own vote away.
ControlIsBooked ==
    \A v \in Voters :
        /\ Controlled[v] = IF delegatedTo[v] # None THEN 0
                           ELSE OwnPowerOf(v) + delegatedSurplus[v]
        /\ Controlled[v] \in Nat

LEMMA ControlledIs == Types /\ PowerInv => ControlIsBooked
<1> SUFFICES ASSUME Types, PowerInv, NEW v \in Voters
             PROVE  /\ ControlledPowerOf(v) = IF delegatedTo[v] # None THEN 0
                                              ELSE OwnPowerOf(v) + delegatedSurplus[v]
                    /\ ControlledPowerOf(v) \in Nat
  BY DEF ControlIsBooked, Controlled
<1>1. /\ delegatedSurplus[v] = Total(OwnPower, DelegatorsOf(v))
      /\ delegatedSurplus[v] \in Nat
  BY DelegatedPowerType DEF PowerInv, DelegationBooks
<1>2. votingPowerOf[v] # 0 => votingPowerOf[v] = OwnPowerOf(v) + delegatedSurplus[v]
  BY <1>1 DEF PowerInv, BallotCarriesControlledPower
<1>3. OwnPowerOf(v) \in Nat
  BY OwnPowerType DEF Types, OwnPower
<1> QED
  BY <1>1, <1>2, <1>3 DEF ControlledPowerOf

\* A delegation moves power between two addresses.
LEMMA DelegateConserves ==
    ASSUME Types, PowerInv, Types', PowerInv', NEW v \in Voters,
           NEW to \in Voters \cup {None}, Delegate(v, to)
    PROVE  /\ OwnPower' = OwnPower
           /\ Total(Controlled', Voters) = Total(Controlled, Voters)
<1> DEFINE current == delegatedTo[v]
           own == OwnPowerOf(v)
<1>1. UNCHANGED weightOf /\ delegatedTo' = [delegatedTo EXCEPT ![v] = to]
  BY DEF Delegate, setupVars
<1>2. OwnPower' = OwnPower /\ \A u \in Voters : OwnPowerOf(u)' = OwnPowerOf(u)
  BY <1>1 DEF OwnPower, OwnPowerOf
<1>3. ControlIsBooked /\ ControlIsBooked'
  BY ControlledIs, PTL
<1>4. ASSUME NEW u \in Voters
      PROVE  /\ Controlled[u] = IF delegatedTo[u] # None THEN 0
                                ELSE OwnPowerOf(u) + delegatedSurplus[u]
             /\ Controlled[u] \in Nat
  BY <1>3 DEF ControlIsBooked
<1>5. ASSUME NEW u \in Voters
      PROVE  /\ Controlled'[u] = IF delegatedTo'[u] # None THEN 0
                                 ELSE OwnPowerOf(u) + delegatedSurplus'[u]
             /\ Controlled'[u] \in Nat
  BY <1>2, <1>3 DEF ControlIsBooked
<1>6. /\ own \in Nat /\ delegatedSurplus[v] = 0
      /\ \A u \in Voters : OwnPowerOf(u) \in Nat /\ delegatedSurplus[u] \in Int
  <2>1. DelegatorsOf(v) = {}
    BY DelegateTouches
  <2>2. delegatedSurplus[v] = 0
    BY <2>1, NobodyBringsNothing DEF PowerInv, DelegationBooks
  <2> QED
    BY <2>2, OwnPowerType DEF Types, OwnPower
<1>7. /\ delegatedTo'[v] = to /\ to # v /\ to # current /\ current # v
      /\ \A u \in Voters \ {v} : delegatedTo'[u] = delegatedTo[u]
  BY <1>1, DelegateTouches DEF Types
<1>8. \A u \in Voters :
         delegatedSurplus'[u] = IF u = to THEN delegatedSurplus[u] + own
                                ELSE IF u = current THEN delegatedSurplus[u] - own
                                ELSE delegatedSurplus[u]
  BY DEF Delegate
<1>9. /\ to # None => to \in Voters /\ delegatedTo[to] = None
      /\ current # None => current \in Voters /\ delegatedTo[current] = None
  BY DelegateTouches
<1>10. \A u \in Voters \ {v, to, current} : Controlled'[u] = Controlled[u]
  BY <1>4, <1>5, <1>7, <1>8
<1>11. v \in Voters /\ v # None
  BY VotersAssumption
<1>12. /\ Controlled[v] = IF current = None THEN own ELSE 0
       /\ Controlled'[v] = IF to = None THEN own ELSE 0
  BY <1>4, <1>5, <1>6, <1>7, <1>8, <1>11
<1>13. to # None => Controlled'[to] = Controlled[to] + own
  BY <1>4, <1>5, <1>6, <1>7, <1>8, <1>9
<1>14. current # None => Controlled'[current] = Controlled[current] - own
  BY <1>4, <1>5, <1>6, <1>7, <1>8, <1>9
<1>15. ASSUME NEW x \in Voters, NEW y \in Voters, x # y,
              \A u \in Voters \ {x, y} : Controlled'[u] = Controlled[u],
              Controlled[x] + Controlled[y] = Controlled'[x] + Controlled'[y]
       PROVE  Total(Controlled', Voters) = Total(Controlled, Voters)
  <2>1. \A u \in Voters : Controlled[u] \in Nat /\ Controlled'[u] \in Nat
    BY <1>4, <1>5
  <2> QED
    BY ONLY <1>15, <2>1, VotersAssumption, TotalTransfer
<1> HIDE DEF own, current
<1>16. CASE to = None
  <2>1. /\ current \in Voters /\ current # v
        /\ \A u \in Voters \ {v, current} : Controlled'[u] = Controlled[u]
    BY <1>7, <1>9, <1>10, <1>11, <1>16, VotersAssumption
  <2>2. Controlled[v] + Controlled[current] = Controlled'[v] + Controlled'[current]
    BY <1>4, <1>6, <1>7, <1>12, <1>14, <1>16, <2>1
  <2> QED
    BY <1>2, <1>15, <2>1, <2>2
<1>17. CASE current = None
  <2>1. /\ to \in Voters /\ to # v
        /\ \A u \in Voters \ {v, to} : Controlled'[u] = Controlled[u]
    BY <1>7, <1>9, <1>10, <1>11, <1>17, VotersAssumption
  <2>2. Controlled[v] + Controlled[to] = Controlled'[v] + Controlled'[to]
    BY <1>4, <1>6, <1>7, <1>12, <1>13, <1>17, <2>1
  <2> QED
    BY <1>2, <1>15, <2>1, <2>2
<1>18. CASE to # None /\ current # None
  <2>1. /\ to \in Voters /\ current \in Voters /\ to # current
        /\ Controlled'[v] = Controlled[v]
    BY <1>7, <1>9, <1>12, <1>18
  <2>2. \A u \in Voters \ {to, current} : Controlled'[u] = Controlled[u]
    BY <1>10, <2>1
  <2>3. Controlled[to] + Controlled[current] = Controlled'[to] + Controlled'[current]
    BY <1>4, <1>6, <1>13, <1>14, <1>18, <2>1
  <2> QED
    BY <1>2, <1>15, <2>1, <2>2, <2>3
<1> QED
  BY <1>16, <1>17, <1>18

(***************************************************************************)
(* Ballots and weights.                                                    *)
(***************************************************************************)

\* A ballot that appears, changes or goes, with what its holder controls.
LEMMA BallotKeeps ==
    ASSUME Types, PowerInv, SealInv', NEW v \in Voters, NEW B, NEW p,
           UNCHANGED <<weightOf, delegationVars, phase>>,
           votedOptions' = [votedOptions EXCEPT ![v] = B],
           votingPowerOf' = [votingPowerOf EXCEPT ![v] = p],
           delegatedTo[v] = None,
           B = {} => p = 0,
           B # {} => /\ OwnPowerOf(v) # 0
                     /\ p = OwnPowerOf(v) + Total(OwnPower, DelegatorsOf(v))
    PROVE  PowerInv' /\ OwnPower' = OwnPower
<1> USE DEF delegationVars
<1>1. OwnPower' = OwnPower /\ \A u \in Voters : OwnPowerOf(u)' = OwnPowerOf(u)
  BY DEF OwnPower, OwnPowerOf
<1>2. \A d \in Voters : DelegatorsOf(d)' = DelegatorsOf(d)
  BY DEF DelegatorsOf
<1>3. SingleHop'
  BY DEF SingleHop, PowerInv, DelegationBooks, Types
<1>4. DelegationBooks'
  BY <1>1, <1>2, <1>3 DEF PowerInv, DelegationBooks
<1>5. BallotCarriesControlledPower'
  BY <1>1, <1>2 DEF PowerInv, BallotCarriesControlledPower, Types
<1>6. BallotsWeigh' /\ DelegationsAllowed'
  BY <1>1 DEF PowerInv, BallotsWeigh, DelegationsAllowed, Types
<1> QED
  BY <1>1, <1>4, <1>5, <1>6 DEF PowerInv

\* The four handlers that record a ballot or clear it.
BallotStep(v) ==
    \/ \E S \in SUBSET Options : Vote(v, S) \/ ChangeVote(v, S) \/ Reveal(v, S)
    \/ WithdrawVote(v)

LEMMA BallotStepKeeps ==
    ASSUME Types, PowerInv, SealInv', NEW v \in Voters, BallotStep(v)
    PROVE  PowerInv' /\ OwnPower' = OwnPower /\ UNCHANGED delegatedTo
                     /\ UNCHANGED delegatedSurplus
<1> USE DEF clockVars, setupVars, delegationVars
<1> DEFINE worth == OwnPowerOf(v) + Total(OwnPower, DelegatorsOf(v))
<1>1. UNCHANGED <<weightOf, delegationVars, phase>>
  BY DEF BallotStep, Vote, ChangeVote, Reveal, WithdrawVote
<1>2. delegatedSurplus[v] = Total(OwnPower, DelegatorsOf(v))
  BY DEF PowerInv, DelegationBooks
<1>3. votedOptions[v] # {} => /\ delegatedTo[v] = None /\ OwnPowerOf(v) # 0
                              /\ votingPowerOf[v] = worth
  BY DEF PowerInv, DelegationBooks, SingleHop, BallotsWeigh,
         BallotCarriesControlledPower
<1>4. HasPower(v) => OwnPowerOf(v) # 0
  BY DEF HasPower, OwnPowerOf
<1>5. ASSUME NEW S \in SUBSET Options, Vote(v, S) PROVE PowerInv' /\ OwnPower' = OwnPower
  <2>1. /\ votedOptions' = [votedOptions EXCEPT ![v] = {} \cup S]
        /\ votingPowerOf' = [votingPowerOf EXCEPT ![v] = OwnPowerOf(v) + delegatedSurplus[v]]
        /\ S # {} /\ delegatedTo[v] = None /\ OwnPowerOf(v) # 0
    BY <1>4, <1>5 DEF Vote, CanVote, RecordVote, Selectable
  <2> QED
    BY <1>1, <1>2, <2>1, BallotKeeps
<1>6. ASSUME NEW S \in SUBSET Options, ChangeVote(v, S)
      PROVE  PowerInv' /\ OwnPower' = OwnPower
  <2>1. /\ votedOptions' = [votedOptions EXCEPT ![v] = {} \cup S]
        /\ votingPowerOf' = [votingPowerOf EXCEPT ![v] = votingPowerOf[v]]
        /\ S # {} /\ votedOptions[v] # {}
    BY <1>6 DEF ChangeVote, CanChangeVote, RecordVote, Selectable
  <2> QED
    BY <1>1, <1>3, <2>1, BallotKeeps
<1>7. ASSUME NEW S \in SUBSET Options, Reveal(v, S)
      PROVE  PowerInv' /\ OwnPower' = OwnPower
  <2>1. /\ votedOptions' = [votedOptions EXCEPT ![v] = votedOptions[v] \cup S]
        /\ votingPowerOf' = [votingPowerOf EXCEPT ![v] = OwnPowerOf(v)]
        /\ S # {} /\ OwnPowerOf(v) # 0 /\ phase = "Reveal"
    BY <1>4, <1>7 DEF Reveal, RecordVote, Selectable
  <2>2. \A u \in Voters : delegatedTo[u] = None
    BY <2>1, NotSealedAndDelegable DEF PowerInv, SealInv, Modes, DelegationsAllowed
  <2>3. Total(OwnPower, DelegatorsOf(v)) = 0
    BY <2>2, VotersAssumption, NobodyBringsNothing DEF DelegatorsOf
  <2>4. OwnPowerOf(v) = worth
    BY <2>3, OwnPowerType DEF Types, OwnPower
  <2> QED
    BY <1>1, <2>1, <2>2, <2>4, BallotKeeps
<1>8. CASE WithdrawVote(v)
  <2>1. /\ votedOptions' = [votedOptions EXCEPT ![v] = {}]
        /\ votingPowerOf' = [votingPowerOf EXCEPT ![v] = 0]
        /\ votedOptions[v] # {}
    BY <1>8 DEF WithdrawVote, CanWithdrawVote
  <2> QED
    BY <1>1, <1>3, <2>1, BallotKeeps
<1> QED
  BY <1>1, <1>5, <1>6, <1>7, <1>8 DEF BallotStep

\* Weights move during setup only: nobody has delegated, nobody has voted.
LEMMA SetWeightsKeeps ==
    ASSUME Types, PowerInv, SealInv', NEW vs \in SUBSET Voters,
           NEW w \in [vs -> Weights], SetWeights(w)
    PROVE  PowerInv' /\ PowerConserved'
<1> USE DEF clockVars, ballotVars, delegationVars
<1>1. /\ phase = "Setup" /\ UNCHANGED <<phase, votedOptions, votingPowerOf, delegationVars>>
  BY DEF SetWeights
<1>2. \A v \in Voters : /\ votedOptions[v] = {} /\ votingPowerOf[v] = 0
                        /\ delegatedTo[v] = None
  BY <1>1 DEF PowerInv, SealInv, Modes, DelegationsAllowed, BallotCarriesControlledPower
<1>3. \A d \in Voters : DelegatorsOf(d) = {} /\ DelegatorsOf(d)' = {}
  BY <1>1, <1>2, VotersAssumption DEF DelegatorsOf
<1>4. \A d \in Voters : delegateCountOf[d] = 0 /\ delegatedSurplus[d] = 0
  BY <1>3, NobodyBringsNothing DEF PowerInv, DelegationBooks
<1>5. DelegationBooks'
  <2>1. SingleHop'
    BY <1>1, <1>2 DEF SingleHop
  <2>2. Total(OwnPower', {}) = 0 /\ Cardinality({}) = 0
    BY TotalEmpty, FS_EmptySet
  <2> QED
    BY <1>1, <1>3, <1>4, <2>1, <2>2 DEF DelegationBooks
<1>6. BallotCarriesControlledPower' /\ BallotsWeigh' /\ DelegationsAllowed'
  BY <1>1, <1>2 DEF BallotCarriesControlledPower, BallotsWeigh, DelegationsAllowed
<1>7. Types'
  BY TypesOwner DEF OwnerStep
<1>8. \A v \in Voters : OwnPowerOf(v)' \in Nat /\ OwnPowerOf(v)' = OwnPower'[v]
  BY <1>7, ConfigFields DEF Types, OwnPower, OwnPowerOf
<1>9. \A v \in Voters : Controlled'[v] = OwnPower'[v]
  BY <1>1, <1>2, <1>4, <1>8 DEF Controlled, ControlledPowerOf
<1>10. Total(Controlled', Voters) = Total(OwnPower', Voters)
  BY <1>9, TotalCongruence
<1> QED
  BY <1>5, <1>6, <1>10 DEF PowerInv, PowerConserved, Controlled

(***************************************************************************)
(* Every step.                                                             *)
(***************************************************************************)

LEMMA StepKinds ==
    ASSUME Types, [Next]_vars
    PROVE  \/ \E vs \in SUBSET Voters : \E w \in [vs -> Weights] : SetWeights(w)
           \/ \E v \in Voters : \/ \E to \in Voters \cup {None} : Delegate(v, to)
                                \/ BallotStep(v)
           \/ UNCHANGED powerVars /\ (phase' = "Setup" => phase = "Setup")
<1> USE DEF clockVars, setupVars, ballotVars, delegationVars, sealVars, stakeVars,
            execVars, powerVars
<1>1. CASE OwnerStep
  BY <1>1 DEF OwnerStep, AddOption, RemoveOption, SetWhitelist, StartPoll, EndPoll,
      CloseVoting, SettleAndEnd, SweepUnclaimed, CancelExecution
<1>2. ASSUME NEW v \in Voters, VoterStep(v)
      PROVE  \/ \E to \in Voters \cup {None} : Delegate(v, to)
             \/ BallotStep(v)
             \/ UNCHANGED powerVars /\ UNCHANGED phase
  BY <1>2 DEF VoterStep, BallotStep, Commit, WithdrawCommitment, Refund
<1>3. CASE AnyoneStep
  BY <1>3 DEF AnyoneStep, CloseAfterDeadline, CloseVoting, SettleAndEnd,
      CloseRevealWindow, QueueExecution, Execute, ForceEther
<1>4. CASE Tick \/ UNCHANGED vars
  BY <1>4 DEF Tick, vars
<1> QED
  BY <1>1, <1>2, <1>3, <1>4 DEF Next

LEMMA PowerStep ==
    ASSUME Types, Types', SealInv', PowerInv, PowerConserved, [Next]_vars
    PROVE  PowerInv' /\ PowerConserved'
<1> USE DEF PowerConserved, Controlled
<1>1. ASSUME NEW vs \in SUBSET Voters, NEW w \in [vs -> Weights], SetWeights(w)
      PROVE  PowerInv' /\ PowerConserved'
  BY <1>1, SetWeightsKeeps
<1>2. ASSUME NEW v \in Voters, NEW to \in Voters \cup {None}, Delegate(v, to)
      PROVE  PowerInv' /\ PowerConserved'
  <2>1. PowerInv'
    BY <1>2, DelegateKeeps
  <2> QED
    BY <1>2, <2>1, DelegateConserves
<1>3. ASSUME NEW v \in Voters, BallotStep(v) PROVE PowerInv' /\ PowerConserved'
  <2>1. PowerInv' /\ OwnPower' = OwnPower /\ UNCHANGED <<delegatedTo, delegatedSurplus>>
    BY <1>3, BallotStepKeeps
  <2>2. ControlIsBooked /\ ControlIsBooked'
    BY <2>1, ControlledIs, PTL
  <2>3. \A u \in Voters : OwnPowerOf(u)' = OwnPowerOf(u)
    BY <2>1 DEF OwnPower
  <2>4. \A u \in Voters : Controlled'[u] = Controlled[u]
    BY <2>1, <2>2, <2>3 DEF ControlIsBooked
  <2>5. Total(Controlled', Voters) = Total(Controlled, Voters)
    BY <2>4, TotalCongruence
  <2> QED
    BY <2>1, <2>5
<1>4. ASSUME UNCHANGED powerVars, phase' = "Setup" => phase = "Setup"
      PROVE  PowerInv' /\ PowerConserved'
  BY <1>4, PowerUntouched
<1> QED
  BY <1>1, <1>2, <1>3, <1>4, StepKinds

LEMMA PowerInit == Init => PowerInv /\ PowerConserved
<1> SUFFICES ASSUME Init PROVE PowerInv /\ PowerConserved
  OBVIOUS
<1>1. /\ \A v \in Voters : /\ delegatedTo[v] = None /\ votedOptions[v] = {}
                           /\ votingPowerOf[v] = 0 /\ delegateCountOf[v] = 0
                           /\ delegatedSurplus[v] = 0
      /\ Types
  BY TypesInit DEF Init
<1>2. \A d \in Voters : DelegatorsOf(d) = {}
  BY <1>1, VotersAssumption DEF DelegatorsOf
<1>3. DelegationBooks
  BY <1>1, <1>2, NobodyBringsNothing DEF DelegationBooks, SingleHop
<1>4. PowerInv
  BY <1>1, <1>3, SealInvInit
     DEF PowerInv, BallotCarriesControlledPower, BallotsWeigh, DelegationsAllowed
<1>5. \A v \in Voters : OwnPowerOf(v) \in Nat /\ OwnPowerOf(v) = OwnPower[v]
  BY <1>1, OwnPowerType DEF Types, OwnPower
<1>6. \A v \in Voters : Controlled[v] = OwnPower[v]
  BY <1>1, <1>5 DEF Controlled, ControlledPowerOf
<1> QED
  BY <1>4, <1>6, TotalCongruence DEF PowerConserved, Controlled

LEMMA PowerHolds == Spec => [](PowerInv /\ PowerConserved)
<1>1. Types /\ Types' /\ SealInv' /\ PowerInv /\ PowerConserved /\ [Next]_vars
      => PowerInv' /\ PowerConserved'
  BY PowerStep
<1> QED
  BY PowerInit, TypesHold, SealInvHolds, <1>1, PTL DEF Spec

\* The counters of delegate() are what counting the delegators would give, and
\* nobody is two hops away from the ballot that carries his vote.
THEOREM DelegationsAreBooked == Spec => []DelegationBooks
BY PowerHolds, PTL DEF PowerInv

\* A ballot is worth at every moment what its holder controls.
THEOREM BallotsCarryPower == Spec => []BallotCarriesControlledPower
BY PowerHolds, PTL DEF PowerInv

\* Delegation neither creates nor destroys power.
THEOREM PowerIsConserved == Spec => []PowerConserved
BY PowerHolds, PTL

(***************************************************************************)
(* The counts.                                                             *)
(***************************************************************************)

\* Who backs an option, one address set aside.
BackersBut(v, o) == {u \in Voters \ {v} : o \in votedOptions[u]}

TallyInv ==
    /\ TallyIsTheBallots
    /\ phase = "Setup" => \A o \in Options : voteCount[o] = 0

LEMMA BackersFinite ==
    ASSUME Types, PowerInv, NEW v \in Voters, NEW o
    PROVE  /\ IsFiniteSet(BackersBut(v, o))
           /\ \A u \in BackersBut(v, o) \cup {v} : votingPowerOf[u] \in Nat
           /\ Total(votingPowerOf, BackersBut(v, o)) \in Nat
<1>1. IsFiniteSet(BackersBut(v, o))
  BY VotersAssumption, FS_Subset DEF BackersBut
<1>2. \A u \in BackersBut(v, o) \cup {v} : votingPowerOf[u] \in Nat
  BY PowerTellsBallots DEF BackersBut
<1> QED
  BY <1>1, <1>2, TotalType

\* One more backer, with whatever power: the others' sum grows by it.
LEMMA BackerJoins ==
    ASSUME Types, PowerInv, NEW v \in Voters, NEW o, NEW g, g[v] \in Nat,
           \A u \in BackersBut(v, o) : g[u] = votingPowerOf[u]
    PROVE  Total(g, BackersBut(v, o) \cup {v})
           = Total(votingPowerOf, BackersBut(v, o)) + g[v]
<1> DEFINE R == BackersBut(v, o)
<1>1. v \notin R /\ IsFiniteSet(R) /\ \A u \in R \cup {v} : g[u] \in Nat
  BY BackersFinite DEF BackersBut
<1>2. Total(g, R) = Total(votingPowerOf, R)
  BY TotalCongruence
<1>3. Total(g, R \cup {v}) = Total(g, R) + g[v]
  <2> HIDE DEF R
  <2>1. v \notin R /\ IsFiniteSet(R) /\ \A u \in R \cup {v} : g[u] \in Nat
    BY <1>1
  <2> QED  BY ONLY <2>1, TotalAdd
<1> QED
  BY <1>2, <1>3

\* Clearing a ballot leaves what the others put there.
LEMMA ClearedIsTheOthers ==
    ASSUME Types, PowerInv, TallyIsTheBallots, NEW v \in Voters, NEW o \in Options
    PROVE  ClearedCounts(v)[o] = Total(votingPowerOf, BackersBut(v, o))
<1> DEFINE All == {u \in Voters : o \in votedOptions[u]}
<1>1. voteCount[o] = Total(votingPowerOf, All)
  BY DEF TallyIsTheBallots
<1>2. CASE o \in votedOptions[v]
  <2>1. v \notin BackersBut(v, o) /\ All = BackersBut(v, o) \cup {v}
    BY <1>2 DEF BackersBut
  <2>2. Total(votingPowerOf, BackersBut(v, o) \cup {v})
        = Total(votingPowerOf, BackersBut(v, o)) + votingPowerOf[v]
    BY BackerJoins, PowerTellsBallots
  <2>3. ClearedCounts(v)[o] = voteCount[o] - votingPowerOf[v]
    BY <1>2 DEF ClearedCounts
  <2>4. Total(votingPowerOf, BackersBut(v, o)) \in Nat /\ votingPowerOf[v] \in Nat
    BY BackersFinite, PowerTellsBallots
  <2>5. voteCount[o] = Total(votingPowerOf, BackersBut(v, o)) + votingPowerOf[v]
    BY <1>1, <2>1, <2>2
  <2> QED
    BY <2>3, <2>4, <2>5
<1>3. CASE o \notin votedOptions[v]
  <2>1. All = BackersBut(v, o) /\ ClearedCounts(v)[o] = voteCount[o]
    BY <1>3 DEF BackersBut, ClearedCounts
  <2> QED
    BY <1>1, <2>1
<1> QED
  BY <1>2, <1>3

\* A ballot recorded over the others' counts.
LEMMA RecordedIsCounted ==
    ASSUME Types, PowerInv, NEW v \in Voters, NEW S \in SUBSET Options, NEW p \in Nat,
           votedOptions'[v] = S /\ votingPowerOf'[v] = p,
           \A u \in Voters \ {v} : /\ votedOptions'[u] = votedOptions[u]
                                   /\ votingPowerOf'[u] = votingPowerOf[u],
           \A o \in Options : voteCount'[o] =
              Total(votingPowerOf, BackersBut(v, o)) + (IF o \in S THEN p ELSE 0)
    PROVE  TallyIsTheBallots'
<1> SUFFICES ASSUME NEW o \in Options
             PROVE  voteCount'[o] =
                      Total(votingPowerOf', {u \in Voters : o \in votedOptions'[u]})
  BY DEF TallyIsTheBallots
<1> DEFINE R == BackersBut(v, o)
<1>1. \A u \in R : votingPowerOf'[u] = votingPowerOf[u]
  BY DEF BackersBut
<1>2. {u \in Voters : o \in votedOptions'[u]} = IF o \in S THEN R \cup {v} ELSE R
  BY DEF BackersBut
<1>3. Total(votingPowerOf', R \cup {v}) = Total(votingPowerOf, R) + p
  BY <1>1, BackerJoins
<1>4. Total(votingPowerOf', R) = Total(votingPowerOf, R) /\ Total(votingPowerOf, R) \in Nat
  BY <1>1, TotalCongruence, BackersFinite
<1>5. voteCount'[o] = Total(votingPowerOf, R) + (IF o \in S THEN p ELSE 0)
  OBVIOUS
<1> HIDE DEF R
<1>6. CASE o \in S
  BY <1>2, <1>3, <1>5, <1>6
<1>7. CASE o \notin S
  <2>1. voteCount'[o] = Total(votingPowerOf, R)
    BY <1>4, <1>5, <1>7
  <2>2. {u \in Voters : o \in votedOptions'[u]} = R
    BY <1>2, <1>7
  <2> QED
    BY <1>4, <2>1, <2>2
<1> QED
  BY <1>6, <1>7

LEMMA BallotStepCounts ==
    ASSUME Types, PowerInv, TallyIsTheBallots, NEW v \in Voters, BallotStep(v)
    PROVE  TallyIsTheBallots'
<1>1. votingPowerOf[v] \in Nat /\ OwnPowerOf(v) \in Nat /\ delegatedSurplus[v] \in Nat
  BY PowerTellsBallots, OwnPowerType, DelegatedPowerType
     DEF Types, OwnPower, PowerInv, DelegationBooks
<1>2. \A o \in Options : ClearedCounts(v)[o] = Total(votingPowerOf, BackersBut(v, o))
  BY ClearedIsTheOthers
<1>3. votedOptions[v] = {} => \A o \in Options : voteCount[o] = ClearedCounts(v)[o]
  BY DEF ClearedCounts
<1>4. \A o \in Options : ClearedCounts(v)[o] \in Nat
  BY <1>2, BackersFinite
<1>5. ASSUME NEW S \in SUBSET Options, NEW p \in Nat, NEW counts,
             RecordVote(v, S, p, {}, counts),
             \A o \in Options : counts[o] = ClearedCounts(v)[o]
      PROVE  TallyIsTheBallots'
  <2>1. /\ votedOptions'[v] = S /\ votingPowerOf'[v] = p
        /\ \A u \in Voters \ {v} : /\ votedOptions'[u] = votedOptions[u]
                                   /\ votingPowerOf'[u] = votingPowerOf[u]
    BY <1>5 DEF RecordVote, Types
  <2>2. \A o \in Options :
           voteCount'[o] = ClearedCounts(v)[o] + (IF o \in S THEN p ELSE 0)
    BY <1>4, <1>5 DEF RecordVote
  <2>3. \A o \in Options : voteCount'[o] =
           Total(votingPowerOf, BackersBut(v, o)) + (IF o \in S THEN p ELSE 0)
    BY <1>2, <2>2
  <2> QED
    BY <2>1, <2>3, RecordedIsCounted
<1>6. ASSUME NEW S \in SUBSET Options, Vote(v, S) PROVE TallyIsTheBallots'
  <2>1. /\ RecordVote(v, S, OwnPowerOf(v) + delegatedSurplus[v], {}, voteCount)
        /\ votedOptions[v] = {}
    BY <1>6 DEF Vote, CanVote
  <2>2. OwnPowerOf(v) + delegatedSurplus[v] \in Nat
    BY <1>1
  <2> QED
    BY <1>3, <1>5, <2>1, <2>2
<1>7. ASSUME NEW S \in SUBSET Options, ChangeVote(v, S) PROVE TallyIsTheBallots'
  <2>1. RecordVote(v, S, votingPowerOf[v], {}, ClearedCounts(v))
    BY <1>7 DEF ChangeVote
  <2> QED
    BY <1>1, <1>5, <2>1
<1>8. ASSUME NEW S \in SUBSET Options, Reveal(v, S) PROVE TallyIsTheBallots'
  <2>1. votedOptions[v] = {} /\ RecordVote(v, S, OwnPowerOf(v), {}, voteCount)
    BY <1>8 DEF Reveal, PowerInv, SealInv
  <2> QED
    BY <1>1, <1>3, <1>5, <2>1
<1>9. CASE WithdrawVote(v)
  <2>1. /\ votedOptions'[v] = {} /\ votingPowerOf'[v] = 0
        /\ \A u \in Voters \ {v} : /\ votedOptions'[u] = votedOptions[u]
                                   /\ votingPowerOf'[u] = votingPowerOf[u]
    BY <1>9 DEF WithdrawVote, Types
  <2>2. \A o \in Options : voteCount'[o] =
           Total(votingPowerOf, BackersBut(v, o)) + (IF o \in {} THEN 0 ELSE 0)
    BY <1>2, <1>4, <1>9 DEF WithdrawVote
  <2> QED
    BY <2>1, <2>2, RecordedIsCounted
<1> QED
  BY <1>6, <1>7, <1>8, <1>9 DEF BallotStep

\* Options come and go during setup, when nothing has been counted.
LEMMA SetupCounts ==
    ASSUME Types, SealInv, TallyInv, AddOption \/ \E id \in Options : RemoveOption(id)
    PROVE  TallyInv'
<1>1. phase = "Setup" /\ phase' = phase /\ votedOptions' = votedOptions
  BY DEF AddOption, RemoveOption, CanRemoveOption, clockVars
<1>2. \A o \in Options : voteCount'[o] = 0
  <2>1. /\ \A o \in Options : voteCount[o] = 0
        /\ voteCount \in [Options -> Int] /\ optionCount \in Nat
        /\ optionCount <= MaxOptions /\ MaxOptions \in Nat /\ Options = 1 .. MaxOptions
    BY <1>1, ConstantsAssumption DEF TallyInv, Types, Options, MinOptions
  <2>2. CASE AddOption
    BY <2>1, <2>2 DEF AddOption
  <2>3. ASSUME NEW id \in Options, RemoveOption(id), NEW o \in Options
        PROVE  voteCount'[o] = 0
    <3>1. o < optionCount => o + 1 \in Options
      BY <2>1
    <3> QED
      BY <2>1, <2>3, <3>1 DEF RemoveOption
  <2> QED
    BY <2>2, <2>3
<1>3. \A o \in Options : {u \in Voters : o \in votedOptions'[u]} = {}
  BY <1>1 DEF SealInv, Modes
<1>4. Total(votingPowerOf', {}) = 0
  BY TotalEmpty
<1> QED
  BY <1>2, <1>3, <1>4 DEF TallyInv, TallyIsTheBallots

LEMMA TallyStep ==
    ASSUME Types, PowerInv, TallyInv, [Next]_vars
    PROVE  TallyInv'
<1> USE DEF clockVars, setupVars, ballotVars, delegationVars, sealVars, stakeVars,
            execVars
<1> DEFINE Same == UNCHANGED ballotVars /\ (phase' = "Setup" => phase = "Setup")
<1>1. Same => TallyInv'
  BY DEF TallyInv, TallyIsTheBallots
<1>2. ASSUME OwnerStep
      PROVE  Same \/ AddOption \/ \E id \in Options : RemoveOption(id)
  BY <1>2 DEF OwnerStep, SetWeights, SetWhitelist, StartPoll, EndPoll, CloseVoting,
      SettleAndEnd, SweepUnclaimed, CancelExecution
<1>3. ASSUME NEW v \in Voters, VoterStep(v) PROVE Same \/ (BallotStep(v) /\ phase' # "Setup")
  BY <1>3 DEF VoterStep, BallotStep, Delegate, Vote, CanVote, ChangeVote,
     CanChangeVote, Reveal, WithdrawVote, CanWithdrawVote, Commit,
     WithdrawCommitment, CanWithdrawCommitment, Refund, CanRefund
<1>4. ASSUME AnyoneStep \/ Tick \/ UNCHANGED vars PROVE Same
  BY <1>4 DEF AnyoneStep, CloseAfterDeadline, CloseVoting, SettleAndEnd,
      CloseRevealWindow, QueueExecution, Execute, ForceEther, Tick, vars
<1>5. ASSUME NEW v \in Voters, BallotStep(v), phase' # "Setup" PROVE TallyInv'
  BY <1>5, BallotStepCounts DEF TallyInv
<1>6. SealInv
  BY DEF PowerInv
<1> QED
  BY <1>1, <1>2, <1>3, <1>4, <1>5, <1>6, SetupCounts DEF Next

LEMMA TallyInit == Init => TallyInv
<1> SUFFICES ASSUME Init PROVE TallyInv
  OBVIOUS
<1>1. \A o \in Options : voteCount[o] = 0 /\ {u \in Voters : o \in votedOptions[u]} = {}
  BY DEF Init
<1> QED
  BY <1>1, TotalEmpty DEF TallyInv, TallyIsTheBallots

\* Whatever is cast, changed, withdrawn and revealed, each option's count is
\* the power of the ballots that back it.
THEOREM CountsAreTheBallots == Spec => []TallyIsTheBallots
<1>1. Types /\ PowerInv /\ TallyInv /\ [Next]_vars => TallyInv'
  BY TallyStep
<1>2. TallyInv => TallyIsTheBallots
  BY DEF TallyInv
<1> QED
  BY TallyInit, TypesHold, PowerHolds, <1>1, <1>2, PTL DEF Spec

(***************************************************************************)
(* Type correctness: with the books right, nothing that is subtracted from *)
(* ever falls below zero.                                                  *)
(***************************************************************************)

WeightsSum == totalWeightAssigned = Total(weightOf, Voters)

LEMMA WeightsSumStep ==
    ASSUME Types, WeightsSum, [Next]_vars
    PROVE  WeightsSum'
<1> USE DEF clockVars, setupVars, ballotVars, delegationVars, sealVars, stakeVars,
            execVars
<1>1. ASSUME NEW vs \in SUBSET Voters, NEW w \in [vs -> Weights], SetWeights(w)
      PROVE  WeightsSum'
  <2>1. /\ weightOf' = [v \in Voters |-> IF v \in vs THEN w[v] ELSE weightOf[v]]
        /\ totalWeightAssigned' =
              totalWeightAssigned - Total(weightOf, vs) + Total(w, vs)
    BY <1>1 DEF SetWeights
  <2>2. PICK new \in [Voters -> Nat] : new = weightOf'
    BY <2>1, ConstantsAssumption DEF Types
  <2>3. /\ Total(weightOf, Voters) = Total(weightOf, vs) + Total(weightOf, Voters \ vs)
        /\ Total(new, Voters) = Total(new, vs) + Total(new, Voters \ vs)
    BY VotersAssumption, TotalSplit DEF Types
  <2>4. \A v \in vs : new[v] = w[v]
    BY <2>1, <2>2
  <2>5. \A v \in Voters \ vs : new[v] = weightOf[v]
    BY <2>1, <2>2
  <2>6. Total(new, vs) = Total(w, vs) /\ Total(new, Voters \ vs) = Total(weightOf, Voters \ vs)
    BY <2>4, <2>5, TotalCongruence
  <2>7. IsFiniteSet(vs) /\ IsFiniteSet(Voters \ vs)
    BY VotersAssumption, FS_Subset
  <2>8. /\ Total(weightOf, vs) \in Nat /\ Total(weightOf, Voters \ vs) \in Nat
        /\ Total(new, vs) \in Nat
    BY <2>7, TotalType DEF Types
  <2>9. totalWeightAssigned' = Total(new, Voters)
    BY <2>1, <2>3, <2>6, <2>8 DEF WeightsSum
  <2> QED
    BY <2>2, <2>9 DEF WeightsSum
<1>2. CASE OwnerStep /\ ~\E vs \in SUBSET Voters : \E w \in [vs -> Weights] : SetWeights(w)
  BY <1>2 DEF WeightsSum, OwnerStep, AddOption, RemoveOption, SetWhitelist, StartPoll,
      EndPoll, CloseVoting, SettleAndEnd, SweepUnclaimed, CancelExecution
<1>3. ASSUME NEW v \in Voters, VoterStep(v) PROVE WeightsSum'
  BY <1>3 DEF WeightsSum, VoterStep, Delegate, Vote, ChangeVote, WithdrawVote, Commit,
      WithdrawCommitment, Reveal, Refund
<1>4. CASE AnyoneStep \/ Tick \/ UNCHANGED vars
  BY <1>4 DEF WeightsSum, AnyoneStep, CloseAfterDeadline, CloseVoting, SettleAndEnd,
      CloseRevealWindow, QueueExecution, Execute, ForceEther, Tick, vars
<1> QED
  BY <1>1, <1>2, <1>3, <1>4 DEF Next

LEMMA WeightsSumInit == Init => WeightsSum
<1> SUFFICES ASSUME Init PROVE WeightsSum
  OBVIOUS
<1>1. Units(weightOf, Voters) = {}
  BY DEF Init, Units
<1> QED
  BY <1>1, FS_EmptySet DEF Init, WeightsSum, Total

LEMMA TypesAreNatural ==
    Types /\ PowerInv /\ TallyInv /\ WeightsSum => TypeOK
<1> SUFFICES ASSUME Types, PowerInv, TallyInv, WeightsSum PROVE TypeOK
  OBVIOUS
<1>1. totalWeightAssigned \in Nat
  BY VotersAssumption, TotalType DEF WeightsSum, Types
<1>2. \A v \in Voters : /\ delegateCountOf[v] \in Nat /\ delegatedSurplus[v] \in Nat
                        /\ votingPowerOf[v] \in Nat
  BY DelegatorsFinite, FS_CardinalityType, DelegatedPowerType, PowerTellsBallots
     DEF PowerInv, DelegationBooks
<1>3. ASSUME NEW o \in Options PROVE voteCount[o] \in Nat
  <2> DEFINE B == {v \in Voters : o \in votedOptions[v]}
  <2>1. IsFiniteSet(B) /\ \A v \in B : votingPowerOf[v] \in Nat
    BY <1>2, VotersAssumption, FS_Subset
  <2>2. Total(votingPowerOf, B) \in Nat
    <3> HIDE DEF B
    <3> QED  BY <2>1, TotalType
  <2> QED
    BY <2>2 DEF TallyInv, TallyIsTheBallots
<1> QED
  BY <1>1, <1>2, <1>3 DEF Types, TypeOK

\* Every variable keeps its type: no counter of a poll ever falls below zero.
THEOREM TypeIsKept == Spec => []TypeOK
<1>1. Types /\ PowerInv /\ TallyInv /\ [Next]_vars => TallyInv'
  BY TallyStep
<1>2. Types /\ WeightsSum /\ [Next]_vars => WeightsSum'
  BY WeightsSumStep
<1> QED
  BY TallyInit, WeightsSumInit, TypesHold, PowerHolds, TypesAreNatural, <1>1, <1>2, PTL
     DEF Spec

-----------------------------------------------------------------------------
(***************************************************************************)
(* The page of a poll: what it offers and what the contract accepts.       *)
(*                                                                         *)
(* The verdict is a product of a tally and MAX_BPS in checked arithmetic,  *)
(* and both clocks are added to a duration: a poll could be closed never   *)
(* again if one of them overflowed.  PowerFits(W) says that weights of at  *)
(* most W keep the products of the whole electorate inside a uint256, and  *)
(* ClockFits that the clock is nowhere near its end; the counts then stay  *)
(* in range because no option can collect more than what all voters        *)
(* brought (PowerConserved).                                               *)
(***************************************************************************)

PowerFits(W) ==
    /\ Config.weighted => \A w \in Weights : w <= W
    /\ MaxOptions * (Cardinality(Voters) * W) * MaxBps <= MaxUint

ClockFits ==
    /\ MaxTime + 1 + Config.timelockSeconds <= MaxUint
    /\ MaxTime + 1 + Config.revealWindowSeconds <= MaxUint

(***************************************************************************)
(* Arithmetic.                                                             *)
(***************************************************************************)

LEMMA ProductMonotone ==
    ASSUME NEW a \in Nat, NEW b \in Nat, NEW c \in Nat, a <= b
    PROVE  /\ a * c \in Nat /\ b * c \in Nat
           /\ a * c <= b * c
<1>1. PICK d \in Nat : b = a + d
  <2>1. b - a \in Nat /\ b = a + (b - a)
    OBVIOUS
  <2> QED
    BY <2>1
<1>2. b * c = a * c + d * c
  BY <1>1
<1>3. a * c \in Nat /\ d * c \in Nat
  OBVIOUS
<1> QED
  BY <1>2, <1>3

\* Rounding down keeps the comparison with a whole number.
LEMMA RoundedDown ==
    ASSUME NEW n \in Nat, NEW m \in Nat \ {0}, NEW q \in Nat
    PROVE  n \div m >= q <=> n >= m * q
<1> DEFINE d == n \div m
           r == n % m
<1>1. d \in Nat /\ r \in Nat /\ r < m /\ n = m * d + r
  OBVIOUS
<1> HIDE DEF d, r
<1>2. ASSUME d >= q PROVE n >= m * q
  BY <1>1, <1>2, ProductMonotone
<1>3. ASSUME d + 1 <= q PROVE n < m * q
  BY <1>1, <1>3, ProductMonotone
<1> QED
  BY <1>1, <1>2, <1>3 DEF d

\* A smaller amount for fewer elements.
LEMMA TotalMonotone ==
    ASSUME NEW T, IsFiniteSet(T), NEW S \in SUBSET T, NEW f, NEW g,
           \A x \in T : g[x] \in Nat,
           \A x \in S : f[x] \in Nat /\ f[x] <= g[x]
    PROVE  Total(f, S) <= Total(g, T)
<1>1. Units(f, S) \subseteq Units(g, T)
  BY DEF Units
<1>2. IsFiniteSet(Units(g, T))
  BY UnitsFinite
<1> QED
  BY <1>1, <1>2, FS_Subset DEF Total

\* So many elements, so much each at most.
LEMMA TotalAtMost ==
    ASSUME NEW S, IsFiniteSet(S), NEW n \in Nat, NEW f,
           \A x \in S : f[x] \in Nat /\ f[x] <= n
    PROVE  Total(f, S) <= Cardinality(S) * n
<1>1. Units(f, S) \subseteq S \X (1 .. n)
  BY DEF Units
<1>2. IsFiniteSet(1 .. n) /\ Cardinality(1 .. n) = n
  BY FS_Interval
<1>3. /\ IsFiniteSet(S \X (1 .. n))
      /\ Cardinality(S \X (1 .. n)) = Cardinality(S) * n
  BY <1>2, FS_Product
<1> QED
  BY <1>1, <1>3, FS_Subset DEF Total

(***************************************************************************)
(* The clock: an open poll has no end yet, an ended one has, and the call  *)
(* of a failed execution was due.                                          *)
(***************************************************************************)

MomentInv ==
    /\ 1 <= now /\ now <= MaxTime + 1
    /\ phase \in {"Setup", "Voting"} => votingEndedAt = 0
    /\ phase = "Ended" => 1 <= votingEndedAt
    /\ execution.failed => execution.readyAt <= now

LEMMA MomentInit == Init => MomentInv
BY ConstantsAssumption DEF Init, MomentInv, NoExecution

\* What the phase and the moment of its end do while time passes.
LEMMA PhaseStep ==
    ASSUME [Next]_vars
    PROVE  /\ now' = now \/ (now < MaxTime /\ now' = now + 1)
           /\ \/ UNCHANGED <<phase, votingEndedAt>>
              \/ phase = "Setup" /\ phase' = "Voting" /\ UNCHANGED votingEndedAt
              \/ phase' \in {"Reveal", "Ended"} /\ votingEndedAt' = now /\ now' = now
<1> USE DEF clockVars, setupVars, ballotVars, delegationVars, sealVars,
            stakeVars, execVars
<1> DEFINE Still == UNCHANGED <<now, phase, votingEndedAt>>
           Opens == phase = "Setup" /\ phase' = "Voting" /\ UNCHANGED <<now, votingEndedAt>>
           Closes == phase' \in {"Reveal", "Ended"} /\ votingEndedAt' = now /\ now' = now
<1>1. ASSUME OwnerStep PROVE Still \/ Opens \/ Closes
  BY <1>1 DEF OwnerStep, SetWeights, AddOption, RemoveOption, SetWhitelist,
      StartPoll, CanStartPoll, EndPoll, CloseVoting, SettleAndEnd,
      SweepUnclaimed, CancelExecution
<1>2. ASSUME NEW v \in Voters, VoterStep(v) PROVE Still
  BY <1>2 DEF VoterStep, Delegate, Vote, ChangeVote, WithdrawVote, Commit,
              WithdrawCommitment, Reveal, Refund
<1>3. ASSUME AnyoneStep PROVE Still \/ Closes
  BY <1>3 DEF AnyoneStep, CloseAfterDeadline, CloseVoting, SettleAndEnd,
      CloseRevealWindow, QueueExecution, Execute, ForceEther
<1>4. CASE Tick \/ UNCHANGED vars
  BY <1>4 DEF Tick, vars
<1> QED
  BY <1>1, <1>2, <1>3, <1>4 DEF Next

LEMMA MomentStep ==
    ASSUME Types, MomentInv, [Next]_vars
    PROVE  MomentInv'
<1>0. now \in Nat /\ MaxTime \in Nat /\ execution \in Executions /\ phase \in Phases
  BY ConstantsAssumption DEF Types
<1>1. 1 <= now' /\ now' <= MaxTime + 1 /\ now <= now'
  BY <1>0, PhaseStep DEF MomentInv
<1>2. /\ phase' \in {"Setup", "Voting"} => votingEndedAt' = 0
      /\ phase' = "Ended" => 1 <= votingEndedAt'
  BY <1>0, PhaseStep DEF MomentInv
<1>3. execution'.failed => execution'.readyAt <= now'
  <2>1. CASE UNCHANGED execVars
    <3>1. execution' = execution
      BY <2>1 DEF execVars
    <3>2. execution.readyAt \in Nat /\ now' \in Nat
      BY <1>0, PhaseStep DEF Executions
    <3> QED
      BY <1>0, <1>1, <3>1, <3>2 DEF MomentInv
  <2>2. ASSUME NEW value \in Values, QueueExecution(value) PROVE ~execution'.failed
    BY <2>2 DEF QueueExecution
  <2>3. ASSUME NEW ok \in BOOLEAN, Execute(ok)
        PROVE  execution'.failed => execution'.readyAt <= now'
    <3>1. execution.readyAt <= now /\ now' = now /\ execution.readyAt \in Nat
      BY <1>0, <2>3 DEF Execute, CanExecute, Executions
    <3>2. execution'.readyAt = execution.readyAt
      BY <1>0, <2>3 DEF Execute, Executions
    <3> QED
      BY <3>1, <3>2
  <2>4. CASE CancelExecution
    BY <2>4 DEF CancelExecution, NoExecution
  <2> QED
    BY <2>1, <2>2, <2>3, <2>4, ExecutionStep
<1> QED
  BY <1>1, <1>2, <1>3 DEF MomentInv

LEMMA MomentInvHolds == Spec => []MomentInv
BY MomentInit, TypesHold, MomentStep, PTL DEF Spec

(***************************************************************************)
(* The verdict stays in range.                                             *)
(***************************************************************************)

\* No voter brings more than W, and the electorate was frozen at what it has.
ScaleInv(W) ==
    /\ \A v \in Voters : weightOf[v] <= W
    /\ frozenEligiblePower <= Cardinality(Voters) * W

LEMMA ElectorateScale ==
    ASSUME Types, NEW W \in Nat \ {0}, ScaleInv(W)
    PROVE  /\ OwnPower \in [Voters -> Nat]
           /\ \A S \in SUBSET Voters :
                 /\ Total(OwnPower, S) \in Nat
                 /\ Total(OwnPower, S) <= Cardinality(Voters) * W
<1>1. OwnPower \in [Voters -> Nat]
  BY OwnPowerType DEF Types
<1>2. \A v \in Voters : OwnPower[v] \in Nat /\ OwnPower[v] <= W
  BY <1>1 DEF OwnPower, OwnPowerOf, ScaleInv
<1>3. /\ Total(OwnPower, Voters) \in Nat
      /\ Total(OwnPower, Voters) <= Cardinality(Voters) * W
  BY <1>2, VotersAssumption, TotalAtMost, TotalType
<1>4. ASSUME NEW S \in SUBSET Voters
      PROVE  /\ Total(OwnPower, S) \in Nat
             /\ Total(OwnPower, S) <= Total(OwnPower, Voters)
  <2>1. IsFiniteSet(S) /\ \A v \in S : OwnPower[v] \in Nat /\ OwnPower[v] <= OwnPower[v]
    BY <1>2, VotersAssumption, FS_Subset
  <2> QED
    BY <1>2, <2>1, VotersAssumption, TotalMonotone, TotalType
<1>5. Cardinality(Voters) * W \in Nat
  BY VotersAssumption, FS_CardinalityType
<1> QED
  BY <1>1, <1>3, <1>4, <1>5

LEMMA ScaleInit ==
    ASSUME NEW W \in Nat \ {0}
    PROVE  Init => ScaleInv(W)
<1>1. Cardinality(Voters) \in Nat
  BY VotersAssumption, FS_CardinalityType
<1>2. 0 <= Cardinality(Voters) * W
  BY <1>1
<1> QED
  BY <1>2 DEF Init, ScaleInv

LEMMA ScaleStep ==
    ASSUME NEW W \in Nat \ {0}, PowerFits(W),
           Types, ScaleInv(W), [Next]_vars
    PROVE  ScaleInv(W)'
<1> USE DEF clockVars, setupVars, ballotVars, delegationVars, sealVars,
            stakeVars, execVars
<1> DEFINE Same == UNCHANGED <<weightOf, frozenEligiblePower>>
<1>0. Same => ScaleInv(W)'
  BY DEF ScaleInv
<1>1. ASSUME NEW vs \in SUBSET Voters, NEW w \in [vs -> Weights], SetWeights(w)
      PROVE  ScaleInv(W)'
  <2>1. \A v \in vs : w[v] <= W
    BY <1>1 DEF SetWeights, PowerFits
  <2>2. /\ weightOf' = [v \in Voters |-> IF v \in vs THEN w[v] ELSE weightOf[v]]
        /\ UNCHANGED frozenEligiblePower
    BY <1>1 DEF SetWeights
  <2> QED
    BY <2>1, <2>2 DEF ScaleInv
<1>2. CASE StartPoll
  <2>1. frozenEligiblePower' = EligiblePower /\ UNCHANGED weightOf
    BY <1>2 DEF StartPoll
  <2>2. EligiblePower <= Cardinality(Voters) * W
    <3>1. isWhitelisted \in SUBSET Voters
      BY DEF Types
    <3>2. 0 <= Cardinality(Voters) * W
      BY VotersAssumption, FS_CardinalityType
    <3> QED
      BY <3>1, <3>2, ElectorateScale DEF EligiblePower, OwnPower
  <2> QED
    BY <2>1, <2>2 DEF ScaleInv
<1>3. ASSUME OwnerStep
      PROVE  \/ Same \/ StartPoll
             \/ \E vs \in SUBSET Voters : \E w \in [vs -> Weights] : SetWeights(w)
  BY <1>3 DEF OwnerStep, AddOption, RemoveOption, SetWhitelist, EndPoll,
      CloseVoting, SettleAndEnd, SweepUnclaimed, CancelExecution
<1>4. ASSUME NEW v \in Voters, VoterStep(v) PROVE Same
  BY <1>4 DEF VoterStep, Delegate, Vote, ChangeVote, WithdrawVote, Commit,
              WithdrawCommitment, Reveal, Refund
<1>5. ASSUME AnyoneStep \/ Tick \/ UNCHANGED vars PROVE Same
  BY <1>5 DEF AnyoneStep, CloseAfterDeadline, CloseVoting, SettleAndEnd,
      CloseRevealWindow, QueueExecution, Execute, ForceEther, Tick, vars
<1> QED
  BY <1>0, <1>1, <1>2, <1>3, <1>4, <1>5 DEF Next

LEMMA ScaleInvHolds ==
    ASSUME NEW W \in Nat \ {0}, PowerFits(W)
    PROVE  Spec => []ScaleInv(W)
<1>1. Init => ScaleInv(W)
  BY ScaleInit
<1>2. Types /\ ScaleInv(W) /\ [Next]_vars => ScaleInv(W)'
  BY ScaleStep
<1> QED
  BY TypesHold, <1>1, <1>2, PTL DEF Spec

\* No option collects more than the electorate brought.
LEMMA CountsInScale ==
    ASSUME Types, PowerInv, PowerConserved, TallyIsTheBallots,
           NEW W \in Nat \ {0}, ScaleInv(W), NEW o \in Options
    PROVE  voteCount[o] \in Nat /\ voteCount[o] <= Cardinality(Voters) * W
<1> DEFINE B == {v \in Voters : o \in votedOptions[v]}
<1>1. /\ \A v \in Voters : votingPowerOf[v] \in Nat
      /\ \A v \in Voters : votingPowerOf[v] # 0 => delegatedTo[v] = None
  BY PowerTellsBallots DEF PowerInv, DelegationBooks, SingleHop
<1>2. \A v \in Voters : OwnPowerOf(v) \in Nat /\ delegatedSurplus[v] \in Nat
  <2>1. \A v \in Voters : delegatedSurplus[v] \in Nat
    BY DelegatedPowerType DEF PowerInv, DelegationBooks
  <2> QED
    BY <2>1, ElectorateScale DEF OwnPower
<1>3. ASSUME NEW v \in Voters
      PROVE  Controlled[v] \in Nat /\ votingPowerOf[v] <= Controlled[v]
  <2>1. Controlled[v] = ControlledPowerOf(v)
    BY DEF Controlled
  <2> QED
    BY <1>1, <1>2, <2>1 DEF ControlledPowerOf
<1>4. B \in SUBSET Voters /\ IsFiniteSet(B)
  BY VotersAssumption, FS_Subset
<1>5. Total(votingPowerOf, B) \in Nat /\ Total(votingPowerOf, B) <= Total(Controlled, Voters)
  <2>1. \A v \in B : votingPowerOf[v] \in Nat /\ votingPowerOf[v] <= Controlled[v]
    BY <1>1, <1>3
  <2> HIDE DEF B
  <2> QED
    BY <1>3, <1>4, <2>1, VotersAssumption, TotalMonotone, TotalType
<1>6. Total(Controlled, Voters) = Total(OwnPower, Voters)
  BY DEF PowerConserved, Controlled
<1>7. /\ Total(OwnPower, Voters) \in Nat
      /\ Total(OwnPower, Voters) <= Cardinality(Voters) * W
  BY ElectorateScale
<1>8. voteCount[o] = Total(votingPowerOf, B)
  BY DEF TallyIsTheBallots
<1>9. Cardinality(Voters) * W \in Nat
  BY VotersAssumption, FS_CardinalityType
<1> HIDE DEF B
<1> QED
  BY <1>5, <1>6, <1>7, <1>8, <1>9

LEMMA TallyInScale ==
    ASSUME Types, PowerInv, PowerConserved, TallyIsTheBallots,
           NEW W \in Nat \ {0}, ScaleInv(W)
    PROVE  Tally \in Nat /\ Tally <= MaxOptions * (Cardinality(Voters) * W)
<1> DEFINE n == Cardinality(Voters) * W
<1>1. n \in Nat
  BY VotersAssumption, FS_CardinalityType
<1>2. /\ MaxOptions \in Nat /\ optionCount \in Nat /\ optionCount <= MaxOptions
      /\ Options = 1 .. MaxOptions
  BY ConstantsAssumption DEF Types, MinOptions, Options
<1>3. \A o \in Options : voteCount[o] \in Nat /\ voteCount[o] <= n
  BY CountsInScale
<1>4. /\ IsFiniteSet(Options) /\ Cardinality(Options) = MaxOptions
      /\ IsFiniteSet(1 .. optionCount) /\ 1 .. optionCount \in SUBSET Options
  BY <1>2, FS_Interval
<1> HIDE DEF n
<1>5. Total(voteCount, Options) \in Nat /\ Total(voteCount, Options) <= MaxOptions * n
  BY <1>1, <1>3, <1>4, TotalAtMost, TotalType
<1>6. Tally \in Nat
  BY <1>3, <1>4, TotalType DEF Tally
<1>7. Tally <= Total(voteCount, Options)
  <2>1. \A o \in 1 .. optionCount : voteCount[o] \in Nat /\ voteCount[o] <= voteCount[o]
    BY <1>3, <1>4
  <2> QED
    BY <1>3, <1>4, <2>1, TotalMonotone DEF Tally
<1>8. MaxOptions * n \in Nat
  BY <1>1, <1>2
<1> QED
  BY <1>5, <1>6, <1>7, <1>8 DEF n

LEMMA VerdictInRange ==
    ASSUME Types, PowerInv, PowerConserved, TallyIsTheBallots,
           NEW W \in Nat \ {0}, PowerFits(W), ScaleInv(W)
    PROVE  VerdictComputable
<1> DEFINE n == Cardinality(Voters) * W
           m == MaxOptions * n
<1>1. n \in Nat /\ MaxOptions \in Nat /\ 1 <= MaxOptions /\ MaxUint \in Nat
  BY VotersAssumption, FS_CardinalityType, ConstantsAssumption DEF MinOptions
<1>2. Tally \in Nat /\ Tally <= m
  BY TallyInScale
<1>3. frozenEligiblePower \in Nat /\ frozenEligiblePower <= n
  BY DEF Types, ScaleInv
<1>4. Config.quorumBps \in Nat /\ Config.quorumBps <= MaxBps
  BY ConfigFields, ConfigAssumption DEF Validate, ValidateGovernance, MaxBps
<1>5. m * MaxBps <= MaxUint
  BY DEF PowerFits
<1> HIDE DEF n
<1>6. m \in Nat /\ n <= m
  BY <1>1, ProductMonotone
<1> HIDE DEF m
<1>7. Tally <= MaxUint /\ Tally * MaxBps <= MaxUint
  BY <1>1, <1>2, <1>5, <1>6 DEF MaxBps
<1>8. frozenEligiblePower * Config.quorumBps <= MaxUint
  <2> DEFINE f == frozenEligiblePower
             q == Config.quorumBps
  <2>1. f \in Nat /\ q \in Nat /\ MaxBps \in Nat /\ f <= m /\ q <= MaxBps
    BY <1>1, <1>3, <1>4, <1>6 DEF MaxBps
  <2> HIDE DEF f, q
  <2>2. q * f \in Nat /\ q * f <= MaxBps * f
    BY <2>1, ProductMonotone
  <2>3. f * MaxBps <= m * MaxBps
    BY <1>6, <2>1, ProductMonotone
  <2>4. q * f = f * q /\ MaxBps * f = f * MaxBps /\ f * MaxBps \in Nat /\ m * MaxBps \in Nat
    BY <1>6, <2>1
  <2>5. f * q <= MaxUint
    BY <1>1, <1>5, <2>2, <2>3, <2>4
  <2> QED
    BY <2>5 DEF f, q
<1> QED
  BY <1>7, <1>8 DEF VerdictComputable

\* outcome() never reverts for a number out of range: no poll becomes impossible
\* to close, by its owner, after its deadline or after the reveal window.
THEOREM VerdictStaysComputable ==
    ASSUME NEW W \in Nat \ {0}, PowerFits(W)
    PROVE  Spec => []VerdictComputable
<1>1. Types /\ PowerInv /\ PowerConserved /\ TallyIsTheBallots /\ ScaleInv(W)
      => VerdictComputable
  BY VerdictInRange
<1>2. Spec => []ScaleInv(W)
  BY ScaleInvHolds
<1> QED
  BY TypesHold, PowerHolds, CountsAreTheBallots, <1>1, <1>2, PTL

(***************************************************************************)
(* The voter's buttons.                                                    *)
(***************************************************************************)

LEMMA ExitsInEveryState ==
    ASSUME Types, MomentInv
    PROVE  ExitsAreOffered
<1>0. now \in Nat /\ EndsAt \in Nat
  BY ConstantsAssumption DEF Types
<1>1. ASSUME NEW v \in Voters, CanRefund(v) PROVE RefundOffered(v)
  BY <1>1 DEF CanRefund, RefundOffered, VotingClosed
<1>2. ASSUME NEW v \in Voters, CanWithdrawVote(v) PROVE WithdrawOffered(v)
  <2>1. phase = "Voting" /\ now < EndsAt /\ votedOptions[v] # {}
    BY <1>2 DEF CanWithdrawVote, BeforeDeadline, MomentInv
  <2> QED
    BY <1>0, <2>1 DEF WithdrawOffered, VotingClosed, DeadlinePassed, Marked
<1>3. ASSUME NEW v \in Voters, CanWithdrawCommitment(v), ~DeadlinePassed
      PROVE  WithdrawOffered(v)
  BY <1>3 DEF CanWithdrawCommitment, WithdrawOffered, VotingClosed, Committed
<1>4. ASSUME CanCloseAfterDeadline PROVE CloseOffered
  BY <1>4 DEF CanCloseAfterDeadline, CanClose, CloseOffered, DeadlinePassed
<1> QED
  BY <1>1, <1>2, <1>3, <1>4 DEF ExitsAreOffered

(***************************************************************************)
(* Every recorded stake can be paid until the sweep: the total covers the  *)
(* stakes, even those a zero word has overwritten, and the balance covers  *)
(* the total as long as the execution has spent no more than was forced    *)
(* in.                                                                     *)
(***************************************************************************)

Covered ==
    /\ Total(stakeOf, Voters) <= totalStaked \/ Swept
    /\ phase = "Setup" => \A v \in Voters : stakeOf[v] = 0

\* A stake is taken while voting, returned to whoever has one, or swept.
LEMMA StakeStep ==
    ASSUME [Next]_vars
    PROVE  \/ UNCHANGED <<stakeOf, totalStaked>>
           \/ \E v \in Voters : TakeStake(v) /\ phase = "Voting"
           \/ \E v \in Voters : Returnable(v) /\ ReturnStake(v)
           \/ SweepUnclaimed
<1> USE DEF clockVars, setupVars, ballotVars, delegationVars, sealVars,
            stakeVars, execVars
<1>1. ASSUME OwnerStep PROVE UNCHANGED <<stakeOf, totalStaked>> \/ SweepUnclaimed
  BY <1>1 DEF OwnerStep, SetWeights, AddOption, RemoveOption, SetWhitelist,
      StartPoll, EndPoll, CloseVoting, CancelExecution
<1>2. ASSUME NEW v \in Voters, VoterStep(v)
      PROVE  \/ UNCHANGED <<stakeOf, totalStaked>>
             \/ TakeStake(v) /\ phase = "Voting"
             \/ Returnable(v) /\ ReturnStake(v)
  BY <1>2 DEF VoterStep, Delegate, Vote, CanVote, ChangeVote, WithdrawVote,
      CanWithdrawVote, Commit, WithdrawCommitment, CanWithdrawCommitment,
      Reveal, Refund, CanRefund
<1>3. ASSUME AnyoneStep PROVE UNCHANGED <<stakeOf, totalStaked>>
  BY <1>3 DEF AnyoneStep, CloseAfterDeadline, CloseVoting, CloseRevealWindow,
      QueueExecution, Execute, ForceEther
<1>4. Tick \/ UNCHANGED vars => UNCHANGED <<stakeOf, totalStaked>>
  BY DEF Tick, vars
<1> QED
  BY <1>1, <1>2, <1>3, <1>4 DEF Next

LEMMA CoveredInit == Init => Covered
<1> SUFFICES ASSUME Init PROVE Covered
  OBVIOUS
<1>1. Units(stakeOf, Voters) = {}
  BY DEF Init, Units
<1>2. Total(stakeOf, Voters) = 0
  BY <1>1, FS_EmptySet DEF Total
<1> QED
  BY <1>2 DEF Init, Covered

LEMMA CoveredStep ==
    ASSUME Types, Types', Covered, [Next]_vars
    PROVE  Covered'
<1>1. /\ now \in Nat /\ now' \in Nat /\ now <= now' /\ GracePeriod \in Nat
      /\ totalStaked \in Nat /\ totalStaked' \in Nat /\ votingEndedAt \in Nat
      /\ stakeOf \in [Voters -> Nat] /\ stakeOf' \in [Voters -> Nat]
      /\ Stake \in Nat /\ MaxTime \in Nat
  BY ConstantsAssumption, PhaseStep DEF Types
<1>2. phase = "Ended" => UNCHANGED <<phase, votingEndedAt>>
  BY ResultStep
<1>3. phase' = "Setup" => phase = "Setup"
  BY PhaseStep
<1>4. Total(stakeOf, Voters) \in Nat /\ Total(stakeOf', Voters) \in Nat
  BY <1>1, VotersAssumption, TotalType
<1>5. Swept /\ totalStaked' = 0 => Swept'
  BY <1>1, <1>2 DEF Swept
<1>6. CASE UNCHANGED <<stakeOf, totalStaked>>
  BY <1>3, <1>5, <1>6 DEF Covered, Swept
<1>7. ASSUME NEW v \in Voters, TakeStake(v), phase = "Voting" PROVE Covered'
  <2>1. stakeOf'[v] = Stake /\ \A u \in Voters \ {v} : stakeOf'[u] = stakeOf[u]
    BY <1>1, <1>7 DEF TakeStake
  <2>2. Total(stakeOf', Voters) + stakeOf[v] = Total(stakeOf, Voters) + stakeOf'[v]
    BY <1>1, <2>1, TotalUpdate, VotersAssumption
  <2>3. Total(stakeOf, Voters) <= totalStaked /\ stakeOf[v] \in Nat
    BY <1>1, <1>7 DEF Covered, Swept
  <2>4. totalStaked' = totalStaked + Stake
    BY <1>7 DEF TakeStake
  <2> QED
    BY <1>1, <1>3, <1>4, <1>7, <2>1, <2>2, <2>3, <2>4 DEF Covered
<1>8. ASSUME NEW v \in Voters, Returnable(v), ReturnStake(v) PROVE Covered'
  <2>1. stakeOf'[v] = 0 /\ \A u \in Voters \ {v} : stakeOf'[u] = stakeOf[u]
    BY <1>1, <1>8 DEF ReturnStake
  <2>2. Total(stakeOf', Voters) + stakeOf[v] = Total(stakeOf, Voters) + stakeOf'[v]
    BY <1>1, <2>1, TotalUpdate, VotersAssumption
  <2>3. /\ totalStaked' = totalStaked - stakeOf[v] /\ stakeOf[v] \in Nat
        /\ stakeOf[v] <= totalStaked
    BY <1>1, <1>8 DEF ReturnStake, Returnable
  <2>4. Swept => totalStaked' = 0
    BY <1>1, <2>3 DEF Swept
  <2>5. Total(stakeOf', Voters) <= totalStaked' \/ Swept'
    BY <1>1, <1>4, <1>5, <2>1, <2>2, <2>3, <2>4 DEF Covered
  <2> QED
    BY <1>1, <1>3, <2>1, <2>5 DEF Covered
<1>9. CASE SweepUnclaimed
  BY <1>1, <1>2, <1>9 DEF SweepUnclaimed, CanSweep, Swept, Covered, clockVars
<1> QED
  BY <1>6, <1>7, <1>8, <1>9, StakeStep

LEMMA CoveredHolds == Spec => []Covered
BY CoveredInit, CoveredStep, TypesHold, PTL DEF Spec

LEMMA StakeIsPayable ==
    ASSUME Types, Covered, Custody, Solvent, ~Swept, NEW v \in Voters
    PROVE  Returnable(v)
<1>1. Total(stakeOf, Voters) <= totalStaked
  BY DEF Covered
<1>2. \A u \in Voters : stakeOf[u] \in Nat
  BY DEF Types
<1>3. stakeOf[v] <= Total(stakeOf, Voters) /\ Total(stakeOf, Voters) \in Nat
  BY <1>2, VotersAssumption, TotalBounds, TotalType
<1>4. stakeOf[v] \in Nat /\ totalStaked \in Nat /\ balance \in Nat /\ forced \in Nat
      /\ Spent \in Nat
  BY SpentType DEF Types
<1>5. totalStaked <= balance
  BY <1>4 DEF Custody, Solvent
<1> QED
  BY <1>1, <1>3, <1>4, <1>5 DEF Returnable

\* One option is always a list the poll takes.
LEMMA OneIsSelectable ==
    ASSUME Types, NEW o \in 1 .. optionCount
    PROVE  Selectable({o})
<1>1. Cardinality({o}) = 1
  BY FS_Singleton
<1>2. Config.multiSelect => 2 <= Config.maxSelections
  BY ConfigFields, ConfigAssumption DEF Validate
<1>3. Config.maxSelections \in Nat /\ Config.multiSelect \in BOOLEAN
  BY ConfigFields
<1>4. 1 <= IF Config.multiSelect THEN Config.maxSelections ELSE 1
  BY <1>2, <1>3
<1> QED
  BY <1>1, <1>4 DEF Selectable

LEMMA MinOfOne ==
    ASSUME NEW o \in Nat PROVE Min({o}) = o
BY DEF Min

\* What the page takes for an open ballot is one before the deadline.
LEMMA OpenOnThePage ==
    ASSUME Types, phase \notin {"Setup", "Reveal"}, ~VotingClosed
    PROVE  phase = "Voting" /\ now < EndsAt /\ BeforeDeadline
<1>1. now \in Nat /\ EndsAt \in Nat /\ phase \in Phases
  BY ConstantsAssumption DEF Types
<1> QED
  BY <1>1 DEF Phases, VotingClosed, DeadlinePassed, BeforeDeadline

LEMMA OffersInEveryState ==
    ASSUME ~Config.commitReveal, Types, StakeInv, Covered, Custody, VerdictInv
    PROVE  OffersAreAccepted
<1>1. ASSUME NEW v \in Voters, NEW o \in 1 .. optionCount,
             VoteOffered(v, o), HasPower(v), delegatedTo[v] = None
      PROVE  CanVote(v, {o})
  BY <1>1, OpenOnThePage, OneIsSelectable
     DEF VoteOffered, CheckUntilAdmission, Marked, CanVote
<1>2. ASSUME NEW v \in Voters, NEW o \in 1 .. optionCount, ChangeOffered(v, o)
      PROVE  CanChangeVote(v, {o})
  <2>1. votedOptions[v] # {} /\ o # Min(votedOptions[v])
    BY <1>2 DEF ChangeOffered, Marked, MyOptionId
  <2>2. {o} # votedOptions[v]
    <3>1. optionCount \in Nat /\ o \in Nat
      BY DEF Types
    <3> QED
      BY <2>1, <3>1, MinOfOne
  <2> QED
    BY <1>2, <2>1, <2>2, OpenOnThePage, OneIsSelectable
       DEF ChangeOffered, CheckUntilAdmission, CanChangeVote
<1>3. ASSUME NEW v \in Voters, WithdrawOffered(v)
      PROVE  CanWithdrawVote(v)
  <2>1. phase = "Voting" /\ BeforeDeadline
    BY <1>3, OpenOnThePage DEF WithdrawOffered
  <2>2. votedOptions[v] # {}
    BY <1>3 DEF WithdrawOffered, Committed, Marked, StakeInv, Modes
  <2>3. Solvent
    BY <2>1, SpentType DEF VerdictInv, RecordInv, Spent, Solvent, Types
  <2>4. Returnable(v)
    BY <2>1, <2>3, StakeIsPayable DEF Swept
  <2> QED
    BY <2>1, <2>2, <2>4 DEF CanWithdrawVote
<1>4. ASSUME NEW v \in Voters, RefundOffered(v), phase = "Ended", ~Swept, Solvent
      PROVE  CanRefund(v)
  BY <1>4, StakeIsPayable DEF RefundOffered, CanRefund
<1> QED
  BY <1>1, <1>2, <1>3, <1>4 DEF OffersAreAccepted

(***************************************************************************)
(* The creator's panel and the execution panel.                            *)
(***************************************************************************)

LEMMA OwnerPanelInEveryState ==
    ASSUME ClockFits, Types, MomentInv, Custody, VerdictComputable
    PROVE  OwnerPanelFollowsPoll
<1>0. /\ now \in Nat /\ EndsAt \in Nat /\ MaxTime \in Nat /\ MaxUint \in Nat
      /\ GracePeriod \in Nat /\ votingEndedAt \in Nat /\ phase \in Phases
      /\ totalStaked \in Nat /\ forced \in Nat /\ optionCount \in Nat
      /\ MinOptions <= optionCount /\ MinOptions \in Nat /\ 1 <= MinOptions
  BY ConstantsAssumption DEF Types, MinOptions
<1>1. EndOffered <=> CanClose
  <2>1. now + Config.revealWindowSeconds <= MaxUint
    BY <1>0, ConfigFields DEF ClockFits, MomentInv
  <2> QED
    BY <2>1 DEF EndOffered, CanClose
<1>2. WhitelistOffered <=> CanSetWhitelist
  BY DEF WhitelistOffered, CanSetWhitelist
<1>3. RemoveOffered <=> CanRemoveOption(optionCount)
  BY <1>0 DEF RemoveOffered, OptionOffered, CanRemoveOption
<1>4. CanStartPoll <=> StartOffered /\ phase = "Setup"
  BY <1>0 DEF CanStartPoll, StartOffered, DeadlinePassed
<1>5. CanSweep <=> SweepOffered /\ totalStaked # 0 /\ Solvent
  <2>1. totalStaked <= balance <=> Solvent
    BY <1>0, SpentType DEF Custody, Solvent
  <2> QED
    BY <1>0, <2>1 DEF CanSweep, SweepOffered, MomentInv
<1> QED
  BY <1>1, <1>2, <1>3, <1>4, <1>5 DEF OwnerPanelFollowsPoll

LEMMA TurnoutIsTheQuorum ==
    ASSUME Types, Tally \in Nat
    PROVE  TurnoutClearsQuorum <=> QuorumMet
<1> DEFINE t == Tally * MaxBps
           f == frozenEligiblePower
           q == Config.quorumBps
<1>1. t \in Nat /\ f \in Nat /\ q \in Nat
  BY ConfigFields DEF Types, MaxBps
<1> HIDE DEF t, f, q
<1>2. f # 0 => (t \div f >= q <=> t >= f * q)
  BY <1>1, RoundedDown
<1>3. TurnoutBps = IF f = 0 THEN 0 ELSE t \div f
  BY DEF TurnoutBps, t, f
<1>4. TurnoutClearsQuorum <=> (q = 0 \/ TurnoutBps >= q)
  BY DEF TurnoutClearsQuorum, q
<1>5. QuorumMet <=> (q = 0 \/ (f # 0 /\ t >= f * q))
  BY DEF QuorumMet, t, f, q
<1>6. 0 >= q => q = 0
  BY <1>1
<1> QED
  BY <1>2, <1>3, <1>4, <1>5, <1>6

LEMMA ExecutionPanelInEveryState ==
    ASSUME ClockFits, Types, MomentInv, VerdictInv, Tally \in Nat
    PROVE  ExecutionPanelFollowsPoll
<1>0. /\ now \in Nat /\ MaxTime \in Nat /\ MaxUint \in Nat
      /\ execution.readyAt \in Nat /\ execution.queued \in BOOLEAN
      /\ execution.done \in BOOLEAN /\ execution.failed \in BOOLEAN
  BY ConstantsAssumption DEF Types, Executions
<1>1. now + Config.timelockSeconds <= MaxUint
  BY <1>0, ConfigFields DEF ClockFits, MomentInv
<1>2. /\ execution.done => execution.queued
      /\ execution.failed => now >= execution.readyAt
  BY <1>0 DEF VerdictInv, RecordInv, MomentInv
<1>3. QueueOffered <=> CanQueue
  BY <1>1, <1>2 DEF QueueOffered, ShouldShowExecution, ExecutionStage, CanQueue
<1>4. ExecuteOffered <=> CanExecute
  BY <1>2 DEF ExecuteOffered, ShouldShowExecution, ExecutionStage, CanExecute
<1>5. CancelOffered <=> CanCancel
  BY DEF CancelOffered, ShouldShowExecution, ExecutionStage, CanCancel
<1> QED
  BY <1>3, <1>4, <1>5, TurnoutIsTheQuorum DEF ExecutionPanelFollowsPoll

\* No page refuses a way out the contract would open, in any poll of any
\* mechanism: a ballot taken back, a stake refunded, a vote past its deadline
\* closed by anyone.  (A sealed ballot past the deadline, and the end of the
\* reveal window, are the contract's alone: ExitsAreOffered.)
THEOREM ExitsStayOffered == Spec => []ExitsAreOffered
<1>1. Types /\ MomentInv => ExitsAreOffered
  BY ExitsInEveryState
<1> QED
  BY TypesHold, MomentInvHolds, <1>1, PTL

\* The creator's panel is exact under every mechanism whose clock and weights
\* fit, solvency included: a sweep the execution has left too little for is the
\* one the contract refuses.
THEOREM OwnerPanelIsExact ==
    ASSUME ClockFits, NEW W \in Nat \ {0}, PowerFits(W)
    PROVE  Spec => []OwnerPanelFollowsPoll
<1>1. Types /\ MomentInv /\ Custody /\ VerdictComputable => OwnerPanelFollowsPoll
  BY OwnerPanelInEveryState
<1>2. Spec => []VerdictComputable
  BY VerdictStaysComputable
<1> QED
  BY TypesHold, MomentInvHolds, EtherIsTheStakes, <1>1, <1>2, PTL

\* So is the execution panel.
THEOREM ExecutionPanelIsExact ==
    ASSUME ClockFits
    PROVE  Spec => []ExecutionPanelFollowsPoll
<1>1. TypeOK => Tally \in Nat
  <2>1. SUFFICES ASSUME TypeOK PROVE Tally \in Nat
    OBVIOUS
  <2>2. /\ IsFiniteSet(1 .. optionCount)
        /\ \A o \in 1 .. optionCount : voteCount[o] \in Nat
    <3>1. /\ optionCount \in Nat /\ MaxOptions \in Nat /\ optionCount <= MaxOptions
          /\ Options = 1 .. MaxOptions /\ voteCount \in [Options -> Nat]
      BY <2>1, ConstantsAssumption DEF TypeOK, Options, MinOptions
    <3>2. IsFiniteSet(1 .. optionCount) /\ 1 .. optionCount \subseteq Options
      BY <3>1, FS_Interval
    <3> QED
      BY <3>1, <3>2
  <2> QED
    BY <2>2, TotalType DEF Tally
<1>2. Types /\ MomentInv /\ VerdictInv /\ Tally \in Nat => ExecutionPanelFollowsPoll
  BY ExecutionPanelInEveryState
<1> QED
  BY TypesHold, TypeIsKept, MomentInvHolds, VerdictInvHolds, <1>1, <1>2, PTL

\* In every poll with public ballots whose clock and weights fit, the page and
\* the contract agree, but for what PageFollowsPoll sets aside: voters without
\* power or who have delegated, refunds before the close, after the sweep and
\* out of stakes that an execution has spent.
THEOREM PageStaysTrue ==
    ASSUME ~Config.commitReveal, ClockFits, NEW W \in Nat \ {0}, PowerFits(W)
    PROVE  Spec => []PageFollowsPoll
<1>1. NoZeroWord
  BY DEF NoZeroWord
<1>2. Spec => []StakeInv
  BY <1>1, StakeInvHolds
<1>3. Types /\ StakeInv /\ Covered /\ Custody /\ VerdictInv => OffersAreAccepted
  BY OffersInEveryState
<1>4. Spec => []OwnerPanelFollowsPoll
  BY OwnerPanelIsExact
<1>5. Spec => []ExecutionPanelFollowsPoll
  BY ExecutionPanelIsExact
<1> QED
  BY TypesHold, CoveredHolds, EtherIsTheStakes, VerdictInvHolds, ExitsStayOffered,
     <1>2, <1>3, <1>4, <1>5, PTL DEF PageFollowsPoll

(***************************************************************************)
(* The calls the liveness of a poll rests on: which of them are refused    *)
(* when their time has come, and why.                                      *)
(***************************************************************************)

\* Anybody can close the vote past its deadline, and end the poll past its
\* reveal window.
DeadlinesClose ==
    /\ phase = "Voting" /\ now >= EndsAt => CanCloseAfterDeadline
    /\ phase = "Reveal" /\ now >= revealEndsAt => CanCloseRevealWindow

\* Whoever has a stake in an ended poll is paid for the asking, until the owner
\* has swept, if its execution has not spent the stakes; no stake is deposited
\* before the poll is started.
StakesArePaid ==
    \A v \in Voters : stakeOf[v] # 0 /\ ~Swept =>
        /\ phase # "Setup"
        /\ phase = "Ended" /\ Solvent => CanRefund(v)

\* When weights and clock fit a uint256, no call that closes a poll reverts
\* (closeAfterDeadline, closeRevealWindow).  Without that the verdict, or the
\* end of the reveal window, overflows, and the poll stays open.
THEOREM PollsCanBeClosed ==
    ASSUME ClockFits, NEW W \in Nat \ {0}, PowerFits(W)
    PROVE  Spec => []DeadlinesClose
<1>1. ASSUME Types, MomentInv, VerdictComputable PROVE DeadlinesClose
  <2>1. now \in Nat /\ MaxTime \in Nat /\ MaxUint \in Nat
    BY <1>1, ConstantsAssumption DEF Types
  <2>2. now + Config.revealWindowSeconds <= MaxUint
    BY <1>1, <2>1, ConfigFields DEF ClockFits, MomentInv
  <2> QED
    BY <1>1, <2>2 DEF DeadlinesClose, CanCloseAfterDeadline, CanClose,
                      CanCloseRevealWindow
<1>2. Types /\ MomentInv /\ VerdictComputable => DeadlinesClose
  BY <1>1
<1>3. Spec => []VerdictComputable
  BY VerdictStaysComputable
<1> QED
  BY TypesHold, MomentInvHolds, <1>2, <1>3, PTL

\* Under every mechanism and for every input, the zero word and executions with
\* a value included, refund pays each recorded stake of an ended poll until the
\* sweep, unless an execution has spent more than was forced in.
THEOREM RecordedStakesArePaid == Spec => []StakesArePaid
<1>1. Types /\ Covered /\ Custody => StakesArePaid
  <2> SUFFICES ASSUME Types, Covered, Custody,
                      NEW v \in Voters, stakeOf[v] # 0, ~Swept
               PROVE  phase # "Setup" /\ (phase = "Ended" /\ Solvent => CanRefund(v))
    BY DEF StakesArePaid
  <2>1. phase # "Setup"
    BY DEF Covered
  <2>2. Solvent => Returnable(v)
    BY StakeIsPayable
  <2> QED
    BY <2>1, <2>2 DEF CanRefund
<1> QED
  BY TypesHold, CoveredHolds, EtherIsTheStakes, <1>1, PTL
=============================================================================
