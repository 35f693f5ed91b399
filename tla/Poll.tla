-------------------------------- MODULE Poll --------------------------------
(***************************************************************************)
(* One poll: the contract Poll, from the moment its factory has called     *)
(* initialize.  An action is one transaction that succeeds; a call whose   *)
(* guard fails reverts and changes nothing, so it is no step.  Where a     *)
(* property asks for the guard too, it is an operator Can... of its own    *)
(* and the rest of the action only assigns, so that the guard says exactly *)
(* when the call is accepted.  block timestamps are the variable now,      *)
(* moved by Tick.                                                          *)
(*                                                                         *)
(* Abstracted: option labels, the question and the rules hash (they decide *)
(* nothing a ballot or a stake depends on), the bytes of an execution, the *)
(* salt of a commitment.  An account that cannot receive ether makes its   *)
(* own refund revert; here every account can.                              *)
(***************************************************************************)
EXTENDS PollMechanisms, Totals

CONSTANTS
    Voters,          \* the addresses that may ever call the poll
    None,            \* address(0)
    Config,          \* the PollConfig this poll was created with
    InitialOptions,  \* how many options initialize was given
    EndsAt,          \* the voting deadline
    Stake,           \* STAKE, the deposit a ballot costs
    GracePeriod,     \* REFUND_GRACE_PERIOD
    MaxUint,         \* the largest value of a uint256
    Weights,         \* the weights setWeights is tried with
    Commitments,     \* the option lists commitments are made to; None is
                     \* the commitment bytes32(0)
    Values,          \* the ether an execution is queued with
    MaxOptions,      \* bound: addOption stops here
    MaxForced,       \* bound: the ether forced into the poll
    MaxTime          \* bound: the clock stops here

MinOptions == 2
Options == 1 .. MaxOptions
Phases == {"Setup", "Voting", "Reveal", "Ended"}
Outcomes == {"Pending", "Passed", "Rejected", "QuorumNotMet"}

ASSUME VotersAssumption ==
    /\ IsFiniteSet(Voters)
    /\ None \notin Voters

ASSUME ConfigAssumption ==
    /\ Config \in PollConfig
    /\ Validate(Config) = "ok"

ASSUME ConstantsAssumption ==
    /\ MaxOptions \in Nat /\ InitialOptions \in MinOptions .. MaxOptions
    /\ Config.multiSelect => Config.maxSelections <= InitialOptions
    /\ EndsAt \in Nat \ {0} /\ GracePeriod \in Nat
    /\ MaxTime \in Nat /\ MaxForced \in Nat
    /\ Stake \in Nat \ {0}
    /\ MaxUint \in Nat
    /\ Weights \subseteq Nat \ {0}
    /\ Values \subseteq Nat
    /\ Commitments \subseteq ({None} \cup SUBSET Options)
    /\ \A S \in SUBSET Options : S # None

VARIABLES
    now,                 \* block.timestamp
    phase, votingEndedAt, revealEndsAt, outcomeState,
    optionCount, isWhitelisted, weightOf, totalWeightAssigned,
    frozenEligiblePower,
    votedOptions,        \* the set of options an address backs
    votingPowerOf,       \* the power its ballot was counted with
    voteCount,           \* the running tally of each option
    delegatedTo, delegateCountOf, delegatedSurplus,
    commitmentOf,        \* the option list committed to, None when there is none
    expired,             \* who CommitmentExpired has been emitted for
    stakeOf, totalStaked,
    balance,             \* address(this).balance
    forced,              \* the ether that came in by no function of the poll
    execution,           \* the queued execution
    performed            \* how many calls execute has carried out

clockVars == <<phase, votingEndedAt, revealEndsAt, outcomeState>>
setupVars == <<optionCount, weightOf, totalWeightAssigned, frozenEligiblePower>>
ballotVars == <<votedOptions, votingPowerOf, voteCount>>
delegationVars == <<delegatedTo, delegateCountOf, delegatedSurplus>>
sealVars == <<commitmentOf, expired>>
stakeVars == <<stakeOf, totalStaked, balance, forced>>
execVars == <<execution, performed>>
vars == <<now, clockVars, setupVars, isWhitelisted, ballotVars, delegationVars,
          sealVars, stakeVars, execVars>>

Executions == [queued : BOOLEAN, value : Nat, readyAt : Nat,
               failed : BOOLEAN, done : BOOLEAN]

NoExecution == [queued |-> FALSE, value |-> 0, readyAt |-> 0,
                failed |-> FALSE, done |-> FALSE]

TypeOK ==
    /\ now \in Nat
    /\ phase \in Phases
    /\ votingEndedAt \in Nat /\ revealEndsAt \in Nat
    /\ outcomeState \in Outcomes
    /\ optionCount \in MinOptions .. MaxOptions
    /\ isWhitelisted \in SUBSET Voters
    /\ weightOf \in [Voters -> Nat] /\ totalWeightAssigned \in Nat
    /\ frozenEligiblePower \in Nat
    /\ votedOptions \in [Voters -> SUBSET Options]
    /\ votingPowerOf \in [Voters -> Nat]
    /\ voteCount \in [Options -> Nat]
    /\ delegatedTo \in [Voters -> Voters \cup {None}]
    /\ delegateCountOf \in [Voters -> Nat]
    /\ delegatedSurplus \in [Voters -> Nat]
    /\ commitmentOf \in [Voters -> {None} \cup SUBSET Options]
    /\ expired \in SUBSET Voters
    /\ stakeOf \in [Voters -> Nat] /\ totalStaked \in Nat
    /\ balance \in Nat /\ forced \in Nat
    /\ execution \in Executions
    /\ performed \in Nat

\* The state initialize leaves behind.
Init ==
    /\ now = 1
    /\ phase = "Setup" /\ votingEndedAt = 0 /\ revealEndsAt = 0
    /\ outcomeState = "Pending"
    /\ optionCount = InitialOptions
    /\ isWhitelisted = {}
    /\ weightOf = [v \in Voters |-> 0] /\ totalWeightAssigned = 0
    /\ frozenEligiblePower = 0
    /\ votedOptions = [v \in Voters |-> {}]
    /\ votingPowerOf = [v \in Voters |-> 0]
    /\ voteCount = [o \in Options |-> 0]
    /\ delegatedTo = [v \in Voters |-> None]
    /\ delegateCountOf = [v \in Voters |-> 0]
    /\ delegatedSurplus = [v \in Voters |-> 0]
    /\ commitmentOf = [v \in Voters |-> None]
    /\ expired = {}
    /\ stakeOf = [v \in Voters |-> 0] /\ totalStaked = 0
    /\ balance = 0 /\ forced = 0
    /\ execution = NoExecution /\ performed = 0

(***************************************************************************)
(* What the handlers read.                                                 *)
(***************************************************************************)

Admitted(v) == Config.openToAll \/ v \in isWhitelisted

\* _ownPowerOf: what the address brings before any delegation.
OwnPowerOf(v) == IF Config.weighted THEN weightOf[v] ELSE 1

\* _powerFor refuses a voter of a weighted poll that has no weight.
HasPower(v) == Config.weighted => weightOf[v] # 0

\* controlledPowerOf: zero for an address that handed its vote away.
ControlledPowerOf(v) ==
    IF delegatedTo[v] # None THEN 0
    ELSE IF votingPowerOf[v] # 0 THEN votingPowerOf[v]
    ELSE OwnPowerOf(v) + delegatedSurplus[v]

\* _computeEligiblePower: an open poll has no countable eligible set.
EligiblePower ==
    IF Config.openToAll THEN 0
    ELSE Total([v \in Voters |-> OwnPowerOf(v)], isWhitelisted)

\* results().total: what all options together have counted.
Tally == Total(voteCount, 1 .. optionCount)

\* Mutant: the denominator follows the whitelist instead of being frozen.
QuorumOfTheDay ==
    \/ Config.quorumBps = 0
    \/ Tally * MaxBps >= EligiblePower * Config.quorumBps

QuorumMet ==
    \/ Config.quorumBps = 0
    \/ /\ frozenEligiblePower # 0
       /\ Tally * MaxBps >= frozenEligiblePower * Config.quorumBps

\* outcome() of a poll that has ended.
Verdict ==
    IF ~QuorumMet THEN "QuorumNotMet"
    ELSE IF Tally > 0 THEN "Passed" ELSE "Rejected"

Outcome == IF phase = "Ended" THEN Verdict ELSE "Pending"

\* outcome() reverts when a sum or a product leaves uint256.
VerdictComputable ==
    /\ Tally <= MaxUint
    /\ Config.quorumBps # 0 /\ frozenEligiblePower # 0 =>
         /\ Tally * MaxBps <= MaxUint
         /\ frozenEligiblePower * Config.quorumBps <= MaxUint

BeforeDeadline == now < EndsAt \/ votingEndedAt # 0

(***************************************************************************)
(* Setup: the owner's administration.                                      *)
(***************************************************************************)

SetWeights(w) ==
    LET vs == DOMAIN w
        rest == totalWeightAssigned - Total(weightOf, vs)
    IN  /\ Config.weighted /\ phase = "Setup"
        /\ rest + Total(w, vs) <= MaxUint
        /\ weightOf' = [v \in Voters |-> IF v \in vs THEN w[v] ELSE weightOf[v]]
        /\ totalWeightAssigned' = rest + Total(w, vs)
        /\ UNCHANGED <<now, clockVars, optionCount, frozenEligiblePower,
                       isWhitelisted, ballotVars, delegationVars, sealVars,
                       stakeVars, execVars>>

AddOption ==
    /\ phase = "Setup" /\ optionCount < MaxOptions
    /\ optionCount' = optionCount + 1
    /\ voteCount' = [voteCount EXCEPT ![optionCount + 1] = 0]
    /\ UNCHANGED <<now, clockVars, weightOf, totalWeightAssigned,
                   frozenEligiblePower, isWhitelisted, votedOptions,
                   votingPowerOf, delegationVars, sealVars, stakeVars, execVars>>

CanRemoveOption(id) ==
    phase = "Setup" /\ id \in 1 .. optionCount /\ optionCount > MinOptions

\* Later options move down one place; the last one is deleted.
RemoveOption(id) ==
    /\ CanRemoveOption(id)
    /\ voteCount' = [o \in Options |->
                        IF o < id \/ o > optionCount THEN voteCount[o]
                        ELSE IF o < optionCount THEN voteCount[o + 1] ELSE 0]
    /\ optionCount' = optionCount - 1
    /\ UNCHANGED <<now, clockVars, weightOf, totalWeightAssigned,
                   frozenEligiblePower, isWhitelisted, votedOptions,
                   votingPowerOf, delegationVars, sealVars, stakeVars, execVars>>

\* Allowed until the poll has ended, voting included.
CanSetWhitelist == phase # "Ended"

SetWhitelist(vs, allowed) ==
    /\ CanSetWhitelist
    /\ isWhitelisted' = IF allowed THEN isWhitelisted \cup vs
                                   ELSE isWhitelisted \ vs
    /\ UNCHANGED <<now, clockVars, setupVars, ballotVars, delegationVars,
                   sealVars, stakeVars, execVars>>

CanStartPoll == phase = "Setup" /\ optionCount >= MinOptions /\ now < EndsAt

\* The quorum's denominator is frozen here.
StartPoll ==
    /\ CanStartPoll
    /\ frozenEligiblePower' = EligiblePower
    /\ phase' = "Voting"
    /\ UNCHANGED <<now, votingEndedAt, revealEndsAt, outcomeState, optionCount,
                   weightOf, totalWeightAssigned, isWhitelisted, ballotVars,
                   delegationVars, sealVars, stakeVars, execVars>>

(***************************************************************************)
(* Closing.  outcomeState caches the verdict outcome() recomputes.         *)
(***************************************************************************)

\* Mutant: the verdict is read before the poll is marked as ended.
SettleTooEarly ==
    /\ phase' = "Ended"
    /\ outcomeState' = Outcome

SettleAndEnd ==
    /\ phase' = "Ended"
    /\ outcomeState' = Verdict

\* Sealed ballots are counted after the window, the others here: the verdict
\* must not overflow.
CanClose ==
    /\ phase = "Voting"
    /\ IF Config.commitReveal THEN now + Config.revealWindowSeconds <= MaxUint
                              ELSE VerdictComputable

CloseVoting ==
    /\ CanClose
    /\ votingEndedAt' = now
    /\ \/ /\ Config.commitReveal
          /\ phase' = "Reveal"
          /\ revealEndsAt' = now + Config.revealWindowSeconds
          /\ UNCHANGED outcomeState
       \/ /\ ~Config.commitReveal
          /\ SettleAndEnd
          /\ UNCHANGED revealEndsAt
    /\ UNCHANGED <<now, setupVars, isWhitelisted, ballotVars, delegationVars,
                   sealVars, stakeVars, execVars>>

EndPoll == CloseVoting

CanCloseAfterDeadline == now >= EndsAt /\ CanClose

CloseAfterDeadline == CanCloseAfterDeadline /\ CloseVoting

CanCloseRevealWindow ==
    phase = "Reveal" /\ now >= revealEndsAt /\ VerdictComputable

\* Mutant: the window closes when the last commitment has been opened.
CloseWhenAllRevealed ==
    /\ CanCloseRevealWindow
    /\ \A v \in Voters : commitmentOf[v] = None
    /\ votingEndedAt' = now
    /\ SettleAndEnd
    /\ UNCHANGED <<now, revealEndsAt, setupVars, isWhitelisted, ballotVars,
                   delegationVars, sealVars, stakeVars, execVars>>

CloseRevealWindow ==
    /\ CanCloseRevealWindow
    /\ votingEndedAt' = now
    /\ SettleAndEnd
    /\ UNCHANGED <<now, revealEndsAt, setupVars, isWhitelisted, ballotVars,
                   delegationVars, sealVars, stakeVars, execVars>>

(***************************************************************************)
(* Delegation: one hop, decided before the delegate votes.  It consults    *)
(* the raw whitelist, even in an open poll, and no deadline.  to = None    *)
(* revokes; revoking what is not delegated returns without effect.         *)
(***************************************************************************)

\* Mutant: a delegation may be taken back from a ballot already cast.
MayAlwaysLeave(d) == TRUE

\* A delegation may be moved or revoked only while its holder has no ballot.
MayLeave(d) == d # None => votingPowerOf[d] = 0

\* Mutant: a delegation may reach an address that has voted.
MayReceiveLate(v, to) ==
    delegateCountOf[v] = 0 /\ to \in isWhitelisted /\ delegatedTo[to] = None

MayReceive(v, to) ==
    /\ delegateCountOf[v] = 0
    /\ to \in isWhitelisted
    /\ votingPowerOf[to] = 0
    /\ delegatedTo[to] = None

\* Mutant: moving a delegation leaves it on the books of the old delegate.
DelegateOneSided(v, to) ==
    /\ Config.delegable /\ phase = "Voting"
    /\ to # v /\ v \in isWhitelisted
    /\ votedOptions[v] = {}
    /\ to # delegatedTo[v]
    /\ to # None => MayReceive(v, to)
    /\ MayLeave(delegatedTo[v])
    /\ delegatedTo' = [delegatedTo EXCEPT ![v] = to]
    /\ delegatedSurplus' = [u \in Voters |->
           delegatedSurplus[u] + IF u = to THEN OwnPowerOf(v) ELSE 0]
    /\ delegateCountOf' = [u \in Voters |->
           delegateCountOf[u] + IF u = to THEN 1 ELSE 0]
    /\ UNCHANGED <<now, clockVars, setupVars, isWhitelisted, ballotVars,
                   sealVars, stakeVars, execVars>>

Delegate(v, to) ==
    LET current == delegatedTo[v]
        power == OwnPowerOf(v)
    IN  /\ Config.delegable /\ phase = "Voting"
        /\ to # v /\ v \in isWhitelisted
        /\ votedOptions[v] = {}
        /\ to # current
        /\ to # None => MayReceive(v, to)
        /\ MayLeave(current)
        /\ delegatedTo' = [delegatedTo EXCEPT ![v] = to]
        /\ delegatedSurplus' = [u \in Voters |->
               IF u = to THEN delegatedSurplus[u] + power
               ELSE IF u = current THEN delegatedSurplus[u] - power
               ELSE delegatedSurplus[u]]
        /\ delegateCountOf' = [u \in Voters |->
               IF u = to THEN delegateCountOf[u] + 1
               ELSE IF u = current THEN delegateCountOf[u] - 1
               ELSE delegateCountOf[u]]
        /\ UNCHANGED <<now, clockVars, setupVars, isWhitelisted, ballotVars,
                       sealVars, stakeVars, execVars>>

(***************************************************************************)
(* Ballots.                                                                *)
(***************************************************************************)

\* What _recordVote accepts: a duplicate-free list is a set.
Selectable(S) ==
    /\ S # {} /\ S \subseteq 1 .. optionCount
    /\ Cardinality(S) <= IF Config.multiSelect THEN Config.maxSelections ELSE 1

\* Mutant: delegated power is recorded with the ballot but not counted.
RecordVoteOwnPower(v, S, power, held, counts) ==
    /\ votedOptions' = [votedOptions EXCEPT ![v] = held \cup S]
    /\ votingPowerOf' = [votingPowerOf EXCEPT ![v] = power]
    /\ voteCount' = [o \in Options |->
                        IF o \in S THEN counts[o] + OwnPowerOf(v) ELSE counts[o]]

\* _recordVote, applied to the ballot and the tallies it finds.
RecordVote(v, S, power, held, counts) ==
    /\ votedOptions' = [votedOptions EXCEPT ![v] = held \cup S]
    /\ votingPowerOf' = [votingPowerOf EXCEPT ![v] = power]
    /\ voteCount' = [o \in Options |->
                        IF o \in S THEN counts[o] + power ELSE counts[o]]

\* _clearVote: the tallies without v's ballot.
ClearedCounts(v) ==
    [o \in Options |-> IF o \in votedOptions[v]
                       THEN voteCount[o] - votingPowerOf[v] ELSE voteCount[o]]

TakeStake(v) ==
    /\ stakeOf' = [stakeOf EXCEPT ![v] = Stake]
    /\ totalStaked' = totalStaked + Stake
    /\ balance' = balance + Stake
    /\ UNCHANGED forced

\* Mutant: the subtraction is unchecked.
ReturnableAlways(v) == TRUE

\* The subtraction from totalStaked is checked: after a sweep it reverts.
Returnable(v) == stakeOf[v] <= totalStaked /\ stakeOf[v] <= balance

ReturnStake(v) ==
    /\ stakeOf' = [stakeOf EXCEPT ![v] = 0]
    /\ totalStaked' = totalStaked - stakeOf[v]
    /\ balance' = balance - stakeOf[v]
    /\ UNCHANGED forced

CanVote(v, S) ==
    /\ phase = "Voting" /\ ~Config.commitReveal /\ BeforeDeadline
    /\ Admitted(v) /\ delegatedTo[v] = None /\ votedOptions[v] = {}
    /\ HasPower(v) /\ Selectable(S)

Vote(v, S) ==
    /\ CanVote(v, S)
    /\ RecordVote(v, S, OwnPowerOf(v) + delegatedSurplus[v], {}, voteCount)
    /\ TakeStake(v)
    /\ UNCHANGED <<now, clockVars, setupVars, isWhitelisted, delegationVars,
                   sealVars, execVars>>

\* Whoever holds a ballot may change it, on the whitelist or no longer.
CanChangeVote(v, S) ==
    /\ phase = "Voting" /\ ~Config.commitReveal /\ BeforeDeadline
    /\ votedOptions[v] # {} /\ S # votedOptions[v] /\ Selectable(S)

\* The new ballot is counted with the power of the old one.
ChangeVote(v, S) ==
    /\ CanChangeVote(v, S)
    /\ RecordVote(v, S, votingPowerOf[v], {}, ClearedCounts(v))
    /\ UNCHANGED <<now, clockVars, setupVars, isWhitelisted, delegationVars,
                   sealVars, stakeVars, execVars>>

CanWithdrawVote(v) ==
    /\ phase = "Voting" /\ ~Config.commitReveal /\ BeforeDeadline
    /\ votedOptions[v] # {} /\ Returnable(v)

WithdrawVote(v) ==
    /\ CanWithdrawVote(v)
    /\ voteCount' = ClearedCounts(v)
    /\ votedOptions' = [votedOptions EXCEPT ![v] = {}]
    /\ votingPowerOf' = [votingPowerOf EXCEPT ![v] = 0]
    /\ ReturnStake(v)
    /\ UNCHANGED <<now, clockVars, setupVars, isWhitelisted, delegationVars,
                   sealVars, execVars>>

(***************************************************************************)
(* Commit and reveal.                                                      *)
(***************************************************************************)

\* Mutant: a second commitment replaces the first.
CommitAgain(v, c) ==
    /\ Config.commitReveal /\ phase = "Voting" /\ BeforeDeadline /\ Admitted(v)
    /\ commitmentOf' = [commitmentOf EXCEPT ![v] = c]
    /\ TakeStake(v)
    /\ UNCHANGED <<now, clockVars, setupVars, isWhitelisted, ballotVars,
                   delegationVars, expired, execVars>>

\* Mutant: commitments are still taken while others are revealed.
CommitLate(v, c) ==
    /\ Config.commitReveal /\ phase # "Ended"
    /\ Admitted(v) /\ commitmentOf[v] = None
    /\ commitmentOf' = [commitmentOf EXCEPT ![v] = c]
    /\ TakeStake(v)
    /\ UNCHANGED <<now, clockVars, setupVars, isWhitelisted, ballotVars,
                   delegationVars, expired, execVars>>

Commit(v, c) ==
    /\ Config.commitReveal /\ phase = "Voting" /\ BeforeDeadline
    /\ Admitted(v) /\ commitmentOf[v] = None
    /\ commitmentOf' = [commitmentOf EXCEPT ![v] = c]
    /\ TakeStake(v)
    /\ UNCHANGED <<now, clockVars, setupVars, isWhitelisted, ballotVars,
                   delegationVars, expired, execVars>>

\* withdrawVote of a sealed ballot: no deadline but the end of the phase.
CanWithdrawCommitment(v) ==
    /\ phase = "Voting" /\ Config.commitReveal
    /\ commitmentOf[v] # None /\ Returnable(v)

\* Mutant: the stake goes back, the commitment stays.
WithdrawStakeOnly(v) ==
    /\ CanWithdrawCommitment(v)
    /\ ReturnStake(v)
    /\ UNCHANGED <<now, clockVars, setupVars, isWhitelisted, ballotVars,
                   delegationVars, sealVars, execVars>>

WithdrawCommitment(v) ==
    /\ CanWithdrawCommitment(v)
    /\ commitmentOf' = [commitmentOf EXCEPT ![v] = None]
    /\ ReturnStake(v)
    /\ UNCHANGED <<now, clockVars, setupVars, isWhitelisted, ballotVars,
                   delegationVars, expired, execVars>>

\* Mutant: any list opens a commitment.
RevealAnything(v, S) ==
    /\ phase = "Reveal" /\ now < revealEndsAt /\ commitmentOf[v] # None
    /\ HasPower(v) /\ Selectable(S)
    /\ commitmentOf' = [commitmentOf EXCEPT ![v] = None]
    /\ RecordVote(v, S, OwnPowerOf(v), votedOptions[v], voteCount)
    /\ UNCHANGED <<now, clockVars, setupVars, isWhitelisted, delegationVars,
                   expired, stakeVars, execVars>>

\* Only the list committed to opens the commitment.  Admission is not asked again.
Reveal(v, S) ==
    /\ phase = "Reveal" /\ now < revealEndsAt
    /\ commitmentOf[v] # None /\ commitmentOf[v] = S
    /\ HasPower(v) /\ Selectable(S)
    /\ commitmentOf' = [commitmentOf EXCEPT ![v] = None]
    /\ RecordVote(v, S, OwnPowerOf(v), votedOptions[v], voteCount)
    /\ UNCHANGED <<now, clockVars, setupVars, isWhitelisted, delegationVars,
                   expired, stakeVars, execVars>>

(***************************************************************************)
(* Stakes after the end.                                                   *)
(***************************************************************************)

CanRefund(v) == phase = "Ended" /\ stakeOf[v] # 0 /\ Returnable(v)

\* Mutant: a sealed ballot that was not opened loses its stake.
RefundIfRevealed(v) ==
    /\ CanRefund(v) /\ commitmentOf[v] = None
    /\ ReturnStake(v)
    /\ UNCHANGED <<now, clockVars, setupVars, isWhitelisted, ballotVars,
                   delegationVars, sealVars, execVars>>

\* A commitment never opened is announced as expired only here.
Refund(v) ==
    /\ CanRefund(v)
    /\ commitmentOf' = [commitmentOf EXCEPT ![v] = None]
    /\ expired' = IF commitmentOf[v] # None THEN expired \cup {v} ELSE expired
    /\ ReturnStake(v)
    /\ UNCHANGED <<now, clockVars, setupVars, isWhitelisted, ballotVars,
                   delegationVars, execVars>>

CanSweep ==
    /\ phase = "Ended" /\ now >= votingEndedAt + GracePeriod
    /\ totalStaked # 0 /\ totalStaked <= balance

\* Mutant: the swept stakes stay in totalStaked.
SweepUnbooked ==
    /\ CanSweep
    /\ balance' = balance - totalStaked
    /\ UNCHANGED <<now, clockVars, setupVars, isWhitelisted, ballotVars,
                   delegationVars, sealVars, stakeOf, totalStaked, forced,
                   execVars>>

\* The owner takes what nobody claimed; stakeOf is left as it was.
SweepUnclaimed ==
    /\ CanSweep
    /\ totalStaked' = 0
    /\ balance' = balance - totalStaked
    /\ UNCHANGED <<now, clockVars, setupVars, isWhitelisted, ballotVars,
                   delegationVars, sealVars, stakeOf, forced, execVars>>

(***************************************************************************)
(* Execution of a passed poll.                                             *)
(***************************************************************************)

CanQueue ==
    /\ Outcome = "Passed"
    /\ ~execution.done /\ ~execution.queued
    /\ now + Config.timelockSeconds <= MaxUint

\* Mutant: the timelock is not added.
QueueImmediate(value) ==
    /\ CanQueue
    /\ execution' = [NoExecution EXCEPT !.queued = TRUE, !.value = value,
                                        !.readyAt = now]
    /\ UNCHANGED <<now, clockVars, setupVars, isWhitelisted, ballotVars,
                   delegationVars, sealVars, stakeVars, performed>>

QueueExecution(value) ==
    /\ CanQueue
    /\ execution' = [queued |-> TRUE, value |-> value,
                     readyAt |-> now + Config.timelockSeconds,
                     failed |-> FALSE, done |-> FALSE]
    /\ UNCHANGED <<now, clockVars, setupVars, isWhitelisted, ballotVars,
                   delegationVars, sealVars, stakeVars, performed>>

CanExecute == execution.queued /\ ~execution.done /\ now >= execution.readyAt

\* A target that fails, or a value the poll does not hold, leaves the
\* execution queued with its error; the transaction succeeds all the same.
Execute(ok) ==
    /\ CanExecute
    /\ \/ /\ ok /\ execution.value <= balance
          /\ execution' = [execution EXCEPT !.done = TRUE, !.failed = FALSE]
          /\ performed' = performed + 1
          /\ balance' = balance - execution.value
       \/ /\ ~ok
          /\ execution' = [execution EXCEPT !.failed = TRUE]
          /\ UNCHANGED <<performed, balance>>
    /\ UNCHANGED <<now, clockVars, setupVars, isWhitelisted, ballotVars,
                   delegationVars, sealVars, stakeOf, totalStaked, forced>>

CanCancel == execution.queued /\ ~execution.done

\* Mutant: an execution that was carried out can be cancelled.
CancelAnytime ==
    /\ execution.queued
    /\ execution' = NoExecution
    /\ UNCHANGED <<now, clockVars, setupVars, isWhitelisted, ballotVars,
                   delegationVars, sealVars, stakeVars, performed>>

CancelExecution ==
    /\ CanCancel
    /\ execution' = NoExecution
    /\ UNCHANGED <<now, clockVars, setupVars, isWhitelisted, ballotVars,
                   delegationVars, sealVars, stakeVars, performed>>

(***************************************************************************)
(* Ether that enters without calling the poll (a selfdestruct): the poll   *)
(* cannot refuse it and does not see it.                                   *)
(***************************************************************************)

ForceEther ==
    /\ forced < MaxForced
    /\ forced' = forced + 1
    /\ balance' = balance + 1
    /\ UNCHANGED <<now, clockVars, setupVars, isWhitelisted, ballotVars,
                   delegationVars, sealVars, stakeOf, totalStaked, execVars>>

(***************************************************************************)
(* Time.  The clock stops one tick after the last deadline a guard of the  *)
(* current state compares it with: no later time could be told apart.      *)
(***************************************************************************)

LastDeadline ==
    CASE phase = "Reveal" -> revealEndsAt
      [] phase = "Ended"  -> IF votingEndedAt + GracePeriod > execution.readyAt
                             THEN votingEndedAt + GracePeriod
                             ELSE execution.readyAt
      [] OTHER            -> EndsAt

Tick ==
    /\ now <= LastDeadline /\ now < MaxTime
    /\ now' = now + 1
    /\ UNCHANGED <<clockVars, setupVars, isWhitelisted, ballotVars,
                   delegationVars, sealVars, stakeVars, execVars>>

OwnerStep ==
    \/ \E vs \in SUBSET Voters : \E w \in [vs -> Weights] : SetWeights(w)
    \/ AddOption
    \/ \E id \in Options : RemoveOption(id)
    \/ \E vs \in SUBSET Voters, allowed \in BOOLEAN : SetWhitelist(vs, allowed)
    \/ StartPoll
    \/ EndPoll
    \/ SweepUnclaimed
    \/ CancelExecution

VoterStep(v) ==
    \/ \E to \in Voters \cup {None} : Delegate(v, to)
    \/ \E S \in SUBSET Options : Vote(v, S)
    \/ \E S \in SUBSET Options : ChangeVote(v, S)
    \/ WithdrawVote(v)
    \/ \E c \in Commitments : Commit(v, c)
    \/ WithdrawCommitment(v)
    \/ \E S \in SUBSET Options : Reveal(v, S)
    \/ Refund(v)

AnyoneStep ==
    \/ CloseAfterDeadline
    \/ CloseRevealWindow
    \/ \E value \in Values : QueueExecution(value)
    \/ \E ok \in BOOLEAN : Execute(ok)
    \/ ForceEther

Next == OwnerStep \/ (\E v \in Voters : VoterStep(v)) \/ AnyoneStep \/ Tick

Spec == Init /\ [][Next]_vars

(***************************************************************************)
(* Closing after a deadline and asking for one's own stake are open to     *)
(* anyone, so somebody with a stake in the poll eventually does them.  The *)
(* owner, the voters' other steps and the executions carry no fairness.    *)
(***************************************************************************)
FairSpec ==
    /\ Spec
    /\ WF_vars(Tick)
    /\ WF_vars(CloseAfterDeadline)
    /\ WF_vars(CloseRevealWindow)
    /\ \A v \in Voters : WF_vars(Refund(v))
=============================================================================
