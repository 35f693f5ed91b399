------------------------------ MODULE PollPage ------------------------------
(***************************************************************************)
(* The page of a poll: which buttons it offers to a voter, to the creator  *)
(* and to a passer-by.  The page keeps no state of the poll; it mirrors in *)
(* TypeScript the guards of the contract, and this module asks of every    *)
(* state the contract can reach whether the two agree.                     *)
(*                                                                         *)
(* The page modelled is one whose reads have answered from the current     *)
(* block, with a wallet connected, no write of its own outstanding, and a  *)
(* clock that shows the block's time: all a page can do about the rest is  *)
(* refuse, and a click on a stale page is an action whose guard fails.     *)
(***************************************************************************)
EXTENDS PollProperties, FiniteSetsExt

(***************************************************************************)
(* What the contract's voterState tells the page about v.                  *)
(***************************************************************************)

Marked(v) == votedOptions[v] # {}

\* currentOptionId: the first of the ascending selections, 0 without a ballot.
MyOptionId(v) == IF Marked(v) THEN Min(votedOptions[v]) ELSE 0

Committed(v) == commitmentOf[v] # None

DeadlinePassed == now >= EndsAt

VotingClosed == phase = "Ended" \/ (phase = "Voting" /\ DeadlinePassed)

(***************************************************************************)
(* The ballot.  Nothing here looks at delegations, weights or sealing.     *)
(***************************************************************************)

\* checkUntilAdmission lets nothing of its own through after these.
CheckUntilAdmission == phase \notin {"Setup", "Reveal"} /\ ~VotingClosed

VoteOffered(v, o) == ~Marked(v) /\ CheckUntilAdmission /\ Admitted(v)

\* Mutant: the option that was backed already is offered as a change.
ChangeToAnyOffered(v, o) == Marked(v) /\ CheckUntilAdmission

\* No admission for a holder of a ballot; any option but the first one held.
ChangeOffered(v, o) ==
    /\ Marked(v) /\ CheckUntilAdmission
    /\ o # MyOptionId(v)

\* Mutant: only a ballot that is counted can be taken back.
WithdrawCountedOffered(v) ==
    /\ phase # "Reveal" /\ ~VotingClosed /\ phase # "Setup"
    /\ Marked(v)

WithdrawOffered(v) ==
    /\ phase # "Reveal" /\ ~VotingClosed /\ phase # "Setup"
    /\ Committed(v) \/ Marked(v)

RefundOffered(v) == VotingClosed /\ stakeOf[v] # 0

\* Shown in Voting after the deadline only.
CloseOffered ==
    /\ phase = "Voting" /\ DeadlinePassed
    /\ phase # "Ended" /\ phase # "Setup"

(***************************************************************************)
(* The creator's panel, its text fields filled in.                         *)
(***************************************************************************)

StartOffered ==
    phase \in {"Voting", "Setup"} /\ optionCount >= MinOptions /\ ~DeadlinePassed

EndOffered == phase = "Voting"

WhitelistOffered == phase # "Ended"

OptionOffered == phase = "Setup"

RemoveOffered == OptionOffered /\ optionCount > MinOptions

SweepOffered ==
    /\ phase = "Ended"
    /\ votingEndedAt # 0 /\ now >= votingEndedAt + GracePeriod

(***************************************************************************)
(* The execution panel.                                                    *)
(***************************************************************************)

\* Only a queued entry has a target; the first case that applies.
ExecutionStage ==
    IF ~execution.queued THEN "none"
    ELSE IF execution.done THEN "done"
    ELSE IF execution.failed THEN "failed"
    ELSE IF now >= execution.readyAt THEN "ready" ELSE "waiting"

ShouldShowExecution == Outcome = "Passed" \/ execution.queued

QueueOffered == ShouldShowExecution /\ ExecutionStage = "none" /\ Outcome = "Passed"

ExecuteOffered == ShouldShowExecution /\ ExecutionStage \in {"ready", "failed"}

CancelOffered == ShouldShowExecution /\ ExecutionStage \notin {"none", "done"}

TurnoutBps ==
    IF frozenEligiblePower = 0 THEN 0
    ELSE (Tally * MaxBps) \div frozenEligiblePower

TurnoutClearsQuorum == Config.quorumBps = 0 \/ TurnoutBps >= Config.quorumBps

(***************************************************************************)
(* What the page owes its readers.                                         *)
(***************************************************************************)

\* No stake is out of its owner's reach because the page refuses a call the
\* contract would accept: not after the owner took the voter off the list, not
\* with a ballot that is still sealed, not in a vote whose creator walked away.
\* Two ways out exist in the contract alone: a sealed ballot is taken back past
\* the deadline (withdrawVote), and a poll left in its reveal window is ended
\* (closeRevealWindow, which no button calls, so that its refunds wait).
ExitsAreOffered ==
    /\ \A v \in Voters :
          /\ CanRefund(v) => RefundOffered(v)
          /\ CanWithdrawVote(v) => WithdrawOffered(v)
          /\ CanWithdrawCommitment(v) /\ ~DeadlinePassed => WithdrawOffered(v)
    /\ CanCloseAfterDeadline => CloseOffered

\* A voter's button the page offers is a transaction the contract accepts: it
\* does not ask for the signature of a call that must revert, but for three
\* cases it does not look at: a voter without power or who has delegated, a
\* refund at the deadline, one close too early, and a refund after the sweep or
\* from a poll whose execution spent the stakes.  Selections of one option.
OffersAreAccepted ==
    \A v \in Voters :
        /\ \A o \in 1 .. optionCount :
              /\ VoteOffered(v, o) /\ HasPower(v) /\ delegatedTo[v] = None =>
                    CanVote(v, {o})
              /\ ChangeOffered(v, o) => CanChangeVote(v, {o})
        /\ WithdrawOffered(v) => CanWithdrawVote(v) \/ CanWithdrawCommitment(v)
        /\ RefundOffered(v) /\ phase = "Ended" /\ ~Swept /\ Solvent => CanRefund(v)

\* The creator's panel offers a step exactly while the contract takes it, the
\* grace period of a poll closed early included; the contract alone refuses to
\* start twice, to sweep nothing, and to sweep what an execution has spent.
OwnerPanelFollowsPoll ==
    /\ EndOffered <=> CanClose
    /\ WhitelistOffered <=> CanSetWhitelist
    /\ RemoveOffered <=> CanRemoveOption(optionCount)
    /\ CanStartPoll <=> StartOffered /\ phase = "Setup"
    /\ CanSweep <=> SweepOffered /\ totalStaked # 0 /\ Solvent

\* The execution panel offers to queue, run, retry and cancel exactly while the
\* contract accepts it, a call that failed and the timelock's last second
\* included, and the turnout it shows clears the quorum when the verdict does.
ExecutionPanelFollowsPoll ==
    /\ QueueOffered <=> CanQueue
    /\ ExecuteOffered <=> CanExecute
    /\ CancelOffered <=> CanCancel
    /\ TurnoutClearsQuorum <=> QuorumMet

\* In every state a public poll can reach, the page neither withholds a way out
\* nor offers a transaction that must revert, to whoever looks at it: voters,
\* the creator, the executor.  The cases set aside are named at the parts.
PageFollowsPoll ==
    /\ ExitsAreOffered
    /\ OffersAreAccepted
    /\ OwnerPanelFollowsPoll
    /\ ExecutionPanelFollowsPoll
=============================================================================
