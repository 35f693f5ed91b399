--------------------------- MODULE PollProperties ---------------------------
(***************************************************************************)
(* What a poll promises about power, ballots, stakes, its verdict and the  *)
(* action that follows it.                                                 *)
(***************************************************************************)
EXTENDS Poll

OwnPower == [v \in Voters |-> OwnPowerOf(v)]

\* The addresses that handed their vote to d.
DelegatorsOf(d) == {v \in Voters : delegatedTo[v] = d}

(***************************************************************************)
(* Power.                                                                  *)
(***************************************************************************)

\* Authority moves exactly one hop: whoever handed its vote away holds no
\* ballot and nobody's delegation (Poll.delegate, the rule of delegatedTo).
SingleHop ==
    \A v \in Voters : delegatedTo[v] # None =>
        /\ delegatedTo[v] # v
        /\ delegatedTo[delegatedTo[v]] = None
        /\ votedOptions[v] = {}

\* The counters delegate() maintains are what counting would give: every
\* hand-over, move and revocation is booked on both of its sides, one hop away.
DelegationBooks ==
    /\ SingleHop
    /\ \A d \in Voters :
          /\ delegateCountOf[d] = Cardinality(DelegatorsOf(d))
          /\ delegatedSurplus[d] = Total(OwnPower, DelegatorsOf(d))

\* A ballot is worth what its holder controls at this moment, not only when it
\* was cast: no delegation reaches or leaves an address that holds a ballot.
BallotCarriesControlledPower ==
    \A v \in Voters :
        votingPowerOf[v] =
            IF votedOptions[v] = {} THEN 0
            ELSE OwnPowerOf(v) + Total(OwnPower, DelegatorsOf(v))

\* Delegation neither creates nor destroys power: what all addresses control
\* (controlledPowerOf) adds up to what they brought.
PowerConserved ==
    Total([v \in Voters |-> ControlledPowerOf(v)], Voters) = Total(OwnPower, Voters)

\* After any sequence of casts, changes, withdrawals and reveals each option's
\* running count is the power of the ballots that back it, and of no others.
TallyIsTheBallots ==
    \A o \in Options :
        voteCount[o] = Total(votingPowerOf, {v \in Voters : o \in votedOptions[v]})

(***************************************************************************)
(* Commit and reveal.                                                      *)
(***************************************************************************)

\* Who has a sealed or an open ballot.
Participants == {v \in Voters : commitmentOf[v] # None \/ votedOptions[v] # {}}

\* Once voting has closed nobody joins and nobody votes otherwise than he had
\* sealed: a ballot that appears then is the one its commitment fixed, and it
\* appears once (commit, reveal, the Reveal phase).
NothingNewAfterClose ==
    [][(phase \in {"Reveal", "Ended"}) =>
        /\ Participants' \subseteq Participants
        /\ \A v \in Voters : votedOptions'[v] # votedOptions[v] =>
              /\ votedOptions[v] = {}
              /\ votedOptions'[v] = commitmentOf[v]]_vars

(***************************************************************************)
(* Stakes.                                                                 *)
(***************************************************************************)

\* The owner has taken the unclaimed stakes (or there were none left).
Swept == phase = "Ended" /\ now >= votingEndedAt + GracePeriod /\ totalStaked = 0

\* totalStaked is the sum of every outstanding stake until the owner sweeps,
\* where nobody commits to the zero word.
StakesSum == totalStaked = Total(stakeOf, Voters) \/ Swept

\* The ether a performed execution took with it.
Spent == IF execution.done THEN execution.value ELSE 0

\* The poll holds exactly the ether it accounts for, and what was forced into
\* it, which no refund, withdrawal or sweep ever pays out (the invariant stated
\* at totalStaked, and the reason sweepUnclaimed gives for its amount), less
\* what an execution spent, at most once (_runExecution pays its value from the
\* same balance, so a value above the forced ether is paid from the stakes).
Custody == balance = totalStaked + forced - Spent

\* The execution has not spent what is owed to the voters.
Solvent == Spent <= forced

\* While ballots can still be taken back, an address has deposited exactly one
\* stake when it holds a ballot, sealed or open, and nothing otherwise (where
\* nobody commits to the zero word).
BallotIsBacked ==
    phase \in {"Voting", "Reveal"} =>
        \A v \in Voters :
            stakeOf[v] = IF v \in Participants THEN Stake ELSE 0

\* The accounts with a stake to get back; after a sweep there are none.
Claimants == IF Swept THEN {} ELSE {v \in Voters : stakeOf[v] # 0}

Escrow == INSTANCE StakeEscrow WITH
    Accounts <- Voters,
    open <- phase \in {"Setup", "Voting"},
    holding <- Claimants,
    pot <- balance - forced

\* Under every mechanism the poll's ether moves as an escrow's does: one
\* deposit per ballot while voting is open, each returned once, the rest
\* forfeited as a whole.  So it is where nobody commits to the zero word and
\* executions carry no value: an escrow is not spent.
ImplementsEscrow == Escrow!Spec

\* A voter that asks gets its stake back, or the grace period has run out on it,
\* in a poll whose weights and times do not overflow and whose execution spends
\* none of the stakes.
EveryStakeComesBack ==
    \A v \in Voters : stakeOf[v] # 0 ~> (stakeOf[v] = 0 \/ Swept)

\* A poll that opened ends although its owner walks away (closeAfterDeadline,
\* closeRevealWindow), where weights and times do not overflow.
OpenPollEnds == phase \in {"Voting", "Reveal"} ~> phase = "Ended"

(***************************************************************************)
(* Verdict and execution.                                                  *)
(***************************************************************************)

\* The cached verdict is the one outcome() computes now, whatever happened
\* after the poll ended; before that there is none.
CachedVerdictIsCurrent == outcomeState = Outcome

\* An edit of the whitelist while votes are cast changes no verdict: it can
\* neither sink a poll that was passing nor rescue one that was failing
\* (frozenEligiblePower).
EditsMoveNoVerdict ==
    [][(isWhitelisted' # isWhitelisted /\ phase # "Setup") => Verdict' = Verdict]_vars

\* Whatever is queued, retried, cancelled and queued again, one call at most is
\* ever carried out, and the record says so.
ExecutesAtMostOnce == performed = IF execution.done THEN 1 ELSE 0

\* A call is carried out only for a poll that passed, and the voters have had
\* the whole timelock between the end and the call.
TimelockHonoured ==
    [][performed' # performed =>
        /\ outcomeState = "Passed"
        /\ now >= votingEndedAt + Config.timelockSeconds]_vars
=============================================================================
