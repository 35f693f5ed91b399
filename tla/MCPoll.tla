------------------------------- MODULE MCPoll -------------------------------
(***************************************************************************)
(* Small polls for TLC, one configuration per mechanism.                   *)
(***************************************************************************)
EXTENDS PollPage, TLC

\* An account's name is only ever compared.
VoterSymmetry == Permutations(Voters)

\* Public ballots of up to two options, a quorum and a timelock.
PublicConfig ==
    [DefaultConfig EXCEPT !.multiSelect = TRUE, !.maxSelections = 2,
                          !.quorumBps = 6000, !.timelockSeconds = 1]

DelegableConfig ==
    [DefaultConfig EXCEPT !.delegable = TRUE, !.weighted = TRUE]

CommitRevealConfig ==
    [DefaultConfig EXCEPT !.commitReveal = TRUE, !.revealWindowSeconds = 1]

OpenCommitRevealConfig == [CommitRevealConfig EXCEPT !.openToAll = TRUE]

\* Every list of options can be committed to; the empty list, and a list
\* longer than the poll allows, make commitments that cannot be opened.
AnyList == SUBSET Options

\* The hash of a client is never zero, but nothing keeps a caller from
\* sending zero.
AnyBytes32 == AnyList \cup {None}
=============================================================================
