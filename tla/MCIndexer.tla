------------------------------ MODULE MCIndexer ------------------------------
(***************************************************************************)
(* A short chain with one poll for TLC.                                    *)
(***************************************************************************)
EXTENDS IndexerProperties

CONSTANTS p1, v1, loop, route

Tx(call, ids) == [call |-> call, poll |-> p1, voter |-> v1, ids |-> ids]

Create == Tx("createPoll", {})

Update == Tx("updateOption", {1})

VoteFor(ids) == Tx("vote", ids)

Withdraw == Tx("withdrawVote", {})

\* A public ballot is cast, changed, withdrawn and cast again, in blocks of
\* their own or two in one block.
PublicMenu ==
    {<<>>, <<Create>>, <<Update>>, <<VoteFor({1, 2})>>,
     <<VoteFor({1}), VoteFor({2})>>, <<Withdraw>>}

\* A ballot is committed, then revealed, withdrawn or left to expire.
SealedMenu ==
    {<<>>, <<Create>>, <<Update>>, <<Tx("commit", {})>>, <<Tx("reveal", {1, 2})>>,
     <<Withdraw>>, <<Tx("refund", {})>>}

\* A poll is all there is to miss.
QuietMenu == {<<>>, <<Create>>}
=============================================================================
