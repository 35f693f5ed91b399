----------------------------- MODULE ChainProofs -----------------------------
(***************************************************************************)
(* The chain as the indexer sees it, for every menu of blocks: what the    *)
(* contracts' guards say about a whole history of logs, and where a log of *)
(* a block stands in that history.                                         *)
(*                                                                         *)
(* FlattenSeq and FoldLeft are recursive.  What they compute is proved by  *)
(* the least-number principle, which the library's theorems on             *)
(* well-founded relations give for sets of numbers.                        *)
(***************************************************************************)
EXTENDS IndexerProperties, TLAPS, SequenceTheorems, WellFoundedInduction

-----------------------------------------------------------------------------
(***************************************************************************)
(* Induction, over a set of numbers.                                       *)
(***************************************************************************)

Smaller == {r \in Nat \X Nat : r[1] < r[2]}

\* A set of naturals has a least element.
LEMMA LeastElement ==
    ASSUME NEW S \in SUBSET Nat, S # {}
    PROVE  \E n \in S : \A m \in S : n <= m
<1>1. IsWellFoundedOn(Smaller, Nat)
  <2>1. OpToRel(<, Nat) = Smaller
    BY DEF OpToRel, Smaller
  <2> QED
    BY <2>1, NatLessThanWellFounded
<1>2. PICK n \in S : \A m \in S : ~(<<m, n>> \in Smaller)
    BY <1>1, WFMin
<1>3. ASSUME NEW m \in S, m < n
      PROVE  FALSE
  <2>1. <<m, n>> \in Nat \X Nat /\ <<m, n>>[1] < <<m, n>>[2]
    BY <1>3
  <2> QED
    BY <1>2, <2>1 DEF Smaller
<1> QED
    BY <1>3

\* What holds at 0 and passes from n to n + 1 holds of every natural.
LEMMA Induction ==
    ASSUME NEW S, 0 \in S, \A n \in Nat : n \in S => n + 1 \in S
    PROVE  Nat \subseteq S
<1> SUFFICES ASSUME Nat \ S # {}
             PROVE  FALSE
    OBVIOUS
<1>1. PICK n \in Nat \ S : \A m \in Nat \ S : n <= m
    BY LeastElement
<1>2. n # 0 /\ n - 1 \in Nat /\ n - 1 \in S
    BY <1>1
<1> QED
    BY <1>1, <1>2

-----------------------------------------------------------------------------
(***************************************************************************)
(* FlattenSeq.                                                             *)
(***************************************************************************)

\* f[i]: the concatenation of the first i sequences, in terms of f[i - 1].
Concatenated(seqs, f, i) == IF i = 1 THEN seqs[i] ELSE f[i - 1] \o seqs[i]

\* The recursion that defines FlattenSeq has a solution.
LEMMA ConcatenationExists ==
    ASSUME NEW seqs, NEW n \in Nat
    PROVE  \E f : f = [i \in 1..n |-> Concatenated(seqs, f, i)]
<1> DEFINE Solved == {m \in Nat : \E f : f = [i \in 1..m |-> Concatenated(seqs, f, i)]}
<1>1. 0 \in Solved
  <2> DEFINE f == [i \in 1..0 |-> {}]
  <2>1. f = [i \in 1..0 |-> Concatenated(seqs, f, i)]
    OBVIOUS
  <2> QED
    BY <2>1
<1>2. ASSUME NEW m \in Nat, m \in Solved
      PROVE  m + 1 \in Solved
  <2>1. PICK f : f = [i \in 1..m |-> Concatenated(seqs, f, i)]
    BY <1>2
  <2> DEFINE g == [i \in 1..m + 1 |-> IF i = m + 1 THEN Concatenated(seqs, f, i)
                                                   ELSE f[i]]
  <2>2. ASSUME NEW i \in 1..m + 1
        PROVE  g[i] = Concatenated(seqs, g, i)
    <3>1. g[i] = Concatenated(seqs, f, i)
        BY <2>1
    <3>2. i # 1 => i - 1 \in 1..m
        OBVIOUS
    <3>3. i # 1 => g[i - 1] = f[i - 1]
        BY <3>2
    <3> HIDE DEF g
    <3> QED
        BY <3>1, <3>3 DEF Concatenated
  <2>3. g = [i \in 1..m + 1 |-> Concatenated(seqs, g, i)]
    BY <2>2
  <2> HIDE DEF g
  <2> QED
    BY <2>3
<1> HIDE DEF Solved
<1>3. Nat \subseteq Solved
    BY <1>1, <1>2, Induction
<1> QED
    BY <1>3 DEF Solved

\* FlattenSeq is the last value of a solution.
LEMMA FlattenIsLast ==
    ASSUME NEW seqs, Len(seqs) \in Nat \ {0}
    PROVE  \E f : /\ f = [i \in 1..Len(seqs) |-> Concatenated(seqs, f, i)]
                  /\ FlattenSeq(seqs) = f[Len(seqs)]
<1> DEFINE f == CHOOSE f : f = [i \in 1..Len(seqs) |->
                    IF i = 1 THEN seqs[i] ELSE f[i - 1] \o seqs[i]]
<1>1. FlattenSeq(seqs) = f[Len(seqs)]
    BY DEF FlattenSeq
<1>2. f = [i \in 1..Len(seqs) |-> Concatenated(seqs, f, i)]
    BY ConcatenationExists DEF Concatenated
<1> QED
    BY <1>1, <1>2

\* One more sequence is added at the end.
LEMMA FlattenAppend ==
    ASSUME NEW X, NEW seqs \in Seq(Seq(X)), NEW s \in Seq(X)
    PROVE  FlattenSeq(Append(seqs, s)) = FlattenSeq(seqs) \o s
<1> DEFINE n == Len(seqs)
           more == Append(seqs, s)
<1>1. /\ n \in Nat /\ Len(more) = n + 1 /\ more[n + 1] = s
      /\ \A i \in 1..n : more[i] = seqs[i]
    OBVIOUS
<1> HIDE DEF more
<1>2. PICK g : /\ g = [i \in 1..n + 1 |-> Concatenated(more, g, i)]
               /\ FlattenSeq(more) = g[n + 1]
  <2>1. Len(more) \in Nat \ {0}
    BY <1>1
  <2>2. PICK g : /\ g = [i \in 1..Len(more) |-> Concatenated(more, g, i)]
                 /\ FlattenSeq(more) = g[Len(more)]
    BY <2>1, FlattenIsLast
  <2> QED
    BY <1>1, <2>2
<1>3. CASE n = 0
  <2>1. FlattenSeq(seqs) = <<>>
    BY <1>3 DEF FlattenSeq
  <2>2. g[1] = s
    <3>1. 1 \in 1..n + 1
        BY <1>3
    <3> QED
        BY <1>1, <1>2, <1>3, <3>1 DEF Concatenated
  <2> QED
    BY <1>1, <1>2, <1>3, <2>1, <2>2 DEF more
<1>4. CASE n # 0
  <2>1. PICK f : /\ f = [i \in 1..n |-> Concatenated(seqs, f, i)]
                 /\ FlattenSeq(seqs) = f[n]
    BY <1>1, <1>4, FlattenIsLast
  <2> DEFINE Agree == {i \in Nat : i \in 1..n => f[i] = g[i]}
  <2>2. 0 \in Agree
    OBVIOUS
  <2>3. ASSUME NEW i \in Nat, i \in Agree
        PROVE  i + 1 \in Agree
    <3> SUFFICES ASSUME i + 1 \in 1..n
                 PROVE  f[i + 1] = g[i + 1]
        OBVIOUS
    <3>1. f[i + 1] = Concatenated(seqs, f, i + 1)
        BY <2>1
    <3>2. g[i + 1] = Concatenated(more, g, i + 1)
      <4>1. i + 1 \in 1..n + 1
        BY <1>1
      <4> QED
        BY <1>2, <4>1
    <3>3. i = 0 \/ f[i] = g[i]
        BY <2>3
    <3> QED
        BY <1>1, <3>1, <3>2, <3>3 DEF Concatenated
  <2> HIDE DEF Agree
  <2>4. Nat \subseteq Agree
    BY <2>2, <2>3, Induction
  <2>5. f[n] = g[n]
    BY <1>1, <1>4, <2>4 DEF Agree
  <2>6. g[n + 1] = g[n] \o s
    <3>1. n + 1 \in 1..n + 1 /\ n + 1 # 1 /\ n + 1 - 1 = n
        BY <1>1, <1>4
    <3>2. g[n + 1] = Concatenated(more, g, n + 1)
        BY <1>2, <3>1
    <3> QED
        BY <1>1, <3>1, <3>2 DEF Concatenated
  <2> QED
    BY <1>2, <2>1, <2>5, <2>6 DEF more
<1> QED
    BY <1>3, <1>4

-----------------------------------------------------------------------------
(***************************************************************************)
(* Standing, which folds a history from the left.                          *)
(***************************************************************************)

\* f[S]: what the logs at the places S leave, in terms of all but the last.
Folded(p, v, logs, f, S) ==
    IF S = {} THEN {} ELSE Replayed(p, v, f[S \ {Max(S)}], logs[Max(S)])

IsFold(p, v, logs, n, f) == f = [S \in SUBSET (1..n) |-> Folded(p, v, logs, f, S)]

\* The last place.
LEMMA MaxOfInterval ==
    ASSUME NEW n \in Nat, NEW S \in SUBSET (1..n), n \in S
    PROVE  Max(S) = n
<1>1. n \in S /\ \A y \in S : n >= y
    OBVIOUS
<1>2. Max(S) \in S /\ \A y \in S : Max(S) >= y
    BY <1>1 DEF Max
<1>3. Max(S) \in 1..n /\ Max(S) >= n
    BY <1>2
<1> QED
    BY <1>3

\* The recursion that defines the fold has a solution.
LEMMA FoldExists ==
    ASSUME NEW p, NEW v, NEW logs, NEW n \in Nat
    PROVE  \E f : IsFold(p, v, logs, n, f)
<1> DEFINE Solved == {m \in Nat : \E f : IsFold(p, v, logs, m, f)}
<1>1. 0 \in Solved
  <2> DEFINE f == [S \in SUBSET (1..0) |-> {}]
  <2>1. IsFold(p, v, logs, 0, f)
    BY DEF IsFold, Folded
  <2> HIDE DEF f
  <2> QED
    BY <2>1
<1>2. ASSUME NEW m \in Nat, m \in Solved
      PROVE  m + 1 \in Solved
  <2>1. PICK f : IsFold(p, v, logs, m, f)
    BY <1>2
  <2> DEFINE g == [S \in SUBSET (1..m + 1) |->
                    IF m + 1 \in S THEN Folded(p, v, logs, f, S) ELSE f[S]]
  <2>2. ASSUME NEW S \in SUBSET (1..m + 1)
        PROVE  g[S] = Folded(p, v, logs, g, S)
    <3>1. CASE m + 1 \in S
      <4>1. Max(S) = m + 1
        BY <3>1, MaxOfInterval
      <4>2. S \ {Max(S)} \in SUBSET (1..m)
        BY <4>1
      <4>3. g[S \ {Max(S)}] = f[S \ {Max(S)}]
        BY <4>2
      <4>4. g[S] = Folded(p, v, logs, f, S)
        BY <3>1
      <4> HIDE DEF g
      <4> QED
        BY <4>3, <4>4 DEF Folded
    <3>2. CASE m + 1 \notin S
      <4>1. S \in SUBSET (1..m)
        BY <3>2
      <4>2. g[S] = f[S] /\ g[S \ {Max(S)}] = f[S \ {Max(S)}]
        <5> DEFINE T == S \ {Max(S)}
        <5>1. T \in SUBSET (1..m + 1) /\ m + 1 \notin T
            BY <3>2
        <5> HIDE DEF T
        <5>2. g[T] = f[T]
            BY <5>1
        <5>3. g[S] = f[S]
            BY <3>2
        <5> QED
            BY <5>2, <5>3 DEF T
      <4>3. f[S] = Folded(p, v, logs, f, S)
        BY <2>1, <4>1 DEF IsFold
      <4> HIDE DEF g
      <4> QED
        BY <4>2, <4>3 DEF Folded
    <3> QED
        BY <3>1, <3>2
  <2>3. IsFold(p, v, logs, m + 1, g)
    BY <2>2 DEF IsFold
  <2> HIDE DEF g
  <2> QED
    BY <2>3
<1> HIDE DEF Solved
<1>3. Nat \subseteq Solved
    BY <1>1, <1>2, Induction
<1> QED
    BY <1>3 DEF Solved

\* Standing is the value of a solution at all the places.
LEMMA StandingIsFolded ==
    ASSUME NEW p, NEW v, NEW X, NEW logs \in Seq(X)
    PROVE  \E f : /\ IsFold(p, v, logs, Len(logs), f)
                  /\ Standing(p, v, logs) = f[1..Len(logs)]
<1> DEFINE f == CHOOSE f : f = [S \in SUBSET DOMAIN logs |->
                    IF S = {} THEN {}
                    ELSE Replayed(p, v, f[S \ {Max(S)}], logs[Max(S)])]
<1>1. Standing(p, v, logs) = f[DOMAIN logs]
    BY DEF Standing, FoldLeft, MapThenFoldSet
<1>2. DOMAIN logs = 1..Len(logs) /\ Len(logs) \in Nat
    OBVIOUS
<1>3. f = [S \in SUBSET DOMAIN logs |-> Folded(p, v, logs, f, S)]
  <2>1. \E g : g = [S \in SUBSET DOMAIN logs |-> Folded(p, v, logs, g, S)]
    <3>1. PICK g : IsFold(p, v, logs, Len(logs), g)
        BY <1>2, FoldExists
    <3> QED
        BY <1>2, <3>1, Zenon DEF IsFold
  <2> QED
    BY <2>1 DEF Folded
<1> HIDE DEF f
<1>4. IsFold(p, v, logs, Len(logs), f)
    BY <1>2, <1>3, Zenon DEF IsFold
<1> QED
    BY <1>1, <1>2, <1>4

\* The places up to i + 1, in terms of the places up to i.
LEMMA FoldOfPrefix ==
    ASSUME NEW p, NEW v, NEW logs, NEW n \in Nat, NEW f,
           IsFold(p, v, logs, n, f), NEW i \in Nat, i < n
    PROVE  f[1..i + 1] = Replayed(p, v, f[1..i], logs[i + 1])
<1>1. 1..i + 1 \in SUBSET (1..n) /\ i + 1 \in 1..i + 1 /\ 1..i + 1 # {}
    OBVIOUS
<1>2. Max(1..i + 1) = i + 1
    BY MaxOfInterval
<1>3. (1..i + 1) \ {i + 1} = 1..i
    OBVIOUS
<1>4. f[1..i + 1] = Folded(p, v, logs, f, 1..i + 1)
    BY <1>1 DEF IsFold
<1> QED
    BY <1>1, <1>2, <1>3, <1>4 DEF Folded

\* Nobody has voted before the first log.
LEMMA StandingAtFirst ==
    ASSUME NEW p, NEW v
    PROVE  Standing(p, v, <<>>) = {}
<1>1. <<>> \in Seq({})
    OBVIOUS
<1>2. PICK f : IsFold(p, v, <<>>, 0, f) /\ Standing(p, v, <<>>) = f[1..0]
  <2>1. \E f : /\ IsFold(p, v, <<>>, Len(<<>>), f)
               /\ Standing(p, v, <<>>) = f[1..Len(<<>>)]
    BY <1>1, StandingIsFolded, Zenon
  <2> QED
    BY <2>1
<1>3. 1..0 = {} /\ {} \in SUBSET (1..0)
    OBVIOUS
<1>4. f[{}] = Folded(p, v, <<>>, f, {})
    BY <1>2, <1>3 DEF IsFold
<1> QED
    BY <1>2, <1>3, <1>4 DEF Folded

\* One more log is replayed on what stood before it.
LEMMA StandingAppend ==
    ASSUME NEW p, NEW v, NEW X, NEW logs \in Seq(X), NEW l \in X
    PROVE  Standing(p, v, Append(logs, l))
              = Replayed(p, v, Standing(p, v, logs), l)
<1> DEFINE n == Len(logs)
           more == Append(logs, l)
<1>1. /\ n \in Nat /\ more \in Seq(X) /\ Len(more) = n + 1 /\ more[n + 1] = l
      /\ \A i \in 1..n : more[i] = logs[i]
    OBVIOUS
<1> HIDE DEF more
<1>2. PICK f : IsFold(p, v, logs, n, f) /\ Standing(p, v, logs) = f[1..n]
    BY StandingIsFolded
<1>3. PICK g : /\ IsFold(p, v, more, n + 1, g)
               /\ Standing(p, v, more) = g[1..n + 1]
  <2>1. \E g : /\ IsFold(p, v, more, Len(more), g)
               /\ Standing(p, v, more) = g[1..Len(more)]
    BY <1>1, StandingIsFolded
  <2> QED
    BY <1>1, <2>1
<1> HIDE DEF n
<1> DEFINE Agree == {i \in Nat : i <= n => f[1..i] = g[1..i]}
<1>4. 0 \in Agree
  <2>1. f[{}] = Folded(p, v, logs, f, {}) /\ g[{}] = Folded(p, v, more, g, {})
    BY <1>2, <1>3 DEF IsFold
  <2>2. 1..0 = {}
    OBVIOUS
  <2> QED
    BY <2>1, <2>2 DEF Folded
<1>5. ASSUME NEW i \in Nat, i \in Agree
      PROVE  i + 1 \in Agree
  <2> SUFFICES ASSUME i + 1 <= n
               PROVE  f[1..i + 1] = g[1..i + 1]
    OBVIOUS
  <2>1. i < n /\ i < n + 1 /\ n + 1 \in Nat /\ i + 1 \in 1..n
    BY <1>1
  <2>2. f[1..i + 1] = Replayed(p, v, f[1..i], logs[i + 1])
    BY <1>1, <1>2, <2>1, FoldOfPrefix
  <2>3. g[1..i + 1] = Replayed(p, v, g[1..i], more[i + 1])
    BY <1>3, <2>1, FoldOfPrefix
  <2>4. f[1..i] = g[1..i]
    BY <1>1, <1>5
  <2> QED
    BY <1>1, <2>1, <2>2, <2>3, <2>4
<1> HIDE DEF Agree
<1>6. f[1..n] = g[1..n]
  <2>1. n \in Agree
    BY <1>1, <1>4, <1>5, Induction
  <2> QED
    BY <1>1, <2>1 DEF Agree
<1>7. g[1..n + 1] = Replayed(p, v, g[1..n], more[n + 1])
  <2>1. n < n + 1 /\ n + 1 \in Nat
    BY <1>1
  <2> QED
    BY <1>1, <1>3, <2>1, FoldOfPrefix
<1> QED
    BY <1>1, <1>2, <1>3, <1>6, <1>7 DEF more

-----------------------------------------------------------------------------
(***************************************************************************)
(* Histories: the logs a sequence of accepted transactions has left.       *)
(***************************************************************************)

\* The logs there can be.
Logs ==
    {l \in [address : {Factory} \cup Polls,
            event : DOMAIN VoteType \cup {"PollCreated", "OptionAdded", "OptionUpdated"},
            subject : Polls \cup Voters \cup {None}, ids : SUBSET OptionIds] :
        /\ l.event = "PollCreated" <=> l.address = Factory
        /\ l.event = "PollCreated" => l.subject \in Polls
        /\ l.event \in DOMAIN VoteType => l.subject \in Voters
        /\ l.event \in {"OptionAdded", "OptionUpdated"} => l.subject = None
        /\ l.event = "VoteRecorded" => l.ids # {}}

\* A poll's logs come with the one that announces it.
Announced(logs) ==
    \A i \in DOMAIN logs :
        logs[i].address \in Polls => Exists(logs[i].address, logs)

CreatedOnce(logs) ==
    \A i, j \in DOMAIN logs :
        /\ logs[i].event = "PollCreated" /\ logs[j].event = "PollCreated"
        /\ logs[i].subject = logs[j].subject
        => i = j

\* Nothing follows the reveal of a sealed ballot.
RevealedLast(logs) ==
    \A i \in DOMAIN logs :
        logs[i].event = "VoteRecorded" /\ logs[i].address \in SealedPolls =>
            \A j \in Own(logs[i].address, logs[i].subject, logs) : j <= i

\* The selection of an account whose last log is a ballot.
LastBallot(p, v, logs) ==
    {o \in OptionIds : \E i \in Own(p, v, logs) :
        /\ logs[i].event = "VoteRecorded" /\ o \in logs[i].ids
        /\ \A j \in Own(p, v, logs) : j <= i}

\* Whoever has a selection has done nothing since.
BallotStands(logs) ==
    \A p \in Polls, v \in Voters : Standing(p, v, logs) = LastBallot(p, v, logs)

History(logs) ==
    /\ logs \in Seq(Logs)
    /\ Announced(logs) /\ CreatedOnce(logs)
    /\ RevealedLast(logs) /\ BallotStands(logs)

About(p, v, l) == l.address = p /\ l.subject = v

\* What one more log adds to the logs about an account.
LEMMA OwnAppend ==
    ASSUME NEW logs \in Seq(Logs), NEW l \in Logs, NEW p \in Polls, NEW v \in Voters
    PROVE  LET more == Append(logs, l)
           IN  /\ ~About(p, v, l) => /\ Own(p, v, more) = Own(p, v, logs)
                                     /\ LastBallot(p, v, more) = LastBallot(p, v, logs)
               /\ About(p, v, l) =>
                    /\ Own(p, v, more) = Own(p, v, logs) \cup {Len(logs) + 1}
                    /\ LastBallot(p, v, more) =
                          IF l.event = "VoteRecorded" THEN l.ids ELSE {}
<1> DEFINE n == Len(logs)
           more == Append(logs, l)
<1>1. /\ n \in Nat /\ DOMAIN more = 1..n + 1 /\ more[n + 1] = l
      /\ DOMAIN logs = 1..n /\ \A i \in 1..n : more[i] = logs[i]
    OBVIOUS
<1>2. l.ids \subseteq OptionIds
    BY DEF Logs
<1> HIDE DEF more, n
<1>3. ASSUME ~About(p, v, l)
      PROVE  /\ Own(p, v, more) = Own(p, v, logs)
             /\ LastBallot(p, v, more) = LastBallot(p, v, logs)
  <2>1. Own(p, v, more) = Own(p, v, logs)
    BY <1>1, <1>3 DEF Own, About
  <2>2. \A i \in Own(p, v, logs) : more[i] = logs[i]
    BY <1>1 DEF Own
  <2> QED
    BY <2>1, <2>2 DEF LastBallot
<1>4. ASSUME About(p, v, l)
      PROVE  /\ Own(p, v, more) = Own(p, v, logs) \cup {n + 1}
             /\ LastBallot(p, v, more) =
                   IF l.event = "VoteRecorded" THEN l.ids ELSE {}
  <2>1. Own(p, v, more) = Own(p, v, logs) \cup {n + 1}
    BY <1>1, <1>4 DEF Own, About
  <2>2. \A i \in Own(p, v, more) : i <= n + 1
    BY <1>1 DEF Own
  <2>3. \A i \in Own(p, v, more) : (\A j \in Own(p, v, more) : j <= i) <=> i = n + 1
    BY <1>1, <2>1, <2>2 DEF Own
  <2> QED
    BY <1>1, <1>2, <2>1, <2>3 DEF LastBallot
<1> QED
    BY <1>3, <1>4 DEF more, n

\* One log of an existing poll, whose ballots are opened once if they are
\* sealed, and only committed where none stands.
LEMMA OneMoreLog ==
    ASSUME NEW logs, History(logs), NEW l \in Logs,
           l.address \in Polls, Exists(l.address, logs),
           l.subject \in Voters /\ l.address \in SealedPolls =>
              \A i \in Own(l.address, l.subject, logs) : logs[i].event # "VoteRecorded",
           l.event \in {"Committed", "CommitmentExpired"} =>
              LastBallot(l.address, l.subject, logs) = {}
    PROVE  History(Append(logs, l))
<1> USE ChainAssumption
<1> DEFINE n == Len(logs)
           more == Append(logs, l)
<1>1. /\ n \in Nat /\ DOMAIN more = 1..n + 1 /\ more[n + 1] = l
      /\ DOMAIN logs = 1..n /\ \A i \in 1..n : more[i] = logs[i]
      /\ more \in Seq(Logs) /\ logs \in Seq(Logs) /\ \A i \in 1..n : logs[i] \in Logs
    BY DEF History
<1>2. ASSUME NEW p \in Polls, NEW v \in Voters
      PROVE  Standing(p, v, more) = LastBallot(p, v, more)
  <2>1. Standing(p, v, more) = Replayed(p, v, Standing(p, v, logs), l)
    BY StandingAppend, <1>1
  <2>2. Standing(p, v, logs) = LastBallot(p, v, logs)
    BY DEF History, BallotStands
  <2>3. CASE About(p, v, l)
    <3>1. l.event \in DOMAIN VoteType
        BY <2>3 DEF Logs, About
    <3>2. l.event \in {"VoteRecorded", "VoteWithdrawn", "Committed", "CommitmentExpired"}
        BY <3>1 DEF VoteType
    <3>3. LastBallot(p, v, more) = IF l.event = "VoteRecorded" THEN l.ids ELSE {}
        BY <1>1, <2>3, OwnAppend
    <3> HIDE DEF more
    <3> QED
        BY <2>1, <2>2, <2>3, <3>2, <3>3 DEF Replayed, About
  <2>4. CASE ~About(p, v, l)
    <3>1. LastBallot(p, v, more) = LastBallot(p, v, logs)
        BY <1>1, <2>4, OwnAppend
    <3> HIDE DEF more
    <3> QED
        BY <2>1, <2>2, <2>4, <3>1 DEF Replayed, About
  <2> QED
    BY <2>3, <2>4
<1> HIDE DEF more, n
<1>3. l.event # "PollCreated"
    BY DEF Logs
<1>4. Announced(more)
  <2>1. ASSUME NEW p, Exists(p, logs)
        PROVE  Exists(p, more)
    BY <1>1, <2>1 DEF Exists
  <2> QED
    BY <1>1, <2>1 DEF Announced, History
<1>5. CreatedOnce(more)
    BY <1>1, <1>3 DEF CreatedOnce, History
<1>6. RevealedLast(more)
  <2> SUFFICES ASSUME NEW i \in 1..n + 1, more[i].event = "VoteRecorded",
                      more[i].address \in SealedPolls,
                      NEW j \in Own(more[i].address, more[i].subject, more)
               PROVE  j <= i
    BY <1>1 DEF RevealedLast
  <2>1. j \in 1..n + 1
    BY <1>1 DEF Own
  <2>2. CASE i = n + 1
    BY <2>1, <2>2, <1>1
  <2>3. CASE i \in 1..n
    <3>1. /\ more[i] = logs[i] /\ logs[i] \in Logs
          /\ i \in Own(logs[i].address, logs[i].subject, logs)
        BY <1>1, <2>3 DEF Own
    <3>2. logs[i].subject \in Voters
        BY <3>1, <1>1 DEF Logs, VoteType
    <3>3. j # n + 1
        BY <1>1, <3>1, <3>2 DEF Own
    <3>4. j \in Own(logs[i].address, logs[i].subject, logs)
        BY <1>1, <2>1, <3>1, <3>3 DEF Own
    <3> QED
        BY <1>1, <2>3, <3>1, <3>4 DEF History, RevealedLast
  <2> QED
    BY <2>2, <2>3, <1>1
<1> QED
    BY <1>1, <1>2, <1>4, <1>5, <1>6 DEF History, BallotStands, more

\* Creating a poll and naming its options is no account's doing.
LEMMA QuietLogs ==
    ASSUME NEW logs \in Seq(Logs), NEW s \in Seq(Logs),
           \A i \in DOMAIN s : s[i].event \notin DOMAIN VoteType,
           NEW p \in Polls, NEW v \in Voters
    PROVE  /\ Standing(p, v, logs \o s) = Standing(p, v, logs)
           /\ LastBallot(p, v, logs \o s) = LastBallot(p, v, logs)
           /\ Own(p, v, logs \o s) = Own(p, v, logs)
<1> USE ChainAssumption
<1> DEFINE upTo(k) == logs \o SubSeq(s, 1, k)
           Same(k) == /\ Standing(p, v, upTo(k)) = Standing(p, v, logs)
                      /\ LastBallot(p, v, upTo(k)) = LastBallot(p, v, logs)
                      /\ Own(p, v, upTo(k)) = Own(p, v, logs)
           Unmoved == {k \in Nat : k <= Len(s) => Same(k)}
<1>1. 0 \in Unmoved
  <2>1. upTo(0) = logs
    OBVIOUS
  <2> QED
    BY <2>1
<1>2. ASSUME NEW k \in Nat, k \in Unmoved
      PROVE  k + 1 \in Unmoved
  <2> SUFFICES ASSUME k + 1 <= Len(s)
               PROVE  Same(k + 1)
    OBVIOUS
  <2>1. /\ k + 1 \in DOMAIN s /\ s[k + 1] \in Logs
        /\ s[k + 1].event \notin DOMAIN VoteType
    OBVIOUS
  <2>2. /\ upTo(k) \in Seq(Logs)
        /\ upTo(k + 1) = Append(upTo(k), s[k + 1])
    BY <2>1
  <2>3. Same(k)
    BY <1>2
  <2> HIDE DEF upTo
  <2>4. ~About(p, v, s[k + 1])
    BY <2>1 DEF About, Logs
  <2>5. Standing(p, v, upTo(k + 1)) = Replayed(p, v, Standing(p, v, upTo(k)), s[k + 1])
    <3>1. \A hist \in Seq(Logs), l \in Logs :
            Standing(p, v, Append(hist, l)) = Replayed(p, v, Standing(p, v, hist), l)
        BY StandingAppend
    <3> QED
        BY <2>1, <2>2, <3>1
  <2>6. Replayed(p, v, Standing(p, v, upTo(k)), s[k + 1]) = Standing(p, v, upTo(k))
    BY <2>4 DEF Replayed, About
  <2>7. /\ LastBallot(p, v, upTo(k + 1)) = LastBallot(p, v, upTo(k))
        /\ Own(p, v, upTo(k + 1)) = Own(p, v, upTo(k))
    <3>1. \A hist \in Seq(Logs), l \in Logs : ~About(p, v, l) =>
            /\ Own(p, v, Append(hist, l)) = Own(p, v, hist)
            /\ LastBallot(p, v, Append(hist, l)) = LastBallot(p, v, hist)
        BY OwnAppend
    <3> QED
        BY <2>1, <2>2, <2>4, <3>1
  <2> QED
    BY <2>3, <2>5, <2>6, <2>7
<1> HIDE DEF Same
<1>3. Same(Len(s))
  <2> HIDE DEF Unmoved
  <2>1. Nat \subseteq Unmoved
    BY <1>1, <1>2, Induction
  <2> QED
    BY <2>1 DEF Unmoved
<1>4. upTo(Len(s)) = logs \o s
    OBVIOUS
<1> QED
    BY <1>3, <1>4 DEF Same

\* What createPoll leaves.
LEMMA CreatedLogs ==
    ASSUME NEW p \in Polls
    PROVE  /\ Created(p) \in Seq(Logs)
           /\ \A i \in DOMAIN Created(p) :
                /\ Created(p)[i].event \in {"OptionAdded", "PollCreated"}
                /\ Created(p)[i].address \in {p, Factory}
                /\ Created(p)[i].event = "PollCreated" =>
                      Created(p)[i].subject = p /\ i = Len(Created(p))
           /\ \E i \in DOMAIN Created(p) :
                Created(p)[i].address = Factory /\ Created(p)[i].subject = p
<1> USE ChainAssumption
<1> DEFINE added == [o \in OptionIds |-> Log(p, "OptionAdded", None, {o})]
           last == Log(Factory, "PollCreated", p, {})
<1>1. \A o \in OptionIds : added[o] \in Logs /\ added[o].event = "OptionAdded"
                            /\ added[o].address = p
    BY DEF Log, Logs, VoteType, OptionIds
<1>2. /\ last \in Logs /\ last.event = "PollCreated" /\ last.address = Factory
      /\ last.subject = p
    BY DEF Log, Logs, VoteType
<1>3. added \in Seq(Logs) /\ Len(added) = NumOptions /\ DOMAIN added = 1..NumOptions
    BY <1>1 DEF OptionIds
<1> HIDE DEF added, last
<1> DEFINE all == added \o <<last>>
<1>4. /\ all \in Seq(Logs) /\ DOMAIN all = 1..NumOptions + 1
      /\ Len(all) = NumOptions + 1 /\ all[NumOptions + 1] = last
      /\ \A i \in 1..NumOptions : all[i] = added[i]
    BY <1>2, <1>3
<1>5. Created(p) = all
    BY DEF Created, added, last
<1> HIDE DEF all
<1>6. \A i \in 1..NumOptions : all[i].event = "OptionAdded" /\ all[i].address = p
    BY <1>1, <1>3, <1>4 DEF OptionIds
<1> QED
    BY <1>2, <1>4, <1>5, <1>6

\* A poll that does not exist yet is created.
LEMMA OneMorePoll ==
    ASSUME NEW logs, History(logs), NEW p \in Polls, ~Exists(p, logs)
    PROVE  History(logs \o Created(p))
<1> DEFINE n == Len(logs)
           new == Created(p)
           more == logs \o new
<1>1. /\ new \in Seq(Logs) /\ logs \in Seq(Logs) /\ n \in Nat
      /\ DOMAIN new = 1..Len(new) /\ Len(new) \in Nat
    BY CreatedLogs DEF History
<1>2. /\ more \in Seq(Logs) /\ DOMAIN more = 1..n + Len(new) /\ DOMAIN logs = 1..n
      /\ \A i \in 1..n : more[i] = logs[i]
      /\ \A i \in 1..n + Len(new) : i \notin 1..n =>
            i - n \in 1..Len(new) /\ more[i] = new[i - n]
      /\ \A i \in 1..Len(new) : more[n + i] = new[i] /\ n + i \in DOMAIN more
    BY <1>1
<1>3. \A q \in Polls, v \in Voters :
        /\ Standing(q, v, more) = Standing(q, v, logs)
        /\ LastBallot(q, v, more) = LastBallot(q, v, logs)
        /\ Own(q, v, more) = Own(q, v, logs)
  <2>1. \A i \in DOMAIN new : new[i].event \notin DOMAIN VoteType
    BY CreatedLogs DEF VoteType
  <2> QED
    BY <1>1, <2>1, QuietLogs
<1> HIDE DEF more, new, n
<1>4. BallotStands(more)
    BY <1>3 DEF BallotStands, History
<1>5. \A q : Exists(q, logs) => Exists(q, more)
    BY <1>1, <1>2 DEF Exists
<1>6. Exists(p, more)
  <2>1. PICK i \in DOMAIN new : new[i].address = Factory /\ new[i].subject = p
    BY CreatedLogs DEF new
  <2> QED
    BY <1>1, <1>2, <2>1 DEF Exists
<1>7. Announced(more)
  <2> SUFFICES ASSUME NEW i \in DOMAIN more, more[i].address \in Polls
               PROVE  Exists(more[i].address, more)
    BY DEF Announced
  <2>1. CASE i \in 1..n
    BY <2>1, <1>2, <1>5 DEF Announced, History
  <2>2. CASE i \notin 1..n
    <3>1. i - n \in DOMAIN new /\ more[i] = new[i - n]
        BY <1>1, <1>2, <2>2
    <3>2. more[i].address = p
        BY <3>1, CreatedLogs, ChainAssumption DEF new
    <3> QED
        BY <3>2, <1>6
  <2> QED
    BY <2>1, <2>2
<1>8. CreatedOnce(more)
  <2> SUFFICES ASSUME NEW i \in DOMAIN more, NEW j \in DOMAIN more,
                      more[i].event = "PollCreated", more[j].event = "PollCreated",
                      more[i].subject = more[j].subject
               PROVE  i = j
    BY DEF CreatedOnce
  <2>1. ASSUME NEW k \in DOMAIN more, k \in 1..n, more[k].event = "PollCreated"
        PROVE  more[k].subject # p
    <3>1. logs[k].address = Factory /\ more[k] = logs[k] /\ k \in DOMAIN logs
        BY <1>1, <1>2, <2>1 DEF Logs
    <3> QED
        BY <3>1 DEF Exists
  <2>2. ASSUME NEW k \in DOMAIN more, k \notin 1..n, more[k].event = "PollCreated"
        PROVE  more[k].subject = p /\ k = n + Len(new)
    <3>1. k - n \in DOMAIN new /\ more[k] = new[k - n]
        BY <1>1, <1>2, <2>2
    <3>2. more[k].subject = p /\ k - n = Len(new)
        BY <2>2, <3>1, CreatedLogs DEF new
    <3>3. k \in Int /\ n \in Int /\ Len(new) \in Int
        BY <1>1, <1>2
    <3> QED
        BY <3>2, <3>3
  <2>3. CASE i \in 1..n /\ j \in 1..n
    BY <2>3, <1>2 DEF CreatedOnce, History
  <2> QED
    BY <2>1, <2>2, <2>3
<1>9. RevealedLast(more)
  <2> SUFFICES ASSUME NEW i \in DOMAIN more, more[i].event = "VoteRecorded",
                      more[i].address \in SealedPolls,
                      NEW j \in Own(more[i].address, more[i].subject, more)
               PROVE  j <= i
    BY DEF RevealedLast
  <2>1. i \in 1..n
    <3> SUFFICES ASSUME i \notin 1..n
                 PROVE  FALSE
        OBVIOUS
    <3>1. i - n \in DOMAIN new /\ more[i] = new[i - n]
        BY <1>1, <1>2
    <3> QED
        BY <3>1, CreatedLogs DEF new
  <2>2. more[i] = logs[i] /\ logs[i] \in Logs /\ i \in DOMAIN logs
    BY <2>1, <1>1, <1>2
  <2>3. logs[i].subject \in Voters /\ logs[i].address \in Polls
    BY <2>2, ChainAssumption DEF Logs, VoteType
  <2>4. j \in Own(logs[i].address, logs[i].subject, logs)
    BY <1>3, <2>2, <2>3
  <2> QED
    BY <2>2, <2>4 DEF History, RevealedLast
<1> QED
    BY <1>2, <1>4, <1>7, <1>8, <1>9 DEF History, more, new

\* What the last log of an account tells.
LEMMA LastTells ==
    ASSUME NEW logs, History(logs), NEW p \in Polls, NEW v \in Voters,
           NEW event, LastWas(p, v, event, logs)
    PROVE  /\ Exists(p, logs)
           /\ event # "VoteRecorded" =>
                /\ LastBallot(p, v, logs) = {}
                /\ p \in SealedPolls =>
                      \A i \in Own(p, v, logs) : logs[i].event # "VoteRecorded"
<1>1. PICK k \in Own(p, v, logs) :
          logs[k].event = event /\ \A j \in Own(p, v, logs) : j <= k
    BY DEF LastWas
<1>2. Exists(p, logs)
    BY <1>1 DEF Own, History, Announced
<1>3. ASSUME NEW i \in Own(p, v, logs), \A j \in Own(p, v, logs) : j <= i
      PROVE  i = k
  <2>1. i \in Int /\ k \in Int
    BY <1>1 DEF Own, History
  <2> QED
    BY <1>1, <1>3, <2>1
<1>4. event # "VoteRecorded" => LastBallot(p, v, logs) = {}
    BY <1>1, <1>3 DEF LastBallot
<1>5. ASSUME event # "VoteRecorded", p \in SealedPolls,
             NEW i \in Own(p, v, logs), logs[i].event = "VoteRecorded"
      PROVE  FALSE
  <2>1. \A j \in Own(p, v, logs) : j <= i
    BY <1>5 DEF Own, History, RevealedLast
  <2> QED
    BY <1>1, <1>3, <1>5, <2>1
<1> QED
    BY <1>2, <1>4, <1>5

\* What the contracts accept keeps the history.
LEMMA AcceptedStep ==
    ASSUME NEW logs, History(logs), NEW tx \in Transactions, Accepted(tx, logs)
    PROVE  History(logs \o EmittedBy(tx)) /\ EmittedBy(tx) \in Seq(Logs)
<1> USE ChainAssumption
<1> DEFINE p == tx.poll
           v == tx.voter
<1>1. /\ p \in Polls /\ v \in Voters /\ tx.ids \subseteq OptionIds
      /\ tx.call \in {"createPoll", "updateOption", "vote", "withdrawVote", "commit",
                      "reveal", "refund"}
      /\ logs \in Seq(Logs)
    BY DEF Transactions, History
<1>2. \A event : LastWas(p, v, event, logs) =>
        /\ Exists(p, logs)
        /\ event # "VoteRecorded" =>
             /\ LastBallot(p, v, logs) = {}
             /\ p \in SealedPolls =>
                   \A i \in Own(p, v, logs) : logs[i].event # "VoteRecorded"
    BY <1>1, LastTells
<1>3. ~Happened(p, "VoteRecorded", logs) =>
        \A i \in Own(p, v, logs) : logs[i].event # "VoteRecorded"
    BY DEF Happened, Own
<1>4. ASSUME NEW l \in Logs, l.address = p, EmittedBy(tx) = <<l>>, Exists(p, logs),
             l.subject # None => l.subject = v,
             l.subject # None /\ p \in SealedPolls =>
                \A i \in Own(p, v, logs) : logs[i].event # "VoteRecorded",
             l.event \in {"Committed", "CommitmentExpired"} =>
                l.subject = v /\ LastBallot(p, v, logs) = {}
      PROVE  History(logs \o EmittedBy(tx)) /\ EmittedBy(tx) \in Seq(Logs)
  <2>1. History(Append(logs, l))
    BY <1>1, <1>4, OneMoreLog
  <2>2. logs \o <<l>> = Append(logs, l)
    BY <1>1
  <2>3. <<l>> \in Seq(Logs)
    BY <1>4
  <2> QED
    BY <1>4, <2>1, <2>2, <2>3, Zenon
<1>5. CASE tx.call = "createPoll"
  <2>1. EmittedBy(tx) = Created(p) /\ ~Exists(p, logs)
    BY <1>5 DEF EmittedBy, Accepted
  <2> QED
    BY <1>1, <2>1, OneMorePoll, CreatedLogs
<1>6. CASE tx.call = "updateOption"
  <2> DEFINE l == Log(p, "OptionUpdated", None, tx.ids)
  <2>1. EmittedBy(tx) = <<l>> /\ Exists(p, logs)
    BY <1>6 DEF EmittedBy, Accepted
  <2>2. l \in Logs /\ l.address = p /\ l.subject = None /\ l.event = "OptionUpdated"
    BY <1>1 DEF Log, Logs, VoteType
  <2> HIDE DEF l
  <2> QED
    <3>1. l.event \notin {"Committed", "CommitmentExpired"} /\ ~(l.subject # None)
        BY <2>2
    <3> QED
        BY <1>4, <2>1, <2>2, <3>1, Zenon
<1>7. CASE tx.call \in {"vote", "reveal"}
  <2> DEFINE l == Log(p, "VoteRecorded", v, tx.ids)
  <2>1. EmittedBy(tx) = <<l>>
    BY <1>7 DEF EmittedBy
  <2>2. tx.ids # {}
    BY <1>7 DEF Accepted, Selection
  <2>3. l \in Logs /\ l.address = p /\ l.subject = v /\ l.event = "VoteRecorded"
    BY <1>1, <2>2 DEF Log, Logs, VoteType
  <2>4. \/ Exists(p, logs) /\ p \notin SealedPolls
        \/ LastWas(p, v, "Committed", logs)
    BY <1>7 DEF Accepted
  <2> HIDE DEF l
  <2> QED
    BY <1>2, <1>4, <2>1, <2>3, <2>4
<1>8. CASE tx.call = "withdrawVote"
  <2> DEFINE l == Log(p, "VoteWithdrawn", v, {})
  <2>1. EmittedBy(tx) = <<l>>
    BY <1>8 DEF EmittedBy
  <2>2. l \in Logs /\ l.address = p /\ l.subject = v /\ l.event = "VoteWithdrawn"
    BY <1>1 DEF Log, Logs, VoteType
  <2>3. \/ p \notin SealedPolls /\ LastWas(p, v, "VoteRecorded", logs)
        \/ LastWas(p, v, "Committed", logs)
    BY <1>8 DEF Accepted
  <2> HIDE DEF l
  <2> QED
    BY <1>2, <1>4, <2>1, <2>2, <2>3
<1>9. CASE tx.call = "commit"
  <2> DEFINE l == Log(p, "Committed", v, {})
  <2>1. EmittedBy(tx) = <<l>>
    BY <1>9 DEF EmittedBy
  <2>2. l \in Logs /\ l.address = p /\ l.subject = v /\ l.event = "Committed"
    BY <1>1 DEF Log, Logs, VoteType
  <2>3. /\ Exists(p, logs) /\ ~Happened(p, "VoteRecorded", logs)
        /\ Own(p, v, logs) = {} \/ LastWas(p, v, "VoteWithdrawn", logs)
    BY <1>9 DEF Accepted
  <2>4. Own(p, v, logs) = {} => LastBallot(p, v, logs) = {}
    BY DEF LastBallot
  <2> HIDE DEF l
  <2> QED
    BY <1>2, <1>3, <1>4, <2>1, <2>2, <2>3, <2>4
<1>10. CASE tx.call = "refund"
  <2> DEFINE l == Log(p, "CommitmentExpired", v, {})
  <2>1. EmittedBy(tx) = <<l>>
    BY <1>10 DEF EmittedBy
  <2>2. l \in Logs /\ l.address = p /\ l.subject = v /\ l.event = "CommitmentExpired"
    BY <1>1 DEF Log, Logs, VoteType
  <2>3. LastWas(p, v, "Committed", logs)
    BY <1>10 DEF Accepted
  <2> HIDE DEF l
  <2> QED
    BY <1>2, <1>4, <2>1, <2>2, <2>3
<1> QED
    BY <1>1, <1>5, <1>6, <1>7, <1>8, <1>9, <1>10

-----------------------------------------------------------------------------
(***************************************************************************)
(* Blocks.                                                                 *)
(***************************************************************************)

\* Every block, on top of those below it, leaves a history.
ChainHistory ==
    /\ chain \in Seq(Seq(Logs))
    /\ \A n \in 0..Len(chain) : History(LogsUpTo(n))

\* The logs of one more transaction of a block.
LEMMA MinedMore ==
    ASSUME NEW txs \in Seq(Transactions), NEW k \in Nat, k < Len(txs),
           Mined(SubSeq(txs, 1, k)) \in Seq(Logs), EmittedBy(txs[k + 1]) \in Seq(Logs),
           \A i \in 1..k : EmittedBy(txs[i]) \in Seq(Logs)
    PROVE  Mined(SubSeq(txs, 1, k + 1))
              = Mined(SubSeq(txs, 1, k)) \o EmittedBy(txs[k + 1])
<1> DEFINE few == SubSeq(txs, 1, k)
           many == SubSeq(txs, 1, k + 1)
           emitted == [i \in DOMAIN few |-> EmittedBy(few[i])]
           more == [i \in DOMAIN many |-> EmittedBy(many[i])]
<1>1. /\ DOMAIN few = 1..k /\ DOMAIN many = 1..k + 1
      /\ \A i \in 1..k : few[i] = txs[i] /\ many[i] = txs[i]
      /\ many[k + 1] = txs[k + 1]
    OBVIOUS
<1>2. emitted \in Seq(Seq(Logs))
  <2>1. \A i \in 1..k : emitted[i] \in Seq(Logs)
    BY <1>1
  <2>2. emitted \in [1..k -> Seq(Logs)]
    BY <1>1, <2>1
  <2> HIDE DEF emitted
  <2> QED
    BY <2>2
<1>3. more = Append(emitted, EmittedBy(txs[k + 1]))
  <2>1. /\ DOMAIN emitted = 1..k /\ Len(emitted) = k
        /\ \A i \in 1..k : emitted[i] = EmittedBy(txs[i])
    BY <1>1, <1>2
  <2>2. /\ DOMAIN more = 1..k + 1
        /\ \A i \in 1..k + 1 : more[i] = EmittedBy(txs[i])
    BY <1>1
  <2> HIDE DEF emitted
  <2> DEFINE longer == Append(emitted, EmittedBy(txs[k + 1]))
  <2>3. /\ longer \in Seq(Seq(Logs)) /\ Len(longer) = k + 1
        /\ longer[k + 1] = EmittedBy(txs[k + 1])
        /\ \A i \in 1..k : longer[i] = EmittedBy(txs[i])
    BY <1>2, <2>1, AppendProperties
  <2> HIDE DEF longer
  <2>4. more \in Seq(Seq(Logs)) /\ Len(more) = k + 1
    BY <2>2
  <2>5. \A i \in 1..Len(more) : more[i] = longer[i]
    BY <2>2, <2>3, <2>4
  <2> HIDE DEF more
  <2>6. more = longer
    BY <2>3, <2>4, <2>5, SeqEqual
  <2> QED
    BY <2>6 DEF longer
<1>4. FlattenSeq(more) = FlattenSeq(emitted) \o EmittedBy(txs[k + 1])
    BY <1>2, <1>3, FlattenAppend
<1> QED
    BY <1>4 DEF Mined

\* A block of accepted transactions keeps the history.
LEMMA BlockStep ==
    ASSUME NEW txs \in Seq(Transactions), Valid(txs), History(FlattenSeq(chain))
    PROVE  History(FlattenSeq(chain) \o Mined(txs)) /\ Mined(txs) \in Seq(Logs)
<1> DEFINE before == FlattenSeq(chain)
           logs(k) == Mined(SubSeq(txs, 1, k))
           Good(k) == /\ logs(k) \in Seq(Logs) /\ History(before \o logs(k))
                      /\ \A i \in 1..k : EmittedBy(txs[i]) \in Seq(Logs)
           Reached == {k \in Nat : k <= Len(txs) => Good(k)}
<1>1. before \in Seq(Logs)
    BY DEF History
<1>2. 0 \in Reached
  <2>1. SubSeq(txs, 1, 0) = <<>>
    OBVIOUS
  <2>2. logs(0) = <<>>
    BY <2>1 DEF Mined, FlattenSeq
  <2> HIDE DEF before
  <2>3. before \o <<>> = before
    BY <1>1, ConcatEmptySeq
  <2> HIDE DEF logs
  <2>4. <<>> \in Seq(Logs) /\ History(before)
    BY DEF before
  <2>5. Good(0)
    <3>1. History(before \o logs(0))
        BY <2>2, <2>3, <2>4
    <3>2. \A i \in 1..0 : EmittedBy(txs[i]) \in Seq(Logs)
        OBVIOUS
    <3> QED
        BY <2>2, <2>4, <3>1, <3>2
  <2> QED
    BY <2>5
<1>3. ASSUME NEW k \in Nat, k \in Reached
      PROVE  k + 1 \in Reached
  <2> SUFFICES ASSUME k + 1 <= Len(txs)
               PROVE  Good(k + 1)
    OBVIOUS
  <2>1. Good(k) /\ k + 1 \in DOMAIN txs /\ txs[k + 1] \in Transactions
    BY <1>3
  <2>2. Accepted(txs[k + 1], before \o logs(k))
    BY <2>1 DEF Valid
  <2>3. /\ History((before \o logs(k)) \o EmittedBy(txs[k + 1]))
        /\ EmittedBy(txs[k + 1]) \in Seq(Logs)
    BY <2>1, <2>2, AcceptedStep
  <2>4. logs(k + 1) = logs(k) \o EmittedBy(txs[k + 1])
    <3>1. k < Len(txs) /\ logs(k) \in Seq(Logs)
          /\ \A i \in 1..k : EmittedBy(txs[i]) \in Seq(Logs)
        BY <2>1
    <3> QED
        BY <2>3, <3>1, MinedMore
  <2> HIDE DEF logs, before
  <2>5. logs(k + 1) \in Seq(Logs)
    BY <2>1, <2>3, <2>4, ConcatProperties
  <2>6. before \o logs(k + 1) = (before \o logs(k)) \o EmittedBy(txs[k + 1])
    <3>1. \A s, t, u \in Seq(Logs) : (s \o t) \o u = s \o (t \o u)
        BY ConcatAssociative
    <3>2. logs(k) \in Seq(Logs)
        BY <2>1
    <3>3. EmittedBy(txs[k + 1]) \in Seq(Logs)
        BY <2>3
    <3>4. (before \o logs(k)) \o EmittedBy(txs[k + 1])
            = before \o (logs(k) \o EmittedBy(txs[k + 1]))
        BY <1>1, <3>1, <3>2, <3>3
    <3> QED
        BY <2>4, <3>4
  <2>7. \A i \in 1..k + 1 : EmittedBy(txs[i]) \in Seq(Logs)
    BY <2>1, <2>3
  <2>8. Good(k + 1)
    BY <2>3, <2>5, <2>6, <2>7
  <2> QED
    BY <2>8
<1> HIDE DEF Good
<1>4. Good(Len(txs))
  <2> HIDE DEF Reached
  <2>1. Nat \subseteq Reached
    BY <1>2, <1>3, Induction
  <2> QED
    BY <2>1 DEF Reached
<1>5. SubSeq(txs, 1, Len(txs)) = txs
    OBVIOUS
<1> QED
    BY <1>4, <1>5 DEF Good

\* The history of a prefix of the chain stays when only higher blocks change.
LEMMA PrefixStays ==
    ASSUME NEW low \in Seq(Seq(Logs)), NEW high \in Seq(Seq(Logs)),
           NEW n \in Nat, n <= Len(low), n <= Len(high),
           \A i \in 1..n : low[i] = high[i]
    PROVE  SubSeq(low, 1, n) = SubSeq(high, 1, n)
<1>1. \A t \in Seq(Seq(Logs)) : n <= Len(t) =>
        SubSeq(t, 1, n) = [i \in 1..n |-> t[i]]
    BY SubSeqProperties
<1> QED
    BY <1>1

\* The whole chain.
LEMMA AllLogs == ASSUME chain \in Seq(Seq(Logs))
                 PROVE  LogsUpTo(Len(chain)) = FlattenSeq(chain)
<1>1. SubSeq(chain, 1, Len(chain)) = chain
    OBVIOUS
<1> QED
    BY <1>1 DEF LogsUpTo

\* Nothing has happened on an empty chain.
LEMMA HistoryInit == ChainInit => ChainHistory
<1> SUFFICES ASSUME ChainInit PROVE ChainHistory
    OBVIOUS
<1>1. chain = <<>> /\ Len(chain) = 0
    BY DEF ChainInit
<1>2. LogsUpTo(0) = <<>>
    BY <1>1 DEF LogsUpTo, FlattenSeq
<1>3. BallotStands(<<>>)
    BY StandingAtFirst DEF BallotStands, LastBallot, Own
<1>4. History(<<>>)
    BY <1>3 DEF History, Announced, CreatedOnce, RevealedLast
<1>5. chain \in Seq(Seq(Logs))
    BY <1>1
<1>6. \A n \in 0..Len(chain) : n = 0
    BY <1>1
<1> QED
    BY <1>2, <1>4, <1>5, <1>6 DEF ChainHistory

\* A block the network adds, and a reorganisation.
LEMMA HistoryMine ==
    ASSUME ChainHistory, NEW txs \in Menu, Mine(txs)
    PROVE  ChainHistory'
<1>1. txs \in Seq(Transactions) /\ Valid(txs) /\ chain' = Append(chain, Mined(txs))
    BY ChainAssumption DEF Mine
<1>2. chain \in Seq(Seq(Logs)) /\ Len(chain) \in Nat
    BY DEF ChainHistory
<1>3. LogsUpTo(Len(chain)) = FlattenSeq(chain)
    BY <1>2, AllLogs
<1>4. /\ History(FlattenSeq(chain) \o Mined(txs))
      /\ Mined(txs) \in Seq(Logs)
  <2>1. History(FlattenSeq(chain))
    BY <1>2, <1>3 DEF ChainHistory
  <2> QED
    BY <1>1, <2>1, BlockStep
<1>5. /\ chain' \in Seq(Seq(Logs)) /\ Len(chain') = Len(chain) + 1
      /\ \A i \in 1..Len(chain) : chain'[i] = chain[i]
    BY <1>1, <1>2, <1>4
<1>6. ASSUME NEW n \in 0..Len(chain)
      PROVE  History(LogsUpTo(n))'
  <2>1. SubSeq(chain', 1, n) = SubSeq(chain, 1, n)
    BY <1>2, <1>5, PrefixStays
  <2> QED
    BY <2>1 DEF LogsUpTo, ChainHistory, History, Announced, CreatedOnce,
                RevealedLast, BallotStands
<1>7. ASSUME NEW n, n = Len(chain) + 1
      PROVE  History(LogsUpTo(n))'
  <2>1. FlattenSeq(chain') = FlattenSeq(chain) \o Mined(txs)
    BY <1>1, <1>2, <1>4, FlattenAppend
  <2>2. LogsUpTo(n)' = FlattenSeq(chain')
    <3>1. SubSeq(chain', 1, Len(chain')) = chain'
        BY <1>5
    <3> QED
        BY <1>5, <1>7, <3>1 DEF LogsUpTo
  <2> QED
    BY <1>4, <2>1, <2>2
<1>8. \A n \in 0..Len(chain') : n \in 0..Len(chain) \/ n = Len(chain) + 1
    BY <1>2, <1>5
<1> QED
    BY <1>5, <1>6, <1>7, <1>8 DEF ChainHistory

LEMMA HistoryReorg ==
    ASSUME ChainHistory, NEW fork \in 0..MaxHeight, Reorg(fork)
    PROVE  ChainHistory'
<1>1. /\ chain' = SubSeq(chain, 1, fork) /\ fork < Len(chain) /\ fork \in Nat
      /\ chain \in Seq(Seq(Logs)) /\ Len(chain) \in Nat
    BY DEF Reorg, ChainHead, ChainHistory
<1>2. /\ chain' \in Seq(Seq(Logs)) /\ Len(chain') = fork
      /\ \A i \in 1..fork : chain'[i] = chain[i]
    BY <1>1
<1>3. ASSUME NEW n \in 0..fork
      PROVE  History(LogsUpTo(n))'
  <2>1. SubSeq(chain', 1, n) = SubSeq(chain, 1, n)
    BY <1>1, <1>2, PrefixStays
  <2>2. LogsUpTo(n)' = LogsUpTo(n)
    BY <2>1 DEF LogsUpTo
  <2>3. n \in 0..Len(chain)
    BY <1>1
  <2>4. History(LogsUpTo(n))
    BY <2>3 DEF ChainHistory
  <2> QED
    BY <2>2, <2>4 DEF History, Announced, CreatedOnce, RevealedLast, BallotStands
<1> QED
    BY <1>2, <1>3 DEF ChainHistory

-----------------------------------------------------------------------------
(***************************************************************************)
(* The place of a log of a block in the history.                           *)
(***************************************************************************)

Place(n, i) == Len(LogsUpTo(n - 1)) + i

\* One more block.
LEMMA LogsOfBlock ==
    ASSUME ChainHistory, NEW n \in Nat, n < Len(chain)
    PROVE  LogsUpTo(n + 1) = LogsUpTo(n) \o chain[n + 1]
<1>1. chain \in Seq(Seq(Logs))
    BY DEF ChainHistory
<1>2. SubSeq(chain, 1, n + 1) = Append(SubSeq(chain, 1, n), chain[n + 1])
    BY <1>1
<1>3. SubSeq(chain, 1, n) \in Seq(Seq(Logs)) /\ chain[n + 1] \in Seq(Logs)
    BY <1>1
<1> QED
    BY <1>2, <1>3, FlattenAppend DEF LogsUpTo

\* The history of a lower block is a prefix of that of a higher one, and each
\* log of the history stands in one of the blocks.
LEMMA LogsOfPrefix ==
    ASSUME ChainHistory, NEW n \in 0..Len(chain)
    PROVE  /\ LogsUpTo(n) \in Seq(Logs)
           /\ \A m \in 0..n :
                /\ Len(LogsUpTo(m)) <= Len(LogsUpTo(n))
                /\ \A k \in 1..Len(LogsUpTo(m)) : LogsUpTo(n)[k] = LogsUpTo(m)[k]
           /\ \A k \in DOMAIN LogsUpTo(n) :
                \E m \in 1..n : \E i \in DOMAIN chain[m] :
                    k = Place(m, i) /\ LogsUpTo(n)[k] = chain[m][i]
<1> DEFINE Prefixed(l) ==
            \A m \in 0..l :
                /\ Len(LogsUpTo(m)) <= Len(LogsUpTo(l))
                /\ \A k \in 1..Len(LogsUpTo(m)) : LogsUpTo(l)[k] = LogsUpTo(m)[k]
           Placed(l) ==
            \A k \in DOMAIN LogsUpTo(l) :
                \E m \in 1..l : \E i \in DOMAIN chain[m] :
                    k = Place(m, i) /\ LogsUpTo(l)[k] = chain[m][i]
           Good == {l \in Nat : l <= Len(chain) => Prefixed(l) /\ Placed(l)}
<1>1. \A l \in 0..Len(chain) : LogsUpTo(l) \in Seq(Logs) /\ Len(LogsUpTo(l)) \in Nat
    BY DEF ChainHistory, History
<1>2. chain \in Seq(Seq(Logs)) /\ Len(chain) \in Nat
    BY DEF ChainHistory
<1>3. 0 \in Good
  <2>1. LogsUpTo(0) = <<>>
    <3>1. SubSeq(chain, 1, 0) = <<>>
        BY <1>2
    <3> QED
        BY <3>1 DEF LogsUpTo, FlattenSeq
  <2>2. Placed(0)
    BY <2>1
  <2>3. Prefixed(0)
    BY <2>1
  <2> QED
    BY <2>2, <2>3
<1>4. ASSUME NEW l \in Nat, l \in Good
      PROVE  l + 1 \in Good
  <2> SUFFICES ASSUME l + 1 <= Len(chain)
               PROVE  Prefixed(l + 1) /\ Placed(l + 1)
    OBVIOUS
  <2>1. /\ Prefixed(l) /\ Placed(l) /\ l < Len(chain)
        /\ l \in 0..Len(chain) /\ l + 1 \in 0..Len(chain)
    BY <1>2, <1>4
  <2> DEFINE old == LogsUpTo(l)
             block == chain[l + 1]
             new == LogsUpTo(l + 1)
  <2>2. new = old \o block
    BY <2>1, LogsOfBlock
  <2>3. old \in Seq(Logs) /\ block \in Seq(Logs)
    BY <1>1, <1>2, <2>1
  <2>4. /\ Len(new) = Len(old) + Len(block)
        /\ Len(old) \in Nat /\ Len(block) \in Nat
        /\ DOMAIN old = 1..Len(old) /\ DOMAIN block = 1..Len(block)
        /\ DOMAIN new = 1..Len(old) + Len(block)
        /\ \A k \in 1..Len(old) : new[k] = old[k]
        /\ \A i \in 1..Len(block) : new[Len(old) + i] = block[i]
    <3> HIDE DEF old, block, new
    <3> QED
        BY <2>2, <2>3
  <2>5. Prefixed(l + 1)
    <3> SUFFICES ASSUME NEW m \in 0..l + 1
                 PROVE  /\ Len(LogsUpTo(m)) <= Len(new)
                        /\ \A k \in 1..Len(LogsUpTo(m)) : new[k] = LogsUpTo(m)[k]
        OBVIOUS
    <3>1. CASE m = l + 1
        BY <3>1, <2>4
    <3>2. CASE m # l + 1
      <4>1. m \in 0..l /\ Len(LogsUpTo(m)) \in Nat
        BY <1>1, <2>1, <3>2
      <4>2. /\ Len(LogsUpTo(m)) <= Len(old)
            /\ \A k \in 1..Len(LogsUpTo(m)) : old[k] = LogsUpTo(m)[k]
        BY <2>1, <4>1
      <4> HIDE DEF old, new, block
      <4> QED
        BY <2>4, <4>1, <4>2
    <3> QED
        BY <3>1, <3>2
  <2>6. Placed(l + 1)
    <3> SUFFICES ASSUME NEW k \in DOMAIN new
                 PROVE  \E m \in 1..l + 1 : \E i \in DOMAIN chain[m] :
                            k = Place(m, i) /\ new[k] = chain[m][i]
        OBVIOUS
    <3>1. CASE k \in 1..Len(old)
      <4>1. k \in DOMAIN old /\ new[k] = old[k]
        BY <2>4, <3>1
      <4>2. PICK m \in 1..l : \E i \in DOMAIN chain[m] :
                k = Place(m, i) /\ old[k] = chain[m][i]
        BY <2>1, <4>1
      <4> HIDE DEF old, new, block
      <4> QED
        BY <4>1, <4>2
    <3>2. CASE k \notin 1..Len(old)
      <4> DEFINE i == k - Len(old)
      <4>1. i \in DOMAIN block /\ k = Len(old) + i /\ new[k] = block[i]
        <5>1. Len(old) \in Nat /\ Len(block) \in Nat /\ k \in 1..Len(old) + Len(block)
            BY <2>4
        <5>2. DOMAIN block = 1..Len(block)
            BY <2>2
        <5> HIDE DEF old, block, new
        <5>3. i \in 1..Len(block) /\ k = Len(old) + i
            BY <3>2, <5>1
        <5> QED
            BY <2>4, <5>2, <5>3
      <4>2. k = Place(l + 1, i)
        BY <4>1 DEF Place
      <4>3. i \in DOMAIN chain[l + 1] /\ new[k] = chain[l + 1][i]
        BY <4>1
      <4>4. l + 1 \in 1..l + 1
        BY <2>1
      <4> HIDE DEF i, old, new, block
      <4> QED
        BY <4>2, <4>3, <4>4
    <3> QED
        BY <3>1, <3>2
  <2> QED
    BY <2>5, <2>6
<1> HIDE DEF Prefixed, Placed
<1>5. n \in Good
  <2> HIDE DEF Good
  <2>1. Nat \subseteq Good
    BY <1>3, <1>4, Induction
  <2> QED
    BY <1>2, <2>1
<1> QED
    BY <1>1, <1>2, <1>5 DEF Prefixed, Placed

\* A log of a block, in the history of that block or of a higher one.
LEMMA LogAtPlace ==
    ASSUME ChainHistory, NEW n \in 0..Len(chain), NEW m \in 1..n,
           NEW i \in DOMAIN chain[m]
    PROVE  /\ Place(m, i) \in DOMAIN LogsUpTo(n)
           /\ LogsUpTo(n)[Place(m, i)] = chain[m][i]
           /\ Place(m, i) \in Len(LogsUpTo(m - 1)) + 1..Len(LogsUpTo(m))
<1>1. chain \in Seq(Seq(Logs)) /\ Len(chain) \in Nat
    BY DEF ChainHistory
<1>2. m - 1 \in Nat /\ m - 1 < Len(chain) /\ m = (m - 1) + 1
      /\ m - 1 \in 0..Len(chain) /\ m \in 0..Len(chain) /\ m \in 0..n
    BY <1>1
<1> DEFINE old == LogsUpTo(m - 1)
           new == LogsUpTo(m)
           block == chain[m]
<1>3. new = old \o block
    BY <1>2, LogsOfBlock
<1>4. old \in Seq(Logs) /\ block \in Seq(Logs) /\ i \in DOMAIN block
    BY <1>1, <1>2, LogsOfPrefix
<1>5. /\ LogsUpTo(n) \in Seq(Logs)
      /\ Len(new) <= Len(LogsUpTo(n))
      /\ \A k \in 1..Len(new) : LogsUpTo(n)[k] = new[k]
    BY <1>2, LogsOfPrefix
<1>6. Place(m, i) = Len(old) + i
    BY DEF Place
<1> HIDE DEF old, new, block
<1>7. /\ Len(old) + i \in Len(old) + 1..Len(new)
      /\ Len(old) + i \in 1..Len(new) /\ new[Len(old) + i] = block[i]
    BY <1>3, <1>4
<1>8. DOMAIN LogsUpTo(n) = 1..Len(LogsUpTo(n)) /\ Len(LogsUpTo(n)) \in Nat
      /\ Len(new) \in Nat
    BY <1>3, <1>4, <1>5
<1> QED
    BY <1>5, <1>6, <1>7, <1>8 DEF old, new, block

\* Logs stand in the history in the order of their blocks, and in a block in
\* that of their indexes.
LEMMA PlacesInOrder ==
    ASSUME ChainHistory, NEW m \in 1..Len(chain), NEW i \in DOMAIN chain[m],
           NEW n \in 1..Len(chain), NEW j \in DOMAIN chain[n]
    PROVE  /\ Place(m, i) < Place(n, j) <=> m < n \/ (m = n /\ i < j)
           /\ Place(m, i) = Place(n, j) <=> m = n /\ i = j
           /\ Place(m, i) \in Nat /\ i \in Nat
<1>1. chain \in Seq(Seq(Logs)) /\ Len(chain) \in Nat /\ m \in Nat /\ n \in Nat
    BY DEF ChainHistory
<1>2. i \in Nat /\ j \in Nat
    BY <1>1
<1>3. \A l \in 0..Len(chain) : Len(LogsUpTo(l)) \in Nat
    BY LogsOfPrefix
<1>4. /\ Place(m, i) \in Len(LogsUpTo(m - 1)) + 1..Len(LogsUpTo(m))
      /\ Place(n, j) \in Len(LogsUpTo(n - 1)) + 1..Len(LogsUpTo(n))
  <2>1. Len(chain) \in 0..Len(chain)
    BY <1>1
  <2>2. \A q \in 1..Len(chain) : \A k \in DOMAIN chain[q] :
          Place(q, k) \in Len(LogsUpTo(q - 1)) + 1..Len(LogsUpTo(q))
    BY <2>1, LogAtPlace
  <2> QED
    BY <2>2
<1>5. /\ m - 1 \in 0..Len(chain) /\ n - 1 \in 0..Len(chain)
      /\ m \in 0..Len(chain) /\ n \in 0..Len(chain)
    BY <1>1
<1>6. \A k \in 0..Len(chain), l \in 0..Len(chain) :
          k <= l => Len(LogsUpTo(k)) <= Len(LogsUpTo(l))
    BY LogsOfPrefix
<1>7. m < n => Place(m, i) < Place(n, j)
  <2>1. m < n => Len(LogsUpTo(m)) <= Len(LogsUpTo(n - 1))
    BY <1>1, <1>5, <1>6
  <2> QED
    BY <1>3, <1>4, <1>5, <2>1
<1>8. n < m => Place(n, j) < Place(m, i)
  <2>1. n < m => Len(LogsUpTo(n)) <= Len(LogsUpTo(m - 1))
    BY <1>1, <1>5, <1>6
  <2> QED
    BY <1>3, <1>4, <1>5, <2>1
<1>9. m = n => Place(m, i) - i = Place(n, j) - j
    BY <1>2, <1>3, <1>5 DEF Place
<1>10. Place(m, i) \in Int /\ Place(n, j) \in Int
    BY <1>2, <1>3, <1>5 DEF Place
<1>11. Place(m, i) \in Nat
    BY <1>2, <1>3, <1>5 DEF Place
<1> QED
    BY <1>1, <1>2, <1>7, <1>8, <1>9, <1>10, <1>11

-----------------------------------------------------------------------------
(***************************************************************************)
(* What a syncer is answered: logs with their blocks and indexes.          *)
(***************************************************************************)

EntryAt(n, i) == [block |-> n, index |-> i, log |-> chain[n][i]]

\* A log of the chain, fetched up to a block.
LEMMA EntriesAre ==
    ASSUME ChainHistory, NEW from \in Int, NEW to \in Int
    PROVE  /\ \A e \in Entries(from, to) :
                /\ e.block \in 1..Len(chain) /\ from <= e.block /\ e.block <= to
                /\ e.index \in DOMAIN chain[e.block]
                /\ e = EntryAt(e.block, e.index)
                /\ e.log = chain[e.block][e.index] /\ e.log \in Logs
                /\ e.block \in Nat /\ e.index \in Nat
           /\ \A n \in 1..Len(chain) : \A i \in DOMAIN chain[n] :
                from <= n /\ n <= to => EntryAt(n, i) \in Entries(from, to)
<1>1. chain \in Seq(Seq(Logs)) /\ Len(chain) \in Nat
    BY DEF ChainHistory
<1>2. \A n \in 1..Len(chain) : chain[n] \in Seq(Logs)
    BY <1>1
<1>3. \A n \in 1..Len(chain) : \A i \in DOMAIN chain[n] :
          chain[n][i] \in Logs /\ i \in Nat
    BY <1>2
<1>4. ASSUME NEW e \in Entries(from, to)
      PROVE  \E n \in 1..Len(chain) : \E i \in DOMAIN chain[n] :
                from <= n /\ n <= to /\ e = EntryAt(n, i)
  <2>1. PICK address \in {Factory} \cup Polls : e \in Fetched(address, from, to)
    BY DEF Entries
  <2>2. PICK n \in (from..to) \cap (1..ChainHead) :
            e \in {[block |-> n, index |-> i, log |-> chain[n][i]] :
                       i \in DOMAIN chain[n]}
    BY <2>1 DEF Fetched
  <2> QED
    BY <1>1, <2>2 DEF EntryAt, ChainHead
<1>5. ASSUME NEW e \in Entries(from, to)
      PROVE  /\ e.block \in 1..Len(chain) /\ from <= e.block /\ e.block <= to
             /\ e.index \in DOMAIN chain[e.block]
             /\ e = EntryAt(e.block, e.index)
             /\ e.log = chain[e.block][e.index] /\ e.log \in Logs
             /\ e.block \in Nat /\ e.index \in Nat
  <2>1. PICK n \in 1..Len(chain) : \E i \in DOMAIN chain[n] :
            from <= n /\ n <= to /\ e = EntryAt(n, i)
    BY <1>4
  <2>2. PICK i \in DOMAIN chain[n] : from <= n /\ n <= to /\ e = EntryAt(n, i)
    BY <2>1
  <2>3. e.block = n /\ e.index = i /\ e.log = chain[n][i]
    BY <2>2 DEF EntryAt
  <2> QED
    BY <1>1, <1>3, <2>2, <2>3
<1>6. ASSUME NEW n \in 1..Len(chain), NEW i \in DOMAIN chain[n],
             from <= n, n <= to
      PROVE  EntryAt(n, i) \in Entries(from, to)
  <2>1. chain[n][i].address \in {Factory} \cup Polls
    BY <1>3 DEF Logs
  <2>2. n \in (from..to) \cap (1..ChainHead)
    BY <1>1, <1>6 DEF ChainHead
  <2>3. EntryAt(n, i).log.address = chain[n][i].address
    BY DEF EntryAt
  <2>4. EntryAt(n, i) \in Fetched(chain[n][i].address, from, to)
    BY <2>2, <2>3 DEF Fetched, EntryAt
  <2> QED
    BY <2>1, <2>4 DEF Entries
<1> QED
    BY <1>5, <1>6

\* An entry of a block up to c, as a log of the history up to c.
LEMMA EntryInHistory ==
    ASSUME ChainHistory, NEW c \in 0..Len(chain), NEW e \in Entries(0, c)
    PROVE  /\ Place(e.block, e.index) \in DOMAIN LogsUpTo(c)
           /\ LogsUpTo(c)[Place(e.block, e.index)] = e.log
<1>1. /\ c \in Int /\ 0 \in Int /\ Len(chain) \in Nat
      /\ c \in Nat
    BY DEF ChainHistory
<1>2. /\ e.block \in 1..Len(chain) /\ e.block <= c
      /\ e.index \in DOMAIN chain[e.block]
      /\ e.log = chain[e.block][e.index]
    BY <1>1, EntriesAre
<1>3. e.block \in 1..c
    BY <1>1, <1>2
<1> QED
    BY <1>2, <1>3, LogAtPlace

\* A log of the history up to c, as an entry.
LEMMA HistoryInEntries ==
    ASSUME ChainHistory, NEW c \in 0..Len(chain), NEW k \in DOMAIN LogsUpTo(c)
    PROVE  \E e \in Entries(0, c) :
              k = Place(e.block, e.index) /\ LogsUpTo(c)[k] = e.log
<1>1. c \in Int /\ 0 \in Int /\ Len(chain) \in Nat /\ c \in Nat
    BY DEF ChainHistory
<1>2. PICK m \in 1..c : \E i \in DOMAIN chain[m] :
          k = Place(m, i) /\ LogsUpTo(c)[k] = chain[m][i]
    BY LogsOfPrefix
<1>3. PICK i \in DOMAIN chain[m] : k = Place(m, i) /\ LogsUpTo(c)[k] = chain[m][i]
    BY <1>2
<1>4. m \in 1..Len(chain) /\ 0 <= m /\ m <= c
    BY <1>1
<1>5. EntryAt(m, i) \in Entries(0, c)
    BY <1>1, <1>4, EntriesAre
<1>6. /\ EntryAt(m, i).block = m /\ EntryAt(m, i).index = i
      /\ EntryAt(m, i).log = chain[m][i]
    BY DEF EntryAt
<1> QED
    BY <1>3, <1>5, <1>6

\* Entries are ordered as the logs of the history are.
LEMMA EntriesInOrder ==
    ASSUME ChainHistory, NEW c \in 0..Len(chain),
           NEW d \in Entries(0, c), NEW e \in Entries(0, c)
    PROVE  /\ Later(d, e) <=> Place(e.block, e.index) < Place(d.block, d.index)
           /\ SameLog(d, e) <=> Place(e.block, e.index) = Place(d.block, d.index)
           /\ SameLog(d, e) <=> d = e
           /\ Place(d.block, d.index) \in Nat /\ Place(e.block, e.index) \in Nat
<1>1. c \in Int /\ 0 \in Int
    BY DEF ChainHistory
<1>2. /\ d.block \in 1..Len(chain) /\ d.index \in DOMAIN chain[d.block]
      /\ e.block \in 1..Len(chain) /\ e.index \in DOMAIN chain[e.block]
      /\ d = EntryAt(d.block, d.index) /\ e = EntryAt(e.block, e.index)
      /\ d.block \in Nat /\ d.index \in Nat /\ e.block \in Nat /\ e.index \in Nat
    BY <1>1, EntriesAre
<1>3. SameLog(d, e) <=> d = e
    BY <1>2 DEF SameLog
<1> QED
    BY <1>2, <1>3, PlacesInOrder DEF Later, SameLog

\* A poll is created in the block of its first log, or in a lower one.
LEMMA PollsAreAnnounced ==
    ASSUME ChainHistory, NEW c \in 0..Len(chain), NEW e \in Entries(0, c),
           e.log.address \in Polls
    PROVE  \E d \in Entries(0, c) :
              /\ d.log.event = "PollCreated" /\ d.log.address = Factory
              /\ d.log.subject = e.log.address /\ d.block <= e.block
<1>1. c \in Int /\ 0 \in Int /\ c \in Nat /\ Len(chain) \in Nat
    BY DEF ChainHistory
<1> DEFINE b == e.block
<1>2. /\ b \in 1..Len(chain) /\ b <= c /\ b \in Nat
      /\ e.index \in DOMAIN chain[b] /\ e = EntryAt(b, e.index)
    BY <1>1, EntriesAre
<1>3. b \in 0..Len(chain) /\ b \in Int /\ 0 <= b
    BY <1>1, <1>2
<1> HIDE DEF b
<1>4. e \in Entries(0, b)
  <2>1. EntryAt(b, e.index) \in Entries(0, b)
    BY <1>1, <1>2, <1>3, EntriesAre
  <2> QED
    BY <1>2, <2>1
<1>5. History(LogsUpTo(b))
    BY <1>3 DEF ChainHistory
<1>6. Exists(e.log.address, LogsUpTo(b))
  <2>1. /\ Place(e.block, e.index) \in DOMAIN LogsUpTo(b)
        /\ LogsUpTo(b)[Place(e.block, e.index)] = e.log
    BY <1>3, <1>4, EntryInHistory
  <2> QED
    BY <1>5, <2>1 DEF History, Announced
<1>7. PICK k \in DOMAIN LogsUpTo(b) :
          /\ LogsUpTo(b)[k].address = Factory
          /\ LogsUpTo(b)[k].subject = e.log.address
    BY <1>6 DEF Exists
<1>8. PICK d \in Entries(0, b) : LogsUpTo(b)[k] = d.log
    BY <1>3, HistoryInEntries
<1>9. /\ d.block \in 1..Len(chain) /\ 0 <= d.block /\ d.block <= b
      /\ d.index \in DOMAIN chain[d.block] /\ d = EntryAt(d.block, d.index)
      /\ d.log \in Logs /\ d.block \in Nat
    BY <1>1, <1>3, <1>8, EntriesAre
<1>10. d \in Entries(0, c)
  <2>1. d.block <= c
    BY <1>1, <1>2, <1>9
  <2>2. EntryAt(d.block, d.index) \in Entries(0, c)
    BY <1>1, <1>9, <2>1, EntriesAre
  <2> QED
    BY <1>9, <2>2
<1>11. d.log.event = "PollCreated"
    BY <1>7, <1>8, <1>9 DEF Logs
<1> QED
    BY <1>7, <1>8, <1>9, <1>10, <1>11 DEF b

\* A poll is created once.
LEMMA PollsAreCreatedOnce ==
    ASSUME ChainHistory, NEW c \in 0..Len(chain),
           NEW d \in Entries(0, c), NEW e \in Entries(0, c),
           d.log.event = "PollCreated", e.log.event = "PollCreated",
           d.log.subject = e.log.subject
    PROVE  d = e
<1>1. History(LogsUpTo(c))
    BY DEF ChainHistory
<1>2. /\ Place(d.block, d.index) \in DOMAIN LogsUpTo(c)
      /\ LogsUpTo(c)[Place(d.block, d.index)] = d.log
      /\ Place(e.block, e.index) \in DOMAIN LogsUpTo(c)
      /\ LogsUpTo(c)[Place(e.block, e.index)] = e.log
    BY EntryInHistory
<1>3. Place(d.block, d.index) = Place(e.block, e.index)
    BY <1>1, <1>2 DEF History, CreatedOnce
<1> QED
    BY <1>3, EntriesInOrder

\* Nothing of an account follows the reveal of its sealed ballot.
LEMMA RevealsComeLast ==
    ASSUME ChainHistory, NEW c \in 0..Len(chain),
           NEW d \in Entries(0, c), NEW e \in Entries(0, c),
           d.log.event = "VoteRecorded", d.log.address \in SealedPolls,
           About(d.log.address, d.log.subject, e.log)
    PROVE  ~Later(e, d)
<1>1. History(LogsUpTo(c))
    BY DEF ChainHistory
<1>2. /\ Place(d.block, d.index) \in DOMAIN LogsUpTo(c)
      /\ LogsUpTo(c)[Place(d.block, d.index)] = d.log
      /\ Place(e.block, e.index) \in DOMAIN LogsUpTo(c)
      /\ LogsUpTo(c)[Place(e.block, e.index)] = e.log
    BY EntryInHistory
<1>3. Place(e.block, e.index) \in Own(d.log.address, d.log.subject, LogsUpTo(c))
    BY <1>2 DEF Own, About
<1>4. Place(e.block, e.index) <= Place(d.block, d.index)
    BY <1>1, <1>2, <1>3 DEF History, RevealedLast
<1>5. /\ Later(e, d) <=> Place(d.block, d.index) < Place(e.block, e.index)
      /\ Place(d.block, d.index) \in Nat /\ Place(e.block, e.index) \in Nat
    BY EntriesInOrder
<1> QED
    BY <1>4, <1>5

\* The last entry of an account says what it is for: its own entries are all
\* a reader needs.
LEMMA StandingIsLastEntry ==
    ASSUME ChainHistory, NEW c \in 0..Len(chain), NEW p \in Polls, NEW v \in Voters
    PROVE  Standing(p, v, LogsUpTo(c)) =
              {o \in OptionIds : \E e \in Entries(0, c) :
                  /\ About(p, v, e.log)
                  /\ e.log.event = "VoteRecorded" /\ o \in e.log.ids
                  /\ \A d \in Entries(0, c) : About(p, v, d.log) => ~Later(d, e)}
<1> DEFINE logs == LogsUpTo(c)
           place(e) == Place(e.block, e.index)
           IsLast(e) == \A d \in Entries(0, c) : About(p, v, d.log) => ~Later(d, e)
<1>1. Standing(p, v, logs) = LastBallot(p, v, logs)
    BY DEF ChainHistory, History, BallotStands
<1>2. \A e \in Entries(0, c) : place(e) \in DOMAIN logs /\ logs[place(e)] = e.log
    BY EntryInHistory
<1>3. \A k \in DOMAIN logs : \E e \in Entries(0, c) : k = place(e) /\ logs[k] = e.log
    BY HistoryInEntries
<1>4. \A d \in Entries(0, c), e \in Entries(0, c) :
          /\ Later(d, e) <=> place(e) < place(d)
          /\ place(d) \in Nat /\ place(e) \in Nat
    BY EntriesInOrder
<1> HIDE DEF logs, place
<1>5. \A e \in Entries(0, c) : place(e) \in Own(p, v, logs) <=> About(p, v, e.log)
    BY <1>2 DEF Own, About
<1>6. \A e \in Entries(0, c) :
          IsLast(e) <=> \A j \in Own(p, v, logs) : j <= place(e)
  <2> TAKE e \in Entries(0, c)
  <2>1. ASSUME IsLast(e), NEW j \in Own(p, v, logs)
        PROVE  j <= place(e)
    <3>1. PICK d \in Entries(0, c) : j = place(d)
        BY <1>3 DEF Own
    <3>2. About(p, v, d.log)
        BY <1>5, <3>1
    <3>3. ~Later(d, e)
        BY <2>1, <3>2
    <3> QED
        BY <1>4, <3>1, <3>3
  <2>2. ASSUME \A j \in Own(p, v, logs) : j <= place(e),
               NEW d \in Entries(0, c), About(p, v, d.log)
        PROVE  ~Later(d, e)
    BY <1>4, <1>5, <2>2
  <2> QED
    BY <2>1, <2>2
<1>7. \A o \in OptionIds :
        (\E i \in Own(p, v, logs) :
            /\ logs[i].event = "VoteRecorded" /\ o \in logs[i].ids
            /\ \A j \in Own(p, v, logs) : j <= i)
        <=> (\E e \in Entries(0, c) :
                /\ About(p, v, e.log)
                /\ e.log.event = "VoteRecorded" /\ o \in e.log.ids /\ IsLast(e))
  <2> TAKE o \in OptionIds
  <2> HIDE DEF IsLast
  <2>1. ASSUME NEW i \in Own(p, v, logs),
               logs[i].event = "VoteRecorded", o \in logs[i].ids,
               \A j \in Own(p, v, logs) : j <= i
        PROVE  \E e \in Entries(0, c) :
                  /\ About(p, v, e.log)
                  /\ e.log.event = "VoteRecorded" /\ o \in e.log.ids /\ IsLast(e)
    <3>1. PICK e \in Entries(0, c) : i = place(e) /\ logs[i] = e.log
        BY <1>3 DEF Own
    <3> QED
        BY <1>5, <1>6, <2>1, <3>1
  <2>2. ASSUME NEW e \in Entries(0, c), About(p, v, e.log),
               e.log.event = "VoteRecorded", o \in e.log.ids, IsLast(e)
        PROVE  \E i \in Own(p, v, logs) :
                  /\ logs[i].event = "VoteRecorded" /\ o \in logs[i].ids
                  /\ \A j \in Own(p, v, logs) : j <= i
    BY <1>2, <1>5, <1>6, <2>2
  <2> QED
    BY <2>1, <2>2
<1> QED
    BY <1>1, <1>7 DEF LastBallot, logs

=============================================================================
