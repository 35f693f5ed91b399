--------------------------- MODULE ReconcileProofs ---------------------------
(***************************************************************************)
(* The check beside a lone syncer: the first ballots of the blocks the     *)
(* index has not read, added to its tally, make the tally of the contract, *)
(* for any voters, options, chain, delays and failures, where the height   *)
(* and the chain it belongs to outlast the check.                          *)
(***************************************************************************)
EXTENDS IndexerProofs, Consistency, FunctionTheorems, FiniteSetTheorems

-----------------------------------------------------------------------------
(***************************************************************************)
(* Sums and counts.                                                        *)
(***************************************************************************)

\* A sum whose terms are bounded has finitely many units.
LEMMA BoundedUnits ==
    ASSUME NEW S, IsFiniteSet(S), NEW f, NEW k \in Nat,
           \A x \in S : f[x] \in Nat /\ f[x] <= k
    PROVE  IsFiniteSet(Units(f, S))
<1>1. IsFiniteSet(1..k)
    BY FS_Interval
<1>2. IsFiniteSet(S \X (1..k))
    BY <1>1, FS_Product
<1>3. Units(f, S) \subseteq S \X (1..k)
  <2> SUFFICES ASSUME NEW x \in S, NEW i \in 1..f[x]
               PROVE  <<x, i>> \in S \X (1..k)
    BY DEF Units
  <2>1. f[x] \in Nat /\ f[x] <= k
    OBVIOUS
  <2>2. i \in 1..k
    BY <2>1
  <2> QED
    BY <2>2
<1> QED
    BY <1>2, <1>3, FS_Subset

\* The sum of sums is the sum of the terms added up.
LEMMA SumOfTerms ==
    ASSUME NEW S, IsFiniteSet(S), NEW f, NEW g, NEW h, NEW k \in Nat,
           \A x \in S : f[x] \in Nat /\ g[x] \in Nat /\ h[x] = f[x] + g[x],
           \A x \in S : h[x] <= k
    PROVE  Total(h, S) = Total(f, S) + Total(g, S)
<1> DEFINE F == Units(f, S)
           G == Units(g, S)
           Above == {u \in Units(h, S) : u[2] > f[u[1]]}
           lift == [u \in G |-> <<u[1], f[u[1]] + u[2]>>]
<1>1. \A x \in S : /\ f[x] \in Nat /\ g[x] \in Nat /\ h[x] \in Nat
                   /\ h[x] = f[x] + g[x] /\ h[x] <= k /\ f[x] <= k /\ g[x] <= k
    OBVIOUS
<1>2. IsFiniteSet(F) /\ IsFiniteSet(G) /\ IsFiniteSet(Units(h, S))
    BY <1>1, BoundedUnits
<1>3. IsFiniteSet(Above)
    BY <1>2, FS_Subset
<1>4. \A l : \A u \in Units(l, S) :
          u[1] \in S /\ u[2] \in 1..l[u[1]] /\ u = <<u[1], u[2]>>
    BY DEF Units
<1>5. \A l : \A x \in S : \A i \in 1..l[x] : <<x, i>> \in Units(l, S)
    BY DEF Units
<1>6. Units(h, S) = F \cup Above
  <2>1. ASSUME NEW u \in F PROVE u \in Units(h, S)
    <3>1. u[1] \in S /\ u[2] \in 1..f[u[1]] /\ u = <<u[1], u[2]>>
        BY <1>4, <2>1
    <3>2. u[2] \in 1..h[u[1]]
        BY <1>1, <3>1
    <3> QED
        BY <1>5, <3>1, <3>2
  <2>2. ASSUME NEW u \in Units(h, S), u \notin Above PROVE u \in F
    <3>1. u[1] \in S /\ u[2] \in 1..h[u[1]] /\ u = <<u[1], u[2]>>
        BY <1>4, <2>2
    <3>2. ~(u[2] > f[u[1]])
        BY <2>2
    <3>3. u[2] \in 1..f[u[1]]
        BY <1>1, <3>1, <3>2
    <3> QED
        BY <1>5, <3>1, <3>3
  <2> QED
    BY <2>1, <2>2
<1>7. F \cap Above = {}
  <2> SUFFICES ASSUME NEW u \in F, u \in Above PROVE FALSE
    OBVIOUS
  <2>1. u[1] \in S /\ u[2] \in 1..f[u[1]] /\ u[2] > f[u[1]]
    BY <1>4
  <2> QED
    BY <1>1, <2>1
<1>8. lift \in Bijection(G, Above)
  <2>1. ASSUME NEW u \in G
        PROVE  /\ lift[u] \in Above /\ lift[u][1] = u[1]
               /\ lift[u][2] = f[u[1]] + u[2]
               /\ u[1] \in S /\ u[2] \in Nat /\ u = <<u[1], u[2]>>
    <3>1. u[1] \in S /\ u[2] \in 1..g[u[1]] /\ u = <<u[1], u[2]>>
        BY <1>4, <2>1
    <3>2. f[u[1]] + u[2] \in 1..h[u[1]] /\ f[u[1]] + u[2] > f[u[1]] /\ u[2] \in Nat
        BY <1>1, <3>1
    <3>3. <<u[1], f[u[1]] + u[2]>> \in Units(h, S)
        BY <1>5, <3>1, <3>2
    <3> QED
        BY <3>1, <3>2, <3>3
  <2>2. ASSUME NEW u \in G, NEW w \in G, lift[u] = lift[w] PROVE u = w
    <3>1. u[1] = w[1] /\ f[u[1]] + u[2] = f[w[1]] + w[2]
        BY <2>1, <2>2
    <3>2. u[2] = w[2]
      <4>1. f[u[1]] \in Nat /\ u[2] \in Nat /\ w[2] \in Nat
        BY <1>1, <2>1
      <4> QED
        BY <3>1, <4>1
    <3> QED
        BY <2>1, <3>1, <3>2
  <2>3. ASSUME NEW w \in Above PROVE \E u \in G : lift[u] = w
    <3>1. w[1] \in S /\ w[2] \in 1..h[w[1]] /\ w = <<w[1], w[2]>> /\ w[2] > f[w[1]]
        BY <1>4, <2>3
    <3> DEFINE i == w[2] - f[w[1]]
    <3>2. i \in 1..g[w[1]] /\ f[w[1]] + i = w[2]
        BY <1>1, <3>1
    <3> HIDE DEF i
    <3>3. <<w[1], i>> \in G
        BY <1>5, <3>1, <3>2
    <3>4. lift[<<w[1], i>>] = <<w[1], f[w[1]] + i>>
        BY <3>3
    <3> QED
        BY <3>1, <3>2, <3>3, <3>4
  <2> HIDE DEF lift, Above, F, G
  <2>4. lift \in [G -> Above]
    <3>1. lift = [u \in G |-> <<u[1], f[u[1]] + u[2]>>]
        BY DEF lift
    <3> QED
        BY <2>1, <3>1
  <2>5. lift \in Injection(G, Above)
    BY <2>2, <2>4 DEF Injection, IsInjective
  <2>6. lift \in Surjection(G, Above)
    BY <2>3, <2>4 DEF Surjection
  <2> QED
    BY <2>5, <2>6 DEF Bijection
<1> HIDE DEF F, G, Above, lift
<1>9. Cardinality(Above) = Cardinality(G)
    BY <1>2, <1>8, FS_Bijection DEF ExistsBijection
<1>10. Cardinality(F \cup Above)
          = Cardinality(F) + Cardinality(Above) - Cardinality(F \cap Above)
    BY <1>2, <1>3, FS_Union
<1>11. Cardinality(F \cap Above) = 0
    BY <1>7, FS_EmptySet
<1>12. Cardinality(F) \in Nat /\ Cardinality(G) \in Nat
    BY <1>2, FS_CardinalityType
<1>13. /\ Total(h, S) = Cardinality(F \cup Above)
       /\ Total(f, S) = Cardinality(F) /\ Total(g, S) = Cardinality(G)
    BY <1>6 DEF Total, F, G
<1> QED
    BY <1>9, <1>10, <1>11, <1>12, <1>13
-----------------------------------------------------------------------------
(***************************************************************************)
(* What a voter holds at the head of the chain, told from what the voter   *)
(* held at the last indexed block and the logs above it.                   *)
(***************************************************************************)

\* The logs above a block that a check at height h looks at.
News(p, b, h) == {e \in Fetched(p, b + 1, h) : e.log.event \in DOMAIN VoteType}

\* The last of a voter's logs tells the voter's selection, also before genesis.
LEMMA StandingUpTo ==
    ASSUME ChainHistory, NEW b \in Int, -1 <= b, b <= Len(chain),
           NEW p \in Polls, NEW v \in Voters
    PROVE  Standing(p, v, LogsUpTo(b)) =
              {o \in OptionIds : \E e \in Entries(0, b) :
                  /\ About(p, v, e.log)
                  /\ e.log.event = "VoteRecorded" /\ o \in e.log.ids
                  /\ \A d \in Entries(0, b) : About(p, v, d.log) => ~Later(d, e)}
<1>1. Len(chain) \in Nat
    BY DEF ChainHistory
<1>2. CASE b = -1
  <2>1. LogsUpTo(b) = <<>>
    BY <1>2, SubSeqEmpty DEF LogsUpTo, FlattenSeq
  <2>2. Entries(0, b) = {}
    <3>1. 0 \in Int
        OBVIOUS
    <3>2. \A e \in Entries(0, b) : 0 <= e.block /\ e.block <= b /\ e.block \in Nat
        BY <3>1, EntriesAre
    <3> QED
        BY <1>2, <3>2
  <2> QED
    BY <2>1, <2>2, StandingAtFirst
<1>3. CASE b # -1
  <2>1. b \in 0..Len(chain)
    BY <1>1, <1>3
  <2> QED
    BY <2>1, StandingIsLastEntry
<1> QED
    BY <1>2, <1>3

\* They are all that is said of a voter above the block.
LEMMA NewsAre ==
    ASSUME ChainHistory, NEW b \in Int, NEW h \in Int, NEW p \in Polls
    PROVE  /\ News(p, b, h) \subseteq Entries(b + 1, h)
           /\ \A e \in News(p, b, h) : /\ e.log.subject \in Voters
                                    /\ About(p, e.log.subject, e.log)
           /\ \A v \in Voters : \A e \in Entries(b + 1, h) :
                About(p, v, e.log) => e \in News(p, b, h) /\ e.log.subject = v
<1>1. b + 1 \in Int
    OBVIOUS
<1>2. \A e \in Entries(b + 1, h) : e.log \in Logs
    BY <1>1, EntriesAre
<1>3. News(p, b, h) \subseteq Entries(b + 1, h)
    BY <1>1 DEF News, Entries
<1>4. \A e \in News(p, b, h) : e.log.address = p
    BY DEF News, Fetched
<1>5. \A e \in News(p, b, h) : e.log.subject \in Voters
    BY <1>2, <1>3 DEF News, Logs
<1>6. ASSUME NEW v \in Voters, NEW e \in Entries(b + 1, h), About(p, v, e.log)
      PROVE  e \in News(p, b, h)
  <2>1. e.log.address = p /\ e.log.subject = v
    BY <1>6 DEF About
  <2>2. PICK address \in {Factory} \cup Polls : e \in Fetched(address, b + 1, h)
    BY DEF Entries
  <2>3. e \in Fetched(p, b + 1, h)
    <3>1. e.log.address = address
        BY <2>2 DEF Fetched
    <3> QED
        BY <2>1, <2>2, <3>1
  <2>4. e.log.event \in DOMAIN VoteType
    <3>1. /\ e.log.event \in DOMAIN VoteType
                \cup {"PollCreated", "OptionAdded", "OptionUpdated"}
          /\ e.log.event = "PollCreated" <=> e.log.address = Factory
          /\ e.log.event \in {"OptionAdded", "OptionUpdated"} => e.log.subject = None
        BY <1>2 DEF Logs
    <3>2. p # Factory /\ v # None
        BY ChainAssumption
    <3> QED
        BY <2>1, <3>1, <3>2
  <2> QED
    BY <1>1, <2>3, <2>4 DEF News
<1> QED
    BY <1>3, <1>4, <1>5, <1>6 DEF About

\* What the property allows to have happened since.
FirstBallots(p, b, h) ==
    \A e \in News(p, b, h) :
        /\ e.log.event = "VoteRecorded"
        /\ \A d \in News(p, b, h) : d.log.subject = e.log.subject => d = e
        /\ Standing(p, e.log.subject, LogsUpTo(b)) = {}

\* The voters whose new ballot names an option.
Newly(p, b, h, o) == {v \in Voters : \E e \in News(p, b, h) :
                                     e.log.subject = v /\ o \in e.log.ids}

\* A voter holds what the voter held, or what a first ballot has named since.
LEMMA HeldAtTheHeight ==
    ASSUME ChainHistory, NEW b \in Int, -1 <= b,
           NEW h \in Int, b <= h, h <= Len(chain),
           NEW p \in Polls, FirstBallots(p, b, h), NEW v \in Voters, NEW o \in OptionIds
    PROVE  /\ o \in Standing(p, v, LogsUpTo(h))
                <=> o \in Standing(p, v, LogsUpTo(b)) \/ v \in Newly(p, b, h, o)
           /\ ~(o \in Standing(p, v, LogsUpTo(b)) /\ v \in Newly(p, b, h, o))
<1> DEFINE old == Entries(0, b)
           new == Entries(b + 1, h)
           all == Entries(0, h)
           Holds(e, s) == /\ About(p, v, e.log)
                          /\ e.log.event = "VoteRecorded" /\ o \in e.log.ids
                          /\ \A d \in s : About(p, v, d.log) => ~Later(d, e)
<1>1. Len(chain) \in Nat /\ -1 <= h /\ b <= Len(chain)
    BY DEF ChainHistory
<1>2. o \in Standing(p, v, LogsUpTo(b)) <=> \E e \in old : Holds(e, old)
    BY StandingUpTo
<1>3. o \in Standing(p, v, LogsUpTo(h)) <=> \E e \in all : Holds(e, all)
    BY <1>1, StandingUpTo
<1>4. /\ all = old \cup new
      /\ \A e \in all : e \in old <=> e.block <= b
      /\ \A e \in new : e.block > b
    BY <1>1, RangesJoin
<1>5. \A e \in all : e.block \in Nat /\ e.index \in Nat
  <2>1. 0 \in Int
    OBVIOUS
  <2> QED
    BY <1>1, <2>1, EntriesAre
<1>6. /\ News(p, b, h) \subseteq new
      /\ \A e \in News(p, b, h) : About(p, e.log.subject, e.log)
      /\ \A e \in new : About(p, v, e.log) => e \in News(p, b, h) /\ e.log.subject = v
    BY NewsAre
<1>7. \A d \in old, e \in new : Later(e, d) /\ ~Later(d, e)
    BY <1>4, <1>5 DEF Later
<1>8. \A e \in all : ~Later(e, e)
    BY <1>5 DEF Later
<1> HIDE DEF old, new, all
<1>9. CASE \E e \in News(p, b, h) : e.log.subject = v
  <2>1. PICK e \in News(p, b, h) : e.log.subject = v
    BY <1>9
  <2>2. /\ e.log.event = "VoteRecorded" /\ Standing(p, v, LogsUpTo(b)) = {}
        /\ \A d \in News(p, b, h) : d.log.subject = v => d = e
    BY <2>1 DEF FirstBallots
  <2>3. e \in new /\ e \in all /\ About(p, v, e.log)
    BY <1>4, <1>6, <2>1
  <2>4. \A d \in all : About(p, v, d.log) => ~Later(d, e)
    BY <1>4, <1>6, <1>7, <1>8, <2>2, <2>3
  <2>5. \A d \in all : Holds(d, all) => d = e
    BY <1>4, <1>6, <1>7, <2>2, <2>3
  <2>6. v \in Newly(p, b, h, o) <=> o \in e.log.ids
    BY <2>1, <2>2 DEF Newly
  <2>7. (\E d \in all : Holds(d, all)) <=> o \in e.log.ids
    BY <2>2, <2>3, <2>4, <2>5
  <2> QED
    BY <1>3, <2>2, <2>6, <2>7
<1>10. CASE ~\E e \in News(p, b, h) : e.log.subject = v
  <2>1. v \notin Newly(p, b, h, o)
    BY <1>10 DEF Newly
  <2>2. \A e \in all : About(p, v, e.log) => e \in old
    BY <1>4, <1>6, <1>10
  <2>3. old \subseteq all
    BY <1>4
  <2>4. (\E e \in all : Holds(e, all)) <=> \E e \in old : Holds(e, old)
    BY <2>2, <2>3
  <2> QED
    BY <1>2, <1>3, <2>1, <2>4
<1> QED
    BY <1>9, <1>10
-----------------------------------------------------------------------------
(***************************************************************************)
(* The tallies.                                                            *)
(***************************************************************************)

\* One row for each new ballot that names the option, and none for option 0.
LEMMA PendingAreNew ==
    ASSUME ChainHistory, NEW b \in Int, NEW h \in Int, NEW p \in Polls, FirstBallots(p, b, h)
    PROVE  LET pending == PendingVotes(p, b + 1, h)
           IN  /\ \A o \in OptionIds :
                    pending[o] = Cardinality(Newly(p, b, h, o))
               /\ pending[0] = 0 /\ DOMAIN pending = 0..NumOptions
<1> DEFINE rows == {r \in VoteRows(Fetched(p, b + 1, h)) : r.type # "withdrawn"}
           Named(o) == {r \in rows : r.option = o}
           pending == PendingVotes(p, b + 1, h)
<1>1. NumOptions \in Nat /\ OptionIds \subseteq 0..NumOptions /\ 0 \notin OptionIds
      /\ 0 \in 0..NumOptions
    BY ChainAssumption DEF OptionIds
<1>2. pending = [o \in 0..NumOptions |-> Cardinality(Named(o))]
    BY DEF PendingVotes
<1>3. \A e \in News(p, b, h) : /\ e.log.event = "VoteRecorded" /\ e.log.ids \subseteq OptionIds
                            /\ e.log.address = p /\ e.log.subject \in Voters
  <2>1. News(p, b, h) \subseteq Entries(b + 1, h)
    BY NewsAre
  <2>2. \A e \in News(p, b, h) : e.log \in Logs
    <3>1. b + 1 \in Int
        OBVIOUS
    <3> QED
        BY <2>1, <3>1, EntriesAre
  <2>3. \A e \in News(p, b, h) : e.log.subject \in Voters /\ About(p, e.log.subject, e.log)
    BY NewsAre
  <2> QED
    BY <2>2, <2>3 DEF FirstBallots, Logs, About
<1>4. \A r \in rows : \E e \in News(p, b, h) : \E o \in e.log.ids : r = RowOf(e, o)
  <2> TAKE r \in rows
  <2>1. PICK e \in Fetched(p, b + 1, h) :
            /\ e.log.event \in DOMAIN VoteType
            /\ \E o \in Rowed(e.log) : r = RowOf(e, o)
    BY VoteRowsAre
  <2>2. e \in News(p, b, h)
    BY <2>1 DEF News
  <2>3. Rowed(e.log) = e.log.ids
    BY <1>3, <2>2 DEF Rowed
  <2> QED
    BY <2>1, <2>2, <2>3
<1>5. \A e \in News(p, b, h) : \A o \in e.log.ids :
          /\ RowOf(e, o) \in rows
          /\ RowOf(e, o).voter = e.log.subject /\ RowOf(e, o).option = o
  <2> TAKE e \in News(p, b, h)
  <2> TAKE o \in e.log.ids
  <2>1. e \in Fetched(p, b + 1, h) /\ e.log.event \in DOMAIN VoteType
    BY DEF News
  <2>2. o \in Rowed(e.log)
    BY <1>3 DEF Rowed
  <2>3. RowOf(e, o) \in VoteRows(Fetched(p, b + 1, h))
    BY <2>1, <2>2, VoteRowsAre
  <2>4. RowOf(e, o).type = "cast"
    BY <1>3 DEF RowOf, VoteType
  <2> QED
    BY <2>3, <2>4 DEF RowOf
<1> HIDE DEF rows, pending
<1>6. ASSUME NEW o \in OptionIds
      PROVE  Cardinality(Named(o)) = Cardinality(Newly(p, b, h, o))
  <2> DEFINE voter == [r \in Named(o) |-> r.voter]
  <2>1. ASSUME NEW r \in Named(o)
        PROVE  \E e \in News(p, b, h) : /\ o \in e.log.ids /\ r = RowOf(e, o)
                                     /\ r.voter = e.log.subject
    BY <1>4, <1>5
  <2>2. ASSUME NEW r \in Named(o) PROVE r.voter \in Newly(p, b, h, o)
    <3>1. PICK e \in News(p, b, h) : o \in e.log.ids /\ r.voter = e.log.subject
        BY <2>1
    <3> QED
        BY <1>3, <3>1 DEF Newly
  <2>3. ASSUME NEW r \in Named(o), NEW s \in Named(o), r.voter = s.voter
        PROVE  r = s
    <3>1. PICK e \in News(p, b, h) : r = RowOf(e, o) /\ r.voter = e.log.subject
        BY <2>1
    <3>2. PICK d \in News(p, b, h) : s = RowOf(d, o) /\ s.voter = d.log.subject
        BY <2>1
    <3>3. d = e
        BY <2>3, <3>1, <3>2 DEF FirstBallots
    <3> QED
        BY <3>1, <3>2, <3>3
  <2>4. ASSUME NEW v \in Newly(p, b, h, o) PROVE \E r \in Named(o) : r.voter = v
    <3>1. PICK e \in News(p, b, h) : e.log.subject = v /\ o \in e.log.ids
        BY DEF Newly
    <3>2. RowOf(e, o) \in Named(o) /\ RowOf(e, o).voter = v
        BY <1>5, <3>1
    <3> QED
        BY <3>2
  <2> HIDE DEF Named
  <2>5. voter \in [Named(o) -> Newly(p, b, h, o)]
    BY <2>2
  <2>6. voter \in Injection(Named(o), Newly(p, b, h, o))
    BY <2>3, <2>5 DEF Injection, IsInjective
  <2>7. voter \in Surjection(Named(o), Newly(p, b, h, o))
    BY <2>4, <2>5 DEF Surjection
  <2>8. ExistsBijection(Named(o), Newly(p, b, h, o))
    BY <2>6, <2>7 DEF ExistsBijection, Bijection
  <2>9. ExistsBijection(Newly(p, b, h, o), Named(o))
    BY <2>8, Fun_ExistsBijSymmetric
  <2>10. IsFiniteSet(Newly(p, b, h, o))
    BY CheckAssumption, FS_Subset DEF Newly
  <2> QED
    BY <2>9, <2>10, FS_Bijection
<1>7. Named(0) = {}
  <2> SUFFICES ASSUME NEW r \in rows, r.option = 0 PROVE FALSE
    OBVIOUS
  <2>1. PICK e \in News(p, b, h) : \E o \in e.log.ids : r = RowOf(e, o)
    BY <1>4
  <2>2. PICK o \in e.log.ids : r = RowOf(e, o)
    BY <2>1
  <2>3. r.option = o /\ o \in OptionIds
    BY <1>3, <1>5, <2>2
  <2> QED
    BY <1>1, <2>3
<1>8. Cardinality(Named(0)) = 0
    BY <1>7, FS_EmptySet
<1> HIDE DEF Named
<1> QED
    BY <1>1, <1>2, <1>6, <1>8 DEF pending

\* The contract's tally is the one at the block and the new ballots.
LEMMA FirstBallotsAddUp ==
    ASSUME ChainHistory, NEW b \in Int, -1 <= b,
           NEW h \in Int, b <= h, h <= Len(chain),
           NEW p \in Polls, FirstBallots(p, b, h),
           DOMAIN OnChainTally(p, h) = OptionIds,
           NEW indexed, DOMAIN indexed = OptionIds,
           \A o \in OptionIds : indexed[o] =
               Cardinality({v \in Voters : o \in Standing(p, v, LogsUpTo(b))})
    PROVE  CompareTally(OnChainTally(p, h), indexed,
                        PendingVotes(p, b + 1, h))
<1> DEFINE onChain == OnChainTally(p, h)
           pending == PendingVotes(p, b + 1, h)
           Before(o) == {v \in Voters : o \in Standing(p, v, LogsUpTo(b))}
           After(o) == {v \in Voters : o \in Standing(p, v, LogsUpTo(h))}
           k == Cardinality(Voters)
<1>1. IsFiniteSet(Voters) /\ k \in Nat
    BY CheckAssumption, FS_CardinalityType
<1>2. onChain = [o \in OptionIds |-> Cardinality(After(o))]
    BY DEF OnChainTally
<1>3. /\ \A o \in OptionIds : pending[o] = Cardinality(Newly(p, b, h, o))
      /\ pending[0] = 0 /\ DOMAIN pending = 0..NumOptions
    BY PendingAreNew
<1>4. \A o \in OptionIds : indexed[o] = Cardinality(Before(o))
    OBVIOUS
<1>5. ASSUME NEW o \in OptionIds
      PROVE  /\ Cardinality(After(o)) = Cardinality(Before(o)) + Cardinality(Newly(p, b, h, o))
             /\ Cardinality(Before(o)) \in Nat /\ Cardinality(Newly(p, b, h, o)) \in Nat
             /\ Cardinality(After(o)) <= k
  <2>1. \A v \in Voters :
          /\ v \in After(o) <=> v \in Before(o) \/ v \in Newly(p, b, h, o)
          /\ ~(v \in Before(o) /\ v \in Newly(p, b, h, o))
    BY HeldAtTheHeight
  <2>2. Newly(p, b, h, o) \subseteq Voters
    BY DEF Newly
  <2>3. After(o) = Before(o) \cup Newly(p, b, h, o) /\ Before(o) \cap Newly(p, b, h, o) = {}
    BY <2>1, <2>2
  <2>4. Before(o) \subseteq Voters /\ After(o) \subseteq Voters
    OBVIOUS
  <2> HIDE DEF Before, After
  <2>5. IsFiniteSet(Before(o)) /\ IsFiniteSet(Newly(p, b, h, o))
    BY <1>1, <2>2, <2>4, FS_Subset
  <2>6. Cardinality(After(o)) <= k
    BY <1>1, <2>4, FS_Subset
  <2>7. Cardinality(Before(o) \cup Newly(p, b, h, o))
            = Cardinality(Before(o)) + Cardinality(Newly(p, b, h, o))
              - Cardinality(Before(o) \cap Newly(p, b, h, o))
    BY <2>5, FS_Union
  <2>8. Cardinality(Before(o) \cap Newly(p, b, h, o)) = 0
    BY <2>3, FS_EmptySet
  <2>9. Cardinality(Before(o)) \in Nat /\ Cardinality(Newly(p, b, h, o)) \in Nat
    BY <2>5, FS_CardinalityType
  <2> QED
    BY <2>3, <2>6, <2>7, <2>8, <2>9
<1> HIDE DEF Before, After, onChain, pending, k
<1>6. \A o \in OptionIds : /\ indexed[o] \in Nat /\ pending[o] \in Nat
                           /\ onChain[o] = indexed[o] + pending[o]
                           /\ onChain[o] <= k
    BY <1>2, <1>3, <1>4, <1>5
<1>7. Total(onChain, OptionIds) = Total(indexed, OptionIds) + Total(pending, OptionIds)
  <2>1. IsFiniteSet(OptionIds)
    BY ChainAssumption, FS_Interval DEF OptionIds
  <2>2. k \in Nat
    BY <1>1
  <2>3. \A o \in OptionIds : /\ indexed[o] \in Nat /\ pending[o] \in Nat
                             /\ onChain[o] = indexed[o] + pending[o]
    BY <1>6
  <2>4. \A o \in OptionIds : onChain[o] <= k
    BY <1>6
  <2> QED
    BY ONLY <2>1, <2>2, <2>3, <2>4, SumOfTerms
<1>8. Total(pending, 0..NumOptions) = Total(pending, OptionIds)
  <2>1. 0..NumOptions = OptionIds \cup {0}
    BY ChainAssumption DEF OptionIds
  <2>2. Units(pending, 0..NumOptions) = Units(pending, OptionIds)
    <3>1. {0} \X (1..pending[0]) = {}
        BY <1>3
    <3> QED
        BY <2>1, <3>1 DEF Units
  <2> QED
    BY <2>2 DEF Total
<1>9. DOMAIN onChain = OptionIds
    BY <1>2
<1> QED
    BY <1>3, <1>6, <1>7, <1>8, <1>9 DEF CompareTally, onChain, pending
-----------------------------------------------------------------------------
(***************************************************************************)
(* The snapshot: it stays the tally of its block while the chain goes on,  *)
(* because its block is settled.                                           *)
(***************************************************************************)

CheckInv ==
    check.pc \in {"chain", "logs"} =>
      /\ DOMAIN check = {"pc", "poll", "indexed", "cursor", "head", "tally"}
      /\ check.head \in Nat
      /\ check.poll \in Polls
      /\ FromBlock \in Nat /\ FromBlock - 1 <= settled
      /\ (check.cursor # None => check.cursor \in Int)
      /\ (check.pc = "logs" => DOMAIN check.tally = OptionIds)
      /\ \A o \in DOMAIN check.indexed :
            check.indexed[o] = Cardinality({v \in Voters :
                o \in Standing(check.poll, v, LogsUpTo(FromBlock - 1))})

CheckedInv == LoneInv /\ CheckInv

\* The blocks up to a settled one stay.
LEMMA SettledBlocksStay ==
    ASSUME LoneInv, LoneInv', [Next]_vars, NEW b \in Int, -1 <= b, b <= settled
    PROVE  SubSeq(chain', 1, b) = SubSeq(chain, 1, b) /\ b <= settled'
<1>1. ChainInv /\ ChainInv'
    BY DEF LoneInv, VotesInv, SettledInv
<1>2. Grows
  <2>1. ASSUME NEW txs \in Menu, Mine(txs) PROVE Grows
    BY <1>1, <2>1, MineStep
  <2>2. ASSUME NEW fork \in 0..MaxHeight, Reorg(fork) PROVE Grows
    BY <1>1, <2>2, ReorgStep
  <2>3. CASE UNCHANGED chainVars
    BY <1>1, <2>3 DEF ChainInv, Grows, chainVars
  <2>4. UNCHANGED vars => UNCHANGED chainVars
    BY DEF vars, chainVars
  <2> QED
    BY <2>1, <2>2, <2>3, <2>4 DEF Next, ChainNext
<1>3. /\ chain \in Seq(Seq(Logs)) /\ chain' \in Seq(Seq(Logs))
      /\ Len(chain) \in Nat /\ Len(chain') \in Nat
      /\ settled <= Len(chain) /\ settled' <= Len(chain') /\ settled <= settled'
      /\ settled \in Nat /\ settled' \in Nat
      /\ \A n \in 1..settled : chain'[n] = chain[n]
    BY <1>1, <1>2 DEF LoneInv, VotesInv, ChainHistory, ChainInv, Grows
<1>4. SubSeq(chain', 1, b) = SubSeq(chain, 1, b)
  <2>1. CASE b < 1
    BY <2>1, SubSeqEmpty
  <2>2. CASE b >= 1
    <3>1. /\ b \in Nat /\ b <= Len(chain) /\ b <= Len(chain')
          /\ \A i \in 1..b : chain'[i] = chain[i]
        BY <1>3, <2>2
    <3> QED
        BY <1>3, <3>1, PrefixStays
  <2> QED
    BY <2>1, <2>2
<1> QED
    BY <1>3, <1>4

\* A step of the chain or the indexer leaves the snapshot as true as it was.
LEMMA SnapshotStays ==
    ASSUME CheckedInv, LoneInv', [Next]_vars, UNCHANGED check
    PROVE  CheckInv'
<1> SUFFICES ASSUME check.pc \in {"chain", "logs"} PROVE CheckInv'
    BY DEF CheckInv
<1>1. /\ DOMAIN check = {"pc", "poll", "indexed", "cursor", "head", "tally"}
      /\ check.head \in Nat
      /\ (check.cursor # None => check.cursor \in Int)
      /\ (check.pc = "logs" => DOMAIN check.tally = OptionIds)
      /\ check.poll \in Polls /\ FromBlock \in Nat /\ FromBlock - 1 <= settled
      /\ \A o \in DOMAIN check.indexed :
            check.indexed[o] = Cardinality({v \in Voters :
                o \in Standing(check.poll, v, LogsUpTo(FromBlock - 1))})
    BY DEF CheckedInv, CheckInv
<1>2. FromBlock' = FromBlock
    BY DEF FromBlock
<1> DEFINE b == FromBlock - 1
<1>3. b \in Int /\ -1 <= b /\ b <= settled
    BY <1>1
<1>4. LogsUpTo(b)' = LogsUpTo(b) /\ b <= settled'
  <2>1. \A c \in Int : -1 <= c /\ c <= settled =>
            SubSeq(chain', 1, c) = SubSeq(chain, 1, c) /\ c <= settled'
    BY SettledBlocksStay DEF CheckedInv
  <2> QED
    BY <1>2, <1>3, <2>1 DEF LogsUpTo
<1> QED
    BY <1>1, <1>2, <1>4 DEF CheckInv

\* A snapshot is the tally of its block: the index holds exactly the logs up
\* to its cursor.
LEMMA SnapshotIsTaken ==
    ASSUME CheckedInv, FactoryIsIndexed, UNCHANGED <<chainVars, indexVars>>,
           NEW p \in Polls, ReadIndexSnapshot(p)
    PROVE  CheckInv'
<1>1. /\ check'.poll = p /\ check'.cursor = cursor
      /\ check'.indexed = IndexedTally(p) /\ check'.head \in Nat /\ check'.pc = "chain"
      /\ DOMAIN check' = {"pc", "poll", "indexed", "cursor", "head", "tally"}
    BY DEF ReadIndexSnapshot
<1>2. ChainHistory /\ SnapshotAgrees /\ Len(chain) \in Nat /\ settled \in Nat
      /\ (cursor = None => votes = {})
      /\ (cursor # None => cursor \in Nat /\ cursor <= settled)
  <2>1. ChainHistory /\ Exact /\ ChainInv /\ OnlySettledLogs
    BY DEF CheckedInv, LoneInv, VotesInv, SettledInv
  <2>2. SnapshotAgrees
    BY ExactAgrees DEF CheckedInv
  <2> QED
    BY <2>1, <2>2 DEF Exact, ChainInv, OnlySettledLogs, ChainHistory
<1> DEFINE b == IF cursor = None THEN -1 ELSE cursor
<1>3. FromBlock' = b + 1 /\ b \in Int /\ -1 <= b /\ b <= settled
    BY <1>1, <1>2 DEF FromBlock
<1>4. \A v \in Voters : CurrentVotes(p, v) = Standing(p, v, LogsUpTo(b))
  <2>1. CASE cursor # None
    BY <1>2, <2>1 DEF SnapshotAgrees
  <2>2. CASE cursor = None
    <3> TAKE v \in Voters
    <3>1. CurrentVotes(p, v) = {}
        BY <1>2, <2>2 DEF CurrentVotes
    <3>2. LogsUpTo(b) = <<>>
        BY <2>2, SubSeqEmpty DEF LogsUpTo, FlattenSeq
    <3> QED
        BY <3>1, <3>2, StandingAtFirst
  <2> QED
    BY <2>1, <2>2
<1> HIDE DEF b
<1>5. /\ FromBlock' \in Nat /\ FromBlock' - 1 <= settled'
      /\ FromBlock' - 1 = b /\ settled' = settled
  <2>1. settled' = settled
    BY DEF chainVars
  <2> QED
    BY <1>2, <1>3, <2>1
<1>6. LogsUpTo(FromBlock - 1)' = LogsUpTo(b)
  <2>1. chain' = chain
    BY DEF chainVars
  <2> QED
    BY <1>5, <2>1 DEF LogsUpTo
<1>7. \A o \in DOMAIN IndexedTally(p) : IndexedTally(p)[o] =
          Cardinality({v \in Voters : o \in Standing(p, v, LogsUpTo(b))})
  <2>1. \A o : {v \in Voters : o \in CurrentVotes(p, v)}
                = {v \in Voters : o \in Standing(p, v, LogsUpTo(b))}
    BY <1>4
  <2>2. \A o \in DOMAIN IndexedTally(p) :
            IndexedTally(p)[o] = Cardinality({v \in Voters : o \in CurrentVotes(p, v)})
    BY DEF IndexedTally
  <2> QED
    BY <2>1, <2>2
<1>8. check'.cursor # None => check'.cursor \in Int
    BY <1>1, <1>2
<1> QED
    BY <1>1, <1>5, <1>6, <1>7, <1>8 DEF CheckInv

\* The invariant of the check beside the indexer.
LEMMA CheckedNextKeeps ==
    ASSUME Syncers = {Loop}
    PROVE  CheckedInv /\ FactoryIsIndexed /\ [CheckedNext]_checkedVars => CheckedInv'
<1> SUFFICES ASSUME CheckedInv, FactoryIsIndexed, [CheckedNext]_checkedVars
             PROVE  CheckedInv'
    OBVIOUS
<1>1. UNCHANGED <<chainVars, indexVars>> => UNCHANGED vars
    BY DEF chainVars, indexVars, vars
<1>2. UNCHANGED checkedVars => UNCHANGED vars /\ UNCHANGED check
    BY DEF checkedVars, chainVars, indexVars, vars
<1>3. [Next]_vars
    BY <1>1, <1>2 DEF CheckedNext
<1>4. LoneInv'
    BY <1>3, LoneNext DEF CheckedInv
<1>5. CASE UNCHANGED check
    BY <1>3, <1>4, <1>5, SnapshotStays DEF CheckedInv
<1>6. CASE CheckNext /\ UNCHANGED <<chainVars, indexVars>>
  <2>1. ASSUME NEW p \in Polls, ReadIndexSnapshot(p) PROVE CheckInv'
    BY <1>6, <2>1, SnapshotIsTaken
  <2>2. CASE Unavailable \/ \E status : Report(status)
    <3>1. check'.pc = "idle"
        BY <2>2 DEF Report, Unavailable, NoCheck
    <3>2. ~(check.pc \in {"chain", "logs"})'
        BY <3>1
    <3>3. CheckInv'
        BY ONLY <3>2 DEF CheckInv
    <3> QED
        BY <1>4, <3>3 DEF CheckedInv
  <2>3. ASSUME NEW lag \in 0..MaxLag, ReadOnChain(lag) PROVE CheckInv'
    <3>1. /\ DOMAIN check = {"pc", "poll", "indexed", "cursor", "head", "tally"}
          /\ (check.cursor # None => check.cursor \in Int)
          /\ check.poll \in Polls /\ FromBlock \in Nat /\ FromBlock - 1 <= settled
          /\ \A o \in DOMAIN check.indexed :
                check.indexed[o] = Cardinality({v \in Voters :
                    o \in Standing(check.poll, v, LogsUpTo(FromBlock - 1))})
        BY <2>3 DEF ReadOnChain, CheckedInv, CheckInv
    <3>2. /\ DOMAIN check' = DOMAIN check /\ check'.head = ChainHead - lag
          /\ check'.poll = check.poll /\ check'.indexed = check.indexed
          /\ check'.cursor = check.cursor
        BY <2>3, <3>1 DEF ReadOnChain
    <3>3. ChainHead - lag \in Nat
        BY <2>3 DEF ReadOnChain, ChainHead, CheckedInv, LoneInv, VotesInv, ChainHistory
    <3>4. FromBlock' = FromBlock /\ settled' = settled /\ chain' = chain
        BY <1>6, <3>2 DEF FromBlock, chainVars
    <3>5. LogsUpTo(FromBlock - 1)' = LogsUpTo(FromBlock - 1)
        BY <3>4 DEF LogsUpTo
    <3>6. DOMAIN check'.tally = OptionIds
        BY <2>3, <3>1 DEF ReadOnChain, OnChainTally
    <3> QED
        BY <3>1, <3>2, <3>3, <3>4, <3>5, <3>6 DEF CheckInv
  <2> QED
    BY <1>4, <1>6, <2>1, <2>2, <2>3 DEF CheckNext, CheckedInv
<1> QED
    BY <1>2, <1>5, <1>6 DEF CheckedNext

\* A verdict of divergence has one of the reasons the property names.
LEMMA VerdictHasAReason ==
    ASSUME CheckedInv, Report("divergent"), DOMAIN check.indexed = OptionIds,
           ~BehindTheCursor, ~TallyIsGone
    PROVE  \E e \in Unread :
              \/ e.log.event # "VoteRecorded"
              \/ \E d \in Unread \ {e} : d.log.subject = e.log.subject
              \/ Standing(check.poll, e.log.subject, LogsUpTo(FromBlock - 1)) # {}
<1> DEFINE p == check.poll
           b == FromBlock - 1
           h == check.head
           pending == PendingVotes(p, FromBlock, h)
<1>1. check.pc = "logs" /\ DOMAIN check.tally = OptionIds
    BY DEF Report, CheckedInv, CheckInv
<1>2. /\ p \in Polls /\ FromBlock \in Nat /\ b <= settled /\ h \in Nat
      /\ (check.cursor # None => check.cursor \in Int)
      /\ \A o \in OptionIds : check.indexed[o] =
            Cardinality({v \in Voters : o \in Standing(p, v, LogsUpTo(b))})
    BY <1>1 DEF CheckedInv, CheckInv
<1>3. ChainHistory /\ Len(chain) \in Nat
    BY DEF CheckedInv, LoneInv, VotesInv, ChainHistory
<1>4. b \in Int /\ -1 <= b /\ b + 1 = FromBlock
    BY <1>2
<1>5. check.tally = OnChainTally(p, h) /\ h <= Len(chain) /\ b <= h
  <2>1. check.tally = OnChainTally(p, h) /\ h <= Len(chain)
    BY <1>2, <1>3 DEF TallyIsGone, ChainHead
  <2>2. ASSUME check.cursor = None PROVE b <= h
    <3>1. b = -1 /\ h \in Nat
        BY <1>2, <2>2 DEF FromBlock
    <3> HIDE DEF b, h
    <3> QED
        BY <3>1
  <2>3. ASSUME check.cursor # None PROVE b <= h
    <3>1. b + 1 = check.cursor + 1 /\ check.cursor \in Int
        BY <1>2, <1>4, <2>3 DEF FromBlock
    <3>2. ~(h < check.cursor) /\ h \in Nat /\ b \in Int
        BY <1>2, <1>4, <2>3 DEF BehindTheCursor
    <3> HIDE DEF b, h
    <3> QED
        BY <3>1, <3>2
  <2> QED
    BY <2>1, <2>2, <2>3
<1>6. ~CompareTally(OnChainTally(p, h), check.indexed, pending)
    BY <1>5 DEF Report, Status, ClassifyConsistency
<1>7. Unread = News(p, b, h)
    BY <1>4 DEF Unread, News
<1> HIDE DEF p, b, h
<1>8. ~FirstBallots(p, b, h)
  <2> SUFFICES ASSUME FirstBallots(p, b, h) PROVE FALSE
    OBVIOUS
  <2>1. CompareTally(OnChainTally(p, h), check.indexed, PendingVotes(p, b + 1, h))
    BY <1>1, <1>2, <1>3, <1>4, <1>5, FirstBallotsAddUp
  <2> QED
    BY <1>4, <1>6, <2>1
<1> QED
    BY <1>7, <1>8 DEF FirstBallots, p, b, h

\* The index of a poll whose options it holds, where nothing but first ballots
\* has happened since, is not accused, whatever the chain does and whatever
\* fails between the three reads of the check, unless its height came from an
\* endpoint behind the cursor or a reorganisation came between the tally and
\* the logs.
THEOREM LoneSyncerReconciles ==
    ASSUME Syncers = {Loop}
    PROVE  CheckedSpec /\ []FactoryIsIndexed => FirstBallotsReconcile
<1>1. Init /\ check = NoCheck => CheckedInv
    BY LoneInit DEF CheckedInv, CheckInv, NoCheck
<1>2. CheckedInv /\ FactoryIsIndexed /\ [CheckedNext]_checkedVars => CheckedInv'
    BY CheckedNextKeeps
<1>3. CheckedInv /\ [CheckedNext]_checkedVars =>
        [Report("divergent") =>
            \/ DOMAIN check.indexed # OptionIds
            \/ BehindTheCursor \/ TallyIsGone
            \/ \E e \in Unread :
                  \/ e.log.event # "VoteRecorded"
                  \/ \E d \in Unread \ {e} : d.log.subject = e.log.subject
                  \/ Standing(check.poll, e.log.subject, LogsUpTo(FromBlock - 1)) # {}
        ]_checkedVars
  <2> SUFFICES ASSUME CheckedInv, Report("divergent"),
                      DOMAIN check.indexed = OptionIds,
                      ~BehindTheCursor, ~TallyIsGone
               PROVE  \E e \in Unread :
                  \/ e.log.event # "VoteRecorded"
                  \/ \E d \in Unread \ {e} : d.log.subject = e.log.subject
                  \/ Standing(check.poll, e.log.subject, LogsUpTo(FromBlock - 1)) # {}
    OBVIOUS
  <2> QED
    BY VerdictHasAReason
<1> QED
    BY <1>1, <1>2, <1>3, PTL DEF CheckedSpec, FirstBallotsReconcile
=============================================================================
