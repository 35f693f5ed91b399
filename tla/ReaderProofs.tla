---------------------------- MODULE ReaderProofs ----------------------------
(***************************************************************************)
(* Notifications, for any polls, tabs, limit and history of the index.     *)
(*                                                                         *)
(* A watermark is a claim about every settled event below it, indexed or   *)
(* not, since a rewind takes events away that come back later.  So the     *)
(* invariant follows each height on its way to a watermark, through the    *)
(* answer of a subscribe's first query and the marks of a POST.            *)
(***************************************************************************)
EXTENDS Reader, TLAPS

Event == [block : Nat, poll : Polls]

Steps == {"none", "sent", "writing"}

\* The settled events of p up to block n.
PastUpTo(p, n) == {e \in Event : e.poll = p /\ e.block \in 1..n /\ p \in facts[e.block]}

Types ==
    /\ facts \in Seq(SUBSET Polls)
    /\ cursor \in 0..Len(facts)
    /\ watermark \in [Polls -> {NoRow} \cup 0..Len(facts)]
    /\ joining \in [Tabs -> [poll : SUBSET Polls, head : 0..Len(facts),
                             past : SUBSET Event]]
    /\ marking \in [Tabs -> [step : Steps, scope : SUBSET Polls,
                             marks : SUBSET Event]]
    /\ answered \in SUBSET Event

\* The index holds the settled events up to its cursor.
IndexIsPast == indexed = {e \in Event : e \in PastUpTo(e.poll, cursor)}

WatermarksAreHonest ==
    \A p \in Polls : Subscribed(p) => PastUpTo(p, watermark[p]) \subseteq answered

JoinsAreHonest ==
    \A t \in Tabs : \A p \in joining[t].poll :
        PastUpTo(p, joining[t].head) \subseteq joining[t].past

MarksAreHonest ==
    \A t \in Tabs : \A e \in marking[t].marks :
        e.block <= Len(facts) /\ PastUpTo(e.poll, e.block) \subseteq answered

ReaderInv ==
    /\ Types /\ IndexIsPast
    /\ WatermarksAreHonest /\ JoinsAreHonest /\ MarksAreHonest

LEMMA ReaderStarts == Init => ReaderInv
<1> SUFFICES ASSUME Init PROVE ReaderInv
  OBVIOUS
<1> USE DEF Init, LedgerInit
<1>1. facts = <<>> /\ facts \in Seq(SUBSET Polls) /\ Len(facts) = 0 /\ cursor = 0
  OBVIOUS
<1>2. NotJoining \in [poll : SUBSET Polls, head : 0..0, past : SUBSET Event]
  BY DEF NotJoining
<1>3. NoPost \in [step : Steps, scope : SUBSET Polls, marks : SUBSET Event]
  BY DEF NoPost, Steps
<1>4. Types
  BY <1>1, <1>2, <1>3 DEF Types, NoRow
<1>5. IndexIsPast
  BY <1>1 DEF IndexIsPast, PastUpTo
<1>6. WatermarksAreHonest /\ JoinsAreHonest /\ MarksAreHonest
  BY DEF WatermarksAreHonest, JoinsAreHonest, MarksAreHonest, Subscribed, NoRow,
         NotJoining, NoPost
<1> QED BY <1>4, <1>5, <1>6 DEF ReaderInv

-----------------------------------------------------------------------------
(***************************************************************************)
(* The index's own steps.  What is settled stays so.                       *)
(***************************************************************************)

LEMMA SettleKeeps ==
    ASSUME ReaderInv, Settle, UNCHANGED readerVars PROVE ReaderInv'
<1>1. PICK happened \in SUBSET Polls : facts' = Append(facts, happened)
  BY DEF Settle
<1>2. /\ facts' \in Seq(SUBSET Polls) /\ Len(facts') = Len(facts) + 1
      /\ \A n \in 1..Len(facts) : facts'[n] = facts[n]
      /\ Len(facts) \in Nat
  BY <1>1 DEF ReaderInv, Types
<1>3. UNCHANGED <<cursor, indexed, watermark, joining, page, marking, failures, answered>>
  BY DEF Settle, readerVars
<1>4. ASSUME NEW p, NEW n \in Int, n <= Len(facts) PROVE PastUpTo(p, n)' = PastUpTo(p, n)
  BY <1>2, <1>4 DEF PastUpTo
<1>5. Types'
  BY <1>2, <1>3 DEF ReaderInv, Types, NoRow
<1>6. IndexIsPast'
  BY <1>3, <1>4 DEF ReaderInv, Types, IndexIsPast
<1>7. WatermarksAreHonest'
  <2> SUFFICES ASSUME NEW p \in Polls, Subscribed(p)
               PROVE  PastUpTo(p, watermark[p])' \subseteq answered
    BY <1>3 DEF WatermarksAreHonest, Subscribed
  <2>1. watermark[p] \in Int /\ watermark[p] <= Len(facts)
    BY <1>2 DEF ReaderInv, Types, NoRow
  <2>2. PastUpTo(p, watermark[p])' = PastUpTo(p, watermark[p])
    BY <2>1, <1>3, <1>4
  <2> QED BY <2>2 DEF ReaderInv, WatermarksAreHonest
<1>8. JoinsAreHonest'
  <2> SUFFICES ASSUME NEW t \in Tabs, NEW p \in joining[t].poll
               PROVE  PastUpTo(p, joining[t].head)' \subseteq joining[t].past
    BY <1>3 DEF JoinsAreHonest
  <2>1. joining[t].head \in Int /\ joining[t].head <= Len(facts)
    BY <1>2 DEF ReaderInv, Types
  <2>2. PastUpTo(p, joining[t].head)' = PastUpTo(p, joining[t].head)
    BY <2>1, <1>3, <1>4
  <2> QED BY <2>2 DEF ReaderInv, JoinsAreHonest
<1>9. MarksAreHonest'
  <2> SUFFICES ASSUME NEW t \in Tabs, NEW e \in marking[t].marks
               PROVE  /\ e.block <= Len(facts')
                      /\ PastUpTo(e.poll, e.block)' \subseteq answered
    BY <1>3 DEF MarksAreHonest
  <2>1. e.block \in Int /\ e.block <= Len(facts)
    BY DEF ReaderInv, Types, MarksAreHonest, Event
  <2>2. PastUpTo(e.poll, e.block)' = PastUpTo(e.poll, e.block)
    BY <2>1, <1>4
  <2> QED BY <2>1, <2>2, <1>2 DEF ReaderInv, MarksAreHonest
<1> QED BY <1>5, <1>6, <1>7, <1>8, <1>9 DEF ReaderInv

\* Cursor and events move together; nobody else is concerned.
LEMMA IndexMoves ==
    ASSUME ReaderInv, UNCHANGED <<facts, readerVars>>,
           cursor' \in 0..Len(facts), IndexIsPast'
    PROVE  ReaderInv'
<1> USE DEF ReaderInv, readerVars, PastUpTo
<1>1. Types'
  BY DEF Types
<1>2. WatermarksAreHonest' /\ JoinsAreHonest' /\ MarksAreHonest'
  BY DEF WatermarksAreHonest, JoinsAreHonest, MarksAreHonest, Subscribed
<1> QED BY <1>1, <1>2

LEMMA AdvanceKeeps ==
    ASSUME ReaderInv, NEW to \in 1..MaxBlock, Advance(to), UNCHANGED readerVars
    PROVE  ReaderInv'
<1>1. /\ cursor' = to /\ to <= Len(facts) /\ cursor < to /\ facts' = facts
      /\ indexed' = indexed \cup Events(cursor + 1, to)
      /\ cursor \in Nat /\ Len(facts) \in Nat /\ to \in Nat
      /\ facts \in [1..Len(facts) -> SUBSET Polls]
  BY DEF Advance, ReaderInv, Types
<1>2. Events(cursor + 1, to) =
        {e \in Event : e.block \in cursor + 1..to /\ e.poll \in facts[e.block]}
  <2>1. ASSUME NEW e \in Events(cursor + 1, to)
        PROVE  e \in Event /\ e.block \in cursor + 1..to /\ e.poll \in facts[e.block]
    <3>1. PICK n \in cursor + 1..to : e \in {[block |-> n, poll |-> p] : p \in facts[n]}
      BY <2>1 DEF Events
    <3>2. PICK p \in facts[n] : e = [block |-> n, poll |-> p]
      BY <3>1
    <3>3. n \in 1..Len(facts) /\ p \in Polls
      BY <1>1
    <3> QED BY <3>2, <3>3 DEF Event
  <2>2. ASSUME NEW e \in Event, e.block \in cursor + 1..to, e.poll \in facts[e.block]
        PROVE  e \in Events(cursor + 1, to)
    <3>1. e = [block |-> e.block, poll |-> e.poll]
      BY DEF Event
    <3> QED BY <2>2, <3>1 DEF Events
  <2> QED BY <2>1, <2>2
<1>3. IndexIsPast'
  BY <1>1, <1>2 DEF ReaderInv, IndexIsPast, PastUpTo, Event
<1> QED BY <1>1, <1>3, IndexMoves

LEMMA RewindKeeps ==
    ASSUME ReaderInv, NEW to \in 0..MaxBlock, Rewind(to), UNCHANGED readerVars
    PROVE  ReaderInv'
<1>1. /\ cursor' = to /\ to < cursor /\ facts' = facts
      /\ indexed' = {e \in indexed : e.block <= to}
      /\ cursor \in Nat /\ Len(facts) \in Nat /\ to \in Nat /\ cursor <= Len(facts)
  BY DEF Rewind, ReaderInv, Types
<1>2. IndexIsPast'
  BY <1>1 DEF ReaderInv, IndexIsPast, PastUpTo, Event
<1> QED BY <1>1, <1>2, IndexMoves

-----------------------------------------------------------------------------
(***************************************************************************)
(* The steps of a tab.                                                     *)
(***************************************************************************)

LEMMA ReadHeadKeeps ==
    ASSUME ReaderInv, UNCHANGED ledgerVars, NEW t \in Tabs, NEW p \in Polls,
           ReadHead(t, p) \/ HeadUnavailable(t, p)
    PROVE  ReaderInv'
<1> USE DEF ReaderInv, ledgerVars, ReadHead, HeadUnavailable
<1>1. PastOf(p) \in SUBSET Event /\ PastUpTo(p, cursor) \subseteq PastOf(p)
  BY DEF IndexIsPast, PastUpTo, PastOf
<1>2. PastUpTo(p, 0) = {}
  BY DEF PastUpTo
<1>3. \/ joining' = [joining EXCEPT ![t] = [poll |-> {p}, head |-> cursor, past |-> PastOf(p)]]
      \/ joining' = [joining EXCEPT ![t] = [poll |-> {p}, head |-> 0, past |-> {}]]
  OBVIOUS
<1>4. Types'
  <2> DEFINE Joining == [poll : SUBSET Polls, head : 0..Len(facts), past : SUBSET Event]
  <2>1. /\ [poll |-> {p}, head |-> cursor, past |-> PastOf(p)] \in Joining
        /\ [poll |-> {p}, head |-> 0, past |-> {}] \in Joining
    BY <1>1 DEF Types
  <2>2. joining \in [Tabs -> Joining]
    BY DEF Types
  <2> HIDE DEF Joining
  <2>3. joining' \in [Tabs -> Joining]
    BY <2>1, <2>2, <1>3
  <2> USE DEF Joining
  <2>4. UNCHANGED <<facts, cursor, watermark, marking, answered>>
    OBVIOUS
  <2> HIDE DEF ReadHead, HeadUnavailable
  <2> QED BY <2>3, <2>4 DEF Types
<1>5. JoinsAreHonest'
  <2> SUFFICES ASSUME NEW u \in Tabs, NEW q \in joining'[u].poll
               PROVE  PastUpTo(q, joining'[u].head) \subseteq joining'[u].past
    BY DEF JoinsAreHonest, PastUpTo
  <2>1. CASE u = t
    BY <2>1, <1>1, <1>2, <1>3 DEF Types
  <2>2. CASE u # t
    BY <2>2, <1>3 DEF Types, JoinsAreHonest
  <2> QED BY <2>1, <2>2
<1>6. IndexIsPast' /\ WatermarksAreHonest' /\ MarksAreHonest'
  BY DEF IndexIsPast, WatermarksAreHonest, MarksAreHonest, PastUpTo, Subscribed
<1> QED BY <1>4, <1>5, <1>6

LEMMA InsertKeeps ==
    ASSUME ReaderInv, UNCHANGED ledgerVars, NEW t \in Tabs, NEW p \in Polls, Insert(t, p)
    PROVE  ReaderInv'
<1> USE DEF ReaderInv, ledgerVars, Insert
<1>1. /\ joining' = [joining EXCEPT ![t] = NotJoining]
      /\ UNCHANGED marking
      /\ answered \subseteq answered'
      /\ \/ UNCHANGED <<watermark, answered>>
         \/ /\ watermark' = [watermark EXCEPT ![p] = joining[t].head]
            /\ answered' = answered \cup joining[t].past
  OBVIOUS
<1>2. p \in joining[t].poll
  OBVIOUS
<1>3. Types'
  <2>1. NotJoining \in [poll : SUBSET Polls, head : 0..Len(facts), past : SUBSET Event]
    BY DEF Types, NotJoining
  <2>2. joining' \in [Tabs -> [poll : SUBSET Polls, head : 0..Len(facts), past : SUBSET Event]]
    BY <1>1, <2>1 DEF Types
  <2>3. joining[t].head \in 0..Len(facts) /\ joining[t].past \in SUBSET Event
    BY DEF Types
  <2>4. /\ watermark' \in [Polls -> {NoRow} \cup 0..Len(facts)]
        /\ answered' \in SUBSET Event
    BY <1>1, <2>3 DEF Types
  <2> QED BY <1>1, <2>2, <2>4 DEF Types
<1>4. JoinsAreHonest'
  <2> SUFFICES ASSUME NEW u \in Tabs, NEW q \in joining'[u].poll
               PROVE  PastUpTo(q, joining'[u].head) \subseteq joining'[u].past
    BY DEF JoinsAreHonest, PastUpTo
  <2>1. u # t
    BY <1>1 DEF Types, NotJoining
  <2> QED BY <2>1, <1>1 DEF Types, JoinsAreHonest
<1>5. WatermarksAreHonest'
  <2> SUFFICES ASSUME NEW q \in Polls, watermark'[q] # NoRow
               PROVE  PastUpTo(q, watermark'[q]) \subseteq answered'
    BY DEF WatermarksAreHonest, PastUpTo, Subscribed
  <2>1. CASE UNCHANGED <<watermark, answered>>
    BY <2>1 DEF WatermarksAreHonest, Subscribed
  <2>2. CASE /\ watermark' = [watermark EXCEPT ![p] = joining[t].head]
             /\ answered' = answered \cup joining[t].past
    <3>1. CASE q = p
      BY <3>1, <2>2, <1>2 DEF Types, JoinsAreHonest
    <3>2. CASE q # p
      BY <3>2, <2>2 DEF Types, WatermarksAreHonest, Subscribed
    <3> QED BY <3>1, <3>2
  <2> QED BY <1>1, <2>1, <2>2
<1>6. IndexIsPast' /\ MarksAreHonest'
  BY <1>1 DEF IndexIsPast, MarksAreHonest, PastUpTo
<1> QED BY <1>3, <1>4, <1>5, <1>6

LEMMA InsertFailsKeeps ==
    ASSUME ReaderInv, UNCHANGED ledgerVars, NEW t \in Tabs, InsertFails(t)
    PROVE  ReaderInv'
<1> USE DEF ReaderInv, ledgerVars, InsertFails
<1>1. NotJoining \in [poll : SUBSET Polls, head : 0..Len(facts), past : SUBSET Event]
  BY DEF Types, NotJoining
<1>2. Types'
  BY <1>1 DEF Types
<1>3. JoinsAreHonest'
  <2> SUFFICES ASSUME NEW u \in Tabs, NEW q \in joining'[u].poll
               PROVE  PastUpTo(q, joining'[u].head) \subseteq joining'[u].past
    BY DEF JoinsAreHonest, PastUpTo
  <2>1. u # t
    BY DEF Types, NotJoining
  <2> QED BY <2>1 DEF Types, JoinsAreHonest
<1>4. IndexIsPast' /\ WatermarksAreHonest' /\ MarksAreHonest'
  BY DEF IndexIsPast, WatermarksAreHonest, MarksAreHonest, PastUpTo, Subscribed
<1> QED BY <1>2, <1>3, <1>4

LEMMA UnsubscribeKeeps ==
    ASSUME ReaderInv, UNCHANGED ledgerVars, NEW p \in Polls, Unsubscribe(p)
    PROVE  ReaderInv'
<1> USE DEF ReaderInv, ledgerVars, Unsubscribe
<1>1. Types'
  BY DEF Types
<1>2. WatermarksAreHonest'
  BY DEF Types, WatermarksAreHonest, PastUpTo, Subscribed
<1>3. IndexIsPast' /\ JoinsAreHonest' /\ MarksAreHonest'
  BY DEF IndexIsPast, JoinsAreHonest, MarksAreHonest, PastUpTo
<1> QED BY <1>1, <1>2, <1>3

\* The steps of a POST before it writes, and the reads of the list.
LEMMA PostKeeps ==
    ASSUME ReaderInv, UNCHANGED ledgerVars, UNCHANGED <<watermark, joining>>,
           answered \subseteq answered', answered' \in SUBSET Event,
           NEW t \in Tabs, NEW post \in [step : Steps, scope : SUBSET Polls,
                                         marks : SUBSET Event],
           marking' = [marking EXCEPT ![t] = post],
           \A e \in post.marks : /\ e.block <= Len(facts)
                                 /\ PastUpTo(e.poll, e.block) \subseteq answered'
    PROVE  ReaderInv'
<1> USE DEF ReaderInv, ledgerVars
<1>1. Types'
  BY DEF Types
<1>2. MarksAreHonest'
  BY DEF Types, MarksAreHonest, PastUpTo
<1>3. IndexIsPast' /\ WatermarksAreHonest' /\ JoinsAreHonest'
  BY DEF IndexIsPast, WatermarksAreHonest, JoinsAreHonest, PastUpTo, Subscribed
<1> QED BY <1>1, <1>2, <1>3

LEMMA GetKeeps ==
    ASSUME ReaderInv, UNCHANGED ledgerVars, NEW t \in Tabs, Get(t)
    PROVE  ReaderInv'
BY DEF Get, ReaderInv, ledgerVars, Types, IndexIsPast, WatermarksAreHonest,
       JoinsAreHonest, MarksAreHonest, PastUpTo, Subscribed

LEMMA ClickKeeps ==
    ASSUME ReaderInv, UNCHANGED ledgerVars, NEW t \in Tabs, NEW scope \in SUBSET Polls,
           Click(t, scope)
    PROVE  ReaderInv'
<1> DEFINE post == [NoPost EXCEPT !.step = "sent", !.scope = scope]
<1>1. /\ post \in [step : Steps, scope : SUBSET Polls, marks : SUBSET Event]
      /\ post.marks = {}
  BY DEF NoPost, Steps
<1>2. marking' = [marking EXCEPT ![t] = post] /\ UNCHANGED <<watermark, joining, answered>>
  BY DEF Click
<1>3. answered \in SUBSET Event
  BY DEF ReaderInv, Types
<1> HIDE DEF post
<1> QED BY <1>1, <1>2, <1>3, PostKeeps

LEMMA AnsweredKeeps ==
    ASSUME ReaderInv, UNCHANGED ledgerVars, NEW t \in Tabs, Answered(t)
    PROVE  ReaderInv'
<1>1. /\ NoPost \in [step : Steps, scope : SUBSET Polls, marks : SUBSET Event]
      /\ NoPost.marks = {}
  BY DEF NoPost, Steps
<1>2. marking' = [marking EXCEPT ![t] = NoPost] /\ UNCHANGED <<watermark, joining, answered>>
  BY DEF Answered
<1>3. answered \in SUBSET Event
  BY DEF ReaderInv, Types
<1> QED BY <1>1, <1>2, <1>3, PostKeeps

\* Below an entry that is listed everything was listed: now, or before.
LEMMA ListKeeps ==
    ASSUME ReaderInv, UNCHANGED ledgerVars, NEW t \in Tabs, List(t)
    PROVE  ReaderInv'
<1> DEFINE entries == {e \in Unread : e.poll \in marking[t].scope}
           post == [marking[t] EXCEPT !.step = "writing", !.marks = Highest(entries)]
<1>1. /\ answered' = answered \cup entries
      /\ UNCHANGED <<watermark, joining>>
      /\ marking' = [marking EXCEPT ![t] = post]
  BY DEF List, ReaderInv, Types
<1>2. entries \in SUBSET Event /\ Highest(entries) \subseteq entries
  BY DEF Unread, Highest, ReaderInv, IndexIsPast
<1>3. post \in [step : Steps, scope : SUBSET Polls, marks : SUBSET Event]
  BY <1>2 DEF ReaderInv, Types, Steps
<1>4. post.marks = Highest(entries)
  BY DEF ReaderInv, Types
<1>5. ASSUME NEW e \in entries
      PROVE  e.block <= Len(facts) /\ PastUpTo(e.poll, e.block) \subseteq answered'
  <2>1. /\ e \in Event /\ e \in PastUpTo(e.poll, cursor)
        /\ Subscribed(e.poll) /\ e.block > watermark[e.poll]
    BY DEF Unread, ReaderInv, IndexIsPast
  <2>2. e.block <= cursor /\ cursor <= Len(facts) /\ e.block \in Nat /\ cursor \in Nat
        /\ Len(facts) \in Nat /\ watermark[e.poll] \in Int
    BY <2>1 DEF PastUpTo, Event, ReaderInv, Types, NoRow
  <2>3. ASSUME NEW f \in PastUpTo(e.poll, e.block) PROVE f \in answered'
    <3>1. f \in Event /\ f.poll = e.poll /\ f.block \in 1..e.block
          /\ e.poll \in facts[f.block]
      BY DEF PastUpTo
    <3>2. CASE f.block <= watermark[e.poll]
      <4>1. f \in PastUpTo(e.poll, watermark[e.poll])
        BY <3>1, <3>2, <2>2 DEF PastUpTo
      <4> QED BY <4>1, <2>1, <1>1 DEF ReaderInv, WatermarksAreHonest, Event
    <3>3. CASE f.block > watermark[e.poll]
      <4>1. f \in indexed
        BY <3>1, <2>2 DEF ReaderInv, IndexIsPast, PastUpTo
      <4>2. f \in entries
        BY <4>1, <3>1, <3>3, <2>1 DEF Unread
      <4> QED BY <4>2, <1>1
    <3> QED BY <3>1, <3>2, <3>3, <2>2 DEF Event
  <2> QED BY <2>2, <2>3
<1>6. answered' \in SUBSET Event
  BY <1>1, <1>2 DEF ReaderInv, Types
<1> HIDE DEF post, entries
<1>7. \A e \in post.marks : /\ e.block <= Len(facts)
                            /\ PastUpTo(e.poll, e.block) \subseteq answered'
  BY <1>2, <1>4, <1>5
<1> QED BY <1>1, <1>3, <1>6, <1>7, PostKeeps

LEMMA WriteKeeps ==
    ASSUME ReaderInv, UNCHANGED ledgerVars, NEW t \in Tabs, NEW e \in marking[t].marks,
           Write(t, e)
    PROVE  ReaderInv'
<1> USE DEF ReaderInv, ledgerVars
<1>1. /\ e \in Event /\ e.block <= Len(facts) /\ Len(facts) \in Nat
      /\ PastUpTo(e.poll, e.block) \subseteq answered
  BY DEF Types, MarksAreHonest
<1>2. /\ UNCHANGED <<joining, answered>>
      /\ marking' = [marking EXCEPT ![t].marks = @ \ {e}]
      /\ \/ UNCHANGED watermark
         \/ watermark' = [watermark EXCEPT ![e.poll] = e.block]
  BY <1>1 DEF Write, Types, Event
<1>3. Types'
  <2>1. watermark' \in [Polls -> {NoRow} \cup 0..Len(facts)]
    BY <1>1, <1>2 DEF Types, Event
  <2> DEFINE post == [marking[t] EXCEPT !.marks = @ \ {e}]
  <2>2. marking[t] \in [step : Steps, scope : SUBSET Polls, marks : SUBSET Event]
    BY DEF Types
  <2>3. post \in [step : Steps, scope : SUBSET Polls, marks : SUBSET Event]
    BY <2>2
  <2>4. marking' = [marking EXCEPT ![t] = post]
    BY <1>2 DEF Types
  <2> HIDE DEF post
  <2>5. marking' \in [Tabs -> [step : Steps, scope : SUBSET Polls, marks : SUBSET Event]]
    BY <2>3, <2>4 DEF Types
  <2> QED BY <1>2, <2>1, <2>5 DEF Types
<1>4. WatermarksAreHonest'
  <2> SUFFICES ASSUME NEW q \in Polls, watermark'[q] # NoRow
               PROVE  PastUpTo(q, watermark'[q]) \subseteq answered
    BY <1>2 DEF WatermarksAreHonest, PastUpTo, Subscribed
  <2>1. CASE watermark'[q] = watermark[q]
    BY <2>1 DEF WatermarksAreHonest, Subscribed
  <2>2. CASE watermark'[q] # watermark[q]
    <3>1. q = e.poll /\ watermark'[q] = e.block
      BY <2>2, <1>2 DEF Types
    <3> QED BY <3>1, <1>1
  <2> QED BY <2>1, <2>2
<1>5. MarksAreHonest'
  BY <1>2 DEF Types, MarksAreHonest, PastUpTo
<1>6. IndexIsPast' /\ JoinsAreHonest'
  BY <1>2 DEF IndexIsPast, JoinsAreHonest, PastUpTo
<1> QED BY <1>3, <1>4, <1>5, <1>6

-----------------------------------------------------------------------------
LEMMA ReaderKeeps == ReaderInv /\ [Next]_vars => ReaderInv'
<1> SUFFICES ASSUME ReaderInv, [Next]_vars PROVE ReaderInv'
  OBVIOUS
<1>1. CASE IndexStep
  BY <1>1, SettleKeeps, AdvanceKeeps, RewindKeeps DEF IndexStep
<1>2. ASSUME NEW t \in Tabs, TabStep(t), UNCHANGED ledgerVars PROVE ReaderInv'
  <2>1. ASSUME NEW p \in Polls, ReadHead(t, p) \/ HeadUnavailable(t, p)
        PROVE  ReaderInv'
    BY <1>2, <2>1, ReadHeadKeeps
  <2>2. ASSUME NEW p \in Polls, Insert(t, p) PROVE ReaderInv'
    BY <1>2, <2>2, InsertKeeps
  <2>3. CASE InsertFails(t)
    BY <1>2, <2>3, InsertFailsKeeps
  <2>4. ASSUME NEW p \in Polls, Unsubscribe(p) PROVE ReaderInv'
    BY <1>2, <2>4, UnsubscribeKeeps
  <2>5. CASE Get(t)
    BY <1>2, <2>5, GetKeeps
  <2>6. ASSUME NEW scope \in SUBSET Polls, Click(t, scope) PROVE ReaderInv'
    BY <1>2, <2>6, ClickKeeps
  <2>7. CASE List(t)
    BY <1>2, <2>7, ListKeeps
  <2>8. ASSUME NEW e, Write(t, e) PROVE ReaderInv'
    <3>1. e \in marking[t].marks
      BY <2>8 DEF Write
    <3> QED BY <1>2, <2>8, <3>1, WriteKeeps
  <2>9. CASE Answered(t)
    BY <1>2, <2>9, AnsweredKeeps
  <2> QED BY <1>2, <2>1, <2>2, <2>3, <2>4, <2>5, <2>6, <2>7, <2>8, <2>9 DEF TabStep
<1>3. CASE UNCHANGED vars
  BY <1>3 DEF vars, readerVars, ledgerVars, ReaderInv, Types, IndexIsPast,
              WatermarksAreHonest, JoinsAreHonest, MarksAreHonest, PastUpTo, Subscribed
<1> QED BY <1>1, <1>2, <1>3 DEF Next

\* However the index moves between the queries of a subscribe or a POST, an
\* event nobody has listed stays unread (subscribe, listNotifications,
\* markNotificationsRead).
THEOREM NothingIsSwallowed == Spec => []NothingSwallowed
<1>1. ReaderInv => NothingSwallowed
  <2> SUFFICES ASSUME ReaderInv, NEW e \in indexed, Subscribed(e.poll), e \notin answered
               PROVE  e \in Unread
    BY DEF NothingSwallowed
  <2>1. e \in Event /\ e.block \in 1..cursor /\ e.poll \in facts[e.block]
    BY DEF ReaderInv, IndexIsPast, PastUpTo
  <2>2. watermark[e.poll] \in Int /\ e.block \in Int
    BY <2>1 DEF ReaderInv, Types, NoRow, Event
  <2>3. ~(e.block <= watermark[e.poll])
    BY <2>1, <2>2 DEF ReaderInv, WatermarksAreHonest, PastUpTo, Event
  <2> QED BY <2>2, <2>3 DEF Unread
<1> QED BY <1>1, ReaderStarts, ReaderKeeps, PTL DEF Spec

\* Only a subscription that is taken back and made anew has a lower watermark
\* (the comparison in the UPDATE, ON DUPLICATE KEY in the INSERT).
THEOREM WhatIsReadStaysRead == Spec => ReadStaysRead
<1>1. ASSUME ReaderInv, [Next]_vars, NEW p \in Polls, Subscribed(p), watermark'[p] # NoRow
      PROVE  watermark[p] <= watermark'[p]
  <2> USE <1>1
  <2>1. watermark \in [Polls -> Int] /\ watermark[p] \in Int
    BY DEF ReaderInv, Types, NoRow
  <2>2. CASE IndexStep \/ UNCHANGED vars
    BY <2>1, <2>2 DEF IndexStep, readerVars, vars
  <2>3. ASSUME NEW t \in Tabs, NEW q \in Polls, Insert(t, q)
        PROVE  watermark[p] <= watermark'[p]
    BY <2>1, <2>3 DEF Insert, Subscribed
  <2>4. ASSUME NEW q \in Polls, Unsubscribe(q)
        PROVE  watermark[p] <= watermark'[p]
    BY <2>1, <2>4 DEF Unsubscribe
  <2>5. ASSUME NEW t \in Tabs, NEW e, Write(t, e)
        PROVE  watermark[p] <= watermark'[p]
    <3>1. e.block \in Int
      BY <2>5 DEF Write, ReaderInv, Types, Event
    <3> QED BY <2>1, <2>5, <3>1 DEF Write
  <2>6. ASSUME NEW t \in Tabs, TabStep(t) PROVE watermark[p] <= watermark'[p]
    <3>1. CASE UNCHANGED watermark
      BY <2>1, <3>1
    <3>2. CASE ~UNCHANGED watermark
      <4>1. \/ \E q \in Polls : Insert(t, q) \/ Unsubscribe(q)
            \/ \E e \in EventType : Write(t, e)
        BY <2>6, <3>2
        DEF TabStep, ReadHead, HeadUnavailable, InsertFails, Get, Click, List, Answered
      <4> QED BY <4>1, <2>3, <2>4, <2>5
    <3> QED BY <3>1, <3>2
  <2> QED BY <2>2, <2>6 DEF Next
<1>2. ReaderInv /\ [Next]_vars =>
        [\A p \in Polls : Subscribed(p) /\ watermark'[p] # NoRow =>
            watermark[p] <= watermark'[p]]_vars
  BY <1>1
<1> QED BY <1>2, ReaderStarts, ReaderKeeps, PTL DEF Spec, ReadStaysRead
=============================================================================
