------------------------------- MODULE Reader -------------------------------
(***************************************************************************)
(* One wallet's subscriptions and the notifications derived from them:     *)
(* notify/index.ts, the subscription half of data.ts, the two routes and   *)
(* the notifications page, over an index that advances and rewinds at any  *)
(* moment (IndexLedger).  The wallet is open in several tabs.  Every step  *)
(* is one query or one click; nothing spans two queries.                   *)
(***************************************************************************)
EXTENDS IndexLedger, FiniteSets

CONSTANTS
    Tabs,
    Limit,          \* notifications in one response
    MaxRewinds,     \* bound
    MaxFailures     \* bound: queries that fail

ASSUME ReaderAssumption ==
    /\ Limit \in Nat \ {0}
    /\ MaxRewinds \in Nat /\ MaxFailures \in Nat

VARIABLES
    watermark,  \* subscriptions.last_read_block, or NoRow
    joining,    \* tab -> what its subscribe has read so far
    page,       \* tab -> the list it shows: unread, its entries
    marking,    \* tab -> where its POST is
    rewinds, failures,
    answered    \* history: events a subscription started after, or that a
                \* POST has listed

readerVars == <<watermark, joining, page, marking, failures, answered>>
vars == <<ledgerVars, rewinds, readerVars>>

NoRow == -1
Subscribed(p) == watermark[p] # NoRow

NotJoining == [poll |-> {}, head |-> 0, past |-> {}]
NoPost == [step |-> "none", scope |-> {}, marks |-> {}]

EventType == [block : 1..MaxBlock, poll : Polls]

TypeOK ==
    /\ facts \in Seq(SUBSET Polls) /\ Len(facts) <= MaxBlock
    /\ cursor \in 0..Len(facts) /\ indexed \subseteq EventType
    /\ watermark \in [Polls -> {NoRow} \cup 0..MaxBlock]
    /\ \A t \in Tabs :
        /\ joining[t].poll \subseteq Polls /\ joining[t].head \in 0..MaxBlock
        /\ page[t] \subseteq EventType /\ Cardinality(page[t]) <= Limit
        /\ marking[t].step \in {"none", "sent", "writing"}
        /\ marking[t].scope \subseteq Polls
        /\ marking[t].marks \subseteq EventType
    /\ rewinds \in 0..MaxRewinds /\ failures \in 0..MaxFailures
    /\ answered \subseteq EventType

Init ==
    /\ LedgerInit
    /\ watermark = [p \in Polls |-> NoRow]
    /\ joining = [t \in Tabs |-> NotJoining]
    /\ page = [t \in Tabs |-> {}]
    /\ marking = [t \in Tabs |-> NoPost]
    /\ rewinds = 0 /\ failures = 0
    /\ answered = {}

-----------------------------------------------------------------------------
\* listNotifications: one query.
Unread == {e \in indexed : Subscribed(e.poll) /\ e.block > watermark[e.poll]}

\* The newest of them, at most Limit; the order within a block is arbitrary.
Newest(events, shown) ==
    /\ shown \subseteq events
    /\ Cardinality(shown) =
         IF Cardinality(events) < Limit THEN Cardinality(events) ELSE Limit
    /\ \A e \in shown, f \in events \ shown : f.block <= e.block

\* watermarkFor: for each poll its highest entry.
Highest(entries) ==
    {e \in entries : \A f \in entries : f.poll = e.poll => f.block <= e.block}

Fail == failures < MaxFailures /\ failures' = failures + 1

-----------------------------------------------------------------------------
(***************************************************************************)
(* The index moves on.                                                     *)
(***************************************************************************)
IndexStep ==
    /\ \/ Settle /\ UNCHANGED rewinds
       \/ \E to \in 1..MaxBlock : Advance(to) /\ UNCHANGED rewinds
       \/ /\ rewinds < MaxRewinds /\ rewinds' = rewinds + 1
          /\ \E to \in 0..MaxBlock : Rewind(to)
    /\ UNCHANGED readerVars

-----------------------------------------------------------------------------
(***************************************************************************)
(* subscribe: the head is read by a query of its own; 0 when that fails.   *)
(***************************************************************************)
PastOf(p) == {e \in indexed : e.poll = p}

\* Mutant: the watermark is the head of the chain.
ReadChainHead(t, p) ==
    /\ joining[t] = NotJoining
    /\ joining' = [joining EXCEPT ![t] =
                     [poll |-> {p}, head |-> Len(facts), past |-> PastOf(p)]]
    /\ UNCHANGED <<watermark, page, marking, failures, answered>>

ReadHead(t, p) ==
    /\ joining[t] = NotJoining
    /\ joining' = [joining EXCEPT ![t] =
                     [poll |-> {p}, head |-> cursor, past |-> PastOf(p)]]
    /\ UNCHANGED <<watermark, page, marking, failures, answered>>

HeadUnavailable(t, p) ==
    /\ joining[t] = NotJoining
    /\ joining' = [joining EXCEPT ![t] = [poll |-> {p}, head |-> 0, past |-> {}]]
    /\ Fail
    /\ UNCHANGED <<watermark, page, marking, answered>>

\* ON DUPLICATE KEY UPDATE address: a row that exists is left alone.
Insert(t, p) ==
    /\ p \in joining[t].poll
    /\ joining' = [joining EXCEPT ![t] = NotJoining]
    /\ IF Subscribed(p) THEN UNCHANGED <<watermark, answered>>
       ELSE /\ watermark' = [watermark EXCEPT ![p] = joining[t].head]
            /\ answered' = answered \cup joining[t].past
    /\ UNCHANGED <<page, marking, failures>>

InsertFails(t) ==
    /\ joining[t] # NotJoining
    /\ joining' = [joining EXCEPT ![t] = NotJoining]
    /\ Fail
    /\ UNCHANGED <<watermark, page, marking, answered>>

Unsubscribe(p) ==
    /\ Subscribed(p)
    /\ watermark' = [watermark EXCEPT ![p] = NoRow]
    /\ UNCHANGED <<joining, page, marking, failures, answered>>

-----------------------------------------------------------------------------
(***************************************************************************)
(* The notifications page.  Its buttons are disabled from the click until  *)
(* the list has been read again.                                           *)
(***************************************************************************)
Get(t) ==
    /\ marking[t] = NoPost
    /\ \E shown \in SUBSET Unread :
         Newest(Unread, shown) /\ page' = [page EXCEPT ![t] = shown]
    /\ UNCHANGED <<watermark, joining, marking, failures, answered>>

\* All polls, or the poll of an entry that is shown.
Click(t, scope) ==
    /\ marking[t] = NoPost /\ page[t] # {}
    /\ scope = Polls \/ \E e \in page[t] : scope = {e.poll}
    /\ marking' = [marking EXCEPT ![t] = [NoPost EXCEPT !.step = "sent", !.scope = scope]]
    /\ UNCHANGED <<watermark, joining, page, failures, answered>>

\* POST: the entries are listed again, and their heights are what is written.
List(t) ==
    /\ marking[t].step = "sent"
    /\ LET entries == {e \in Unread : e.poll \in marking[t].scope}
       IN  /\ marking' = [marking EXCEPT ![t].step = "writing",
                                         ![t].marks = Highest(entries)]
           /\ answered' = answered \cup entries
    /\ UNCHANGED <<watermark, joining, page, failures>>

\* Mutant: the update does not compare.
WriteBlindly(t, e) ==
    /\ e \in marking[t].marks
    /\ marking' = [marking EXCEPT ![t].marks = @ \ {e}]
    /\ watermark' = [watermark EXCEPT ![e.poll] =
                       IF Subscribed(e.poll) THEN e.block ELSE @]
    /\ UNCHANGED <<joining, page, failures, answered>>

\* markNotificationsRead: an update per poll, of the row that is lower.
Write(t, e) ==
    /\ e \in marking[t].marks
    /\ marking' = [marking EXCEPT ![t].marks = @ \ {e}]
    /\ watermark' = [watermark EXCEPT ![e.poll] =
                       IF Subscribed(e.poll) /\ @ < e.block THEN e.block ELSE @]
    /\ UNCHANGED <<joining, page, failures, answered>>

\* The page reads its list again, whatever the answer was.
Answered(t) ==
    /\ marking[t].step # "none"
    /\ \/ marking[t].step = "writing" /\ marking[t].marks = {}
          /\ UNCHANGED failures
       \/ Fail
    /\ marking' = [marking EXCEPT ![t] = NoPost]
    /\ page' = [page EXCEPT ![t] = {}]
    /\ UNCHANGED <<watermark, joining, answered>>

-----------------------------------------------------------------------------
TabStep(t) ==
    \/ \E p \in Polls : ReadHead(t, p) \/ HeadUnavailable(t, p) \/ Insert(t, p)
    \/ InsertFails(t)
    \/ \E p \in Polls : Unsubscribe(p)
    \/ Get(t)
    \/ \E scope \in SUBSET Polls : Click(t, scope)
    \/ List(t)
    \/ \E e \in EventType : Write(t, e)
    \/ Answered(t)

Next == IndexStep \/ \E t \in Tabs : TabStep(t) /\ UNCHANGED <<ledgerVars, rewinds>>

Spec == Init /\ [][Next]_vars

-----------------------------------------------------------------------------
(***************************************************************************)
(* An event of a followed poll is unread until some POST has listed it:    *)
(* whatever is indexed between the two queries of a subscribe, between the *)
(* listing and the writing of a POST, or again after a rewind, is not      *)
(* lost.                                                                   *)
(***************************************************************************)
NothingSwallowed ==
    \A e \in indexed : Subscribed(e.poll) /\ e \notin answered => e \in Unread

\* Two POSTs that cross, a second subscribe or a rewind never make what was
\* read unread again.
ReadStaysRead ==
    [][\A p \in Polls : Subscribed(p) /\ watermark'[p] # NoRow =>
          watermark[p] <= watermark'[p]]_vars
=============================================================================
