------------------------------ MODULE Creation ------------------------------
(***************************************************************************)
(* How a poll comes to be: the form of the page with its draft in the      *)
(* browser's storage, the wallet, the factory contract, and the list of    *)
(* polls the server reads from the factory through its cache.              *)
(*                                                                         *)
(* One tab of one wallet, the only creator the list is observed with.  The *)
(* fields of the form (question, options, deadline, admission, template)   *)
(* are one value, Blank or a complete text: only a complete form can be    *)
(* submitted.  The configurations the template and the admission radio     *)
(* give are a function, compared with the library's at the end.            *)
(***************************************************************************)
EXTENDS ReadCache, PollMechanisms, Sequences, FiniteSetsExt

CONSTANTS
    Texts,       \* what a filled-in form can say
    Blank,       \* the form as it first appears
    Nothing,     \* no draft stored, no timer, no transaction
    EndsAt,      \* text -> its deadline
    Creators, Wallet,
    MaxPolls,    \* bound: polls ever created
    MaxFaults,   \* bound: refusals of the storage and failures of a chain read
    MaxReloads,  \* bound: reloads of the page
    MaxTime      \* bound: the clock stops here

Stages == {"signing", "sent", "success", "reverted"}

ASSUME CreationAssumption ==
    /\ Blank \notin Texts /\ Nothing \notin Texts \cup {Blank}
    /\ Nothing \notin [stage : Stages, text : Texts]
    /\ MaxTime \in Nat

VARIABLES
    polls,                   \* _polls: who created which text, and when
    creatorAllowlistEnabled, isCreatorAllowed,
    form,                    \* the fields on the page
    saveTimer,               \* what the pending autosave will write
    draftSaved,              \* what the page says of the last save
    draft,                   \* the slot in localStorage
    tx,                      \* the transaction the page waits for
    orphan,                  \* one that is under way for a page since reloaded
    gone,                    \* texts discarded or created, not typed again (history)
    faults, reloads

factoryVars == <<polls, creatorAllowlistEnabled, isCreatorAllowed>>
formVars == <<form, saveTimer, draftSaved, draft, gone>>
txVars == <<tx, orphan>>
vars == <<now, cacheVars, factoryVars, formVars, txVars, faults, reloads>>

Forms == Texts \cup {Blank}
Transactions == [stage : Stages, text : Texts] \cup {Nothing}

TypeOK ==
    /\ now \in 0 .. MaxTime
    /\ entry \in [read : Reads \cup {0}, expiresAt : 0 .. MaxTime + Ttl]
    /\ \A n \in Reads : promise[n].status \in {"free", "flying", "listed", "ok", "failed"}
    /\ holds \in [Readers -> [read : Reads \cup {0}, askedAt : 0 .. MaxTime]]
    /\ polls \in Seq([creator : Creators, text : Texts, at : 0 .. MaxTime])
    /\ creatorAllowlistEnabled \in BOOLEAN /\ isCreatorAllowed \subseteq Creators
    /\ form \in Forms /\ saveTimer \in Forms \cup {Nothing}
    /\ draftSaved \in {"unknown", "yes", "no"}
    /\ draft \in Forms \cup {Nothing}
    /\ tx \in Transactions
    /\ orphan \in Transactions /\ (orphan # Nothing => orphan.stage \in {"signing", "sent"})
    /\ gone \subseteq Texts
    /\ faults \in 0 .. MaxFaults /\ reloads \in 0 .. MaxReloads

Init ==
    /\ now = 0
    /\ CacheInit
    /\ polls = <<>> /\ creatorAllowlistEnabled = FALSE /\ isCreatorAllowed = {}
    /\ form = Blank /\ saveTimer = Blank /\ draftSaved = "unknown" /\ draft = Nothing
    /\ tx = Nothing /\ orphan = Nothing
    /\ gone = {} /\ faults = 0 /\ reloads = 0

\* isPending or the receipt is awaited.
TxBusy == tx # Nothing /\ tx.stage \in {"signing", "sent"}

Fault == faults < MaxFaults /\ faults' = faults + 1

(***************************************************************************)
(* The factory.                                                            *)
(***************************************************************************)

MayCreate(c) == creatorAllowlistEnabled => c \in isCreatorAllowed

\* createPoll reverts unless all of this holds.
Creatable(c, t) == MayCreate(c) /\ EndsAt[t] > now

CreatePoll(c, t) ==
    /\ Creatable(c, t) /\ Len(polls) < MaxPolls
    /\ polls' = Append(polls, [creator |-> c, text |-> t, at |-> now])
    /\ UNCHANGED <<creatorAllowlistEnabled, isCreatorAllowed>>

SetCreatorAllowlistEnabled(enabled) ==
    /\ enabled # creatorAllowlistEnabled
    /\ creatorAllowlistEnabled' = enabled
    /\ UNCHANGED <<now, cacheVars, polls, isCreatorAllowed, formVars, txVars,
                   faults, reloads>>

SetCreatorAllowlist(cs, allowed) ==
    /\ isCreatorAllowed' = IF allowed THEN isCreatorAllowed \cup cs
                                      ELSE isCreatorAllowed \ cs
    /\ UNCHANGED <<now, cacheVars, polls, creatorAllowlistEnabled, formVars,
                   txVars, faults, reloads>>

(***************************************************************************)
(* The form and its draft.  Every change of a field replaces the pending   *)
(* autosave by one of the new values.                                      *)
(***************************************************************************)

Edit(f) ==
    /\ f # form
    /\ form' = f /\ saveTimer' = f
    /\ gone' = gone \ {f}
    /\ UNCHANGED <<now, cacheVars, factoryVars, draftSaved, draft, txVars,
                   faults, reloads>>

\* The storage takes the draft, or refuses it and the page says so.
Autosave ==
    /\ saveTimer # Nothing
    /\ saveTimer' = Nothing
    /\ \/ draft' = saveTimer /\ draftSaved' = "yes" /\ UNCHANGED faults
       \/ Fault /\ draftSaved' = "no" /\ UNCHANGED draft
    /\ UNCHANGED <<now, cacheVars, factoryVars, form, gone, txVars, reloads>>

\* The emptied fields are saved in their turn.
Discard ==
    /\ form' = Blank /\ saveTimer' = Blank
    /\ \/ /\ draft' = Nothing /\ draftSaved' = "unknown"
          /\ gone' = gone \cup ({form, draft} \cap Texts)
          /\ UNCHANGED faults
       \/ /\ Fault /\ draftSaved' = "no" /\ UNCHANGED <<draft, gone>>
    /\ UNCHANGED <<now, cacheVars, factoryVars, txVars, reloads>>

\* A new page restores the draft, or starts blank where there is none or it
\* cannot be read; a transaction under way goes on without the page.
Reload ==
    /\ reloads < MaxReloads /\ reloads' = reloads + 1
    /\ \/ /\ draft # Nothing
          /\ form' = draft /\ draftSaved' = "yes" /\ UNCHANGED faults
       \/ /\ draft = Nothing
          /\ form' = Blank /\ draftSaved' = "unknown" /\ UNCHANGED faults
       \/ /\ draft # Nothing /\ Fault
          /\ form' = Blank /\ draftSaved' = "unknown"
    /\ saveTimer' = form'
    /\ orphan' = IF TxBusy THEN tx ELSE orphan
    /\ TxBusy => orphan = Nothing
    /\ tx' = Nothing
    /\ UNCHANGED <<now, cacheVars, factoryVars, draft, gone>>

(***************************************************************************)
(* The transaction.                                                        *)
(***************************************************************************)

\* reason(): the allowlist of the factory is not read.
SubmitOffered ==
    /\ form \in Texts /\ ~TxBusy
    /\ EndsAt[form] > now
    /\ tx # Nothing => tx.stage # "success"

Submit ==
    /\ SubmitOffered
    /\ tx' = [stage |-> "signing", text |-> form]
    /\ UNCHANGED <<now, cacheVars, factoryVars, formVars, orphan, faults, reloads>>

\* The reader declines in the wallet: the form stays as it was.
Refuse ==
    /\ tx # Nothing /\ tx.stage = "signing"
    /\ tx' = Nothing
    /\ UNCHANGED <<now, cacheVars, factoryVars, formVars, orphan, faults, reloads>>

Sign ==
    /\ tx # Nothing /\ tx.stage = "signing"
    /\ tx' = [tx EXCEPT !.stage = "sent"]
    /\ UNCHANGED <<now, cacheVars, factoryVars, formVars, orphan, faults, reloads>>

\* A transaction is mined whenever the chain gets to it, and may revert then.
Mine ==
    /\ tx # Nothing /\ tx.stage = "sent"
    /\ \/ CreatePoll(Wallet, tx.text) /\ tx' = [tx EXCEPT !.stage = "success"]
       \/ /\ ~Creatable(Wallet, tx.text)
          /\ tx' = [tx EXCEPT !.stage = "reverted"]
          /\ UNCHANGED factoryVars
    /\ UNCHANGED <<now, cacheVars, formVars, orphan, faults, reloads>>

\* The transaction of a page that is gone: declined, mined or reverted.
MineOrphan ==
    /\ orphan # Nothing
    /\ orphan' = Nothing
    /\ \/ CreatePoll(Wallet, orphan.text)
       \/ /\ orphan.stage = "signing" \/ ~Creatable(Wallet, orphan.text)
          /\ UNCHANGED factoryVars
    /\ UNCHANGED <<now, cacheVars, formVars, tx, faults, reloads>>

\* Mutant: the autosave that was pending when the poll appeared still fires.
ConfirmKeepingTimer ==
    /\ tx # Nothing /\ tx.stage = "success"
    /\ tx' = Nothing
    /\ form' = Blank /\ draftSaved' = "unknown"
    /\ UNCHANGED saveTimer
    /\ draft' = Nothing
    /\ gone' = gone \cup {tx.text}
    /\ UNCHANGED <<now, cacheVars, factoryVars, orphan, faults, reloads>>

\* The receipt: the form and the draft are cleared, whatever they hold by then.
\* A storage that refuses is not noticed.
Confirm ==
    /\ tx # Nothing /\ tx.stage = "success"
    /\ tx' = Nothing
    /\ form' = Blank /\ saveTimer' = Blank /\ draftSaved' = "unknown"
    /\ \/ draft' = Nothing /\ gone' = gone \cup {tx.text} /\ UNCHANGED faults
       \/ Fault /\ UNCHANGED <<draft, gone>>
    /\ UNCHANGED <<now, cacheVars, factoryVars, orphan, reloads>>

(***************************************************************************)
(* The server's list of polls, and time.                                   *)
(***************************************************************************)

Row(i, read) == [poll |-> i, read |-> read]

\* allPolls has answered; each poll of the list is asked next.
ReadPolls(n) ==
    /\ promise[n].status = "flying"
    /\ promise' = [promise EXCEPT ![n].status = "listed",
                                  ![n].value = {Row(i, TRUE) : i \in DOMAIN polls}]
    /\ UNCHANGED <<entry, holds>>

\* A poll that cannot be read becomes null, and the list is shown without it.
Summarised(n) ==
    /\ promise[n].status = "listed"
    /\ \/ Settle(n, promise[n].value) /\ UNCHANGED faults
       \/ /\ Fault
          /\ \E row \in promise[n].value :
                Settle(n, (promise[n].value \ {row}) \cup {Row(row.poll, FALSE)})

ListStep ==
    /\ \/ /\ \E r \in Readers : Get(r) \/ Receive(r)
          /\ UNCHANGED faults
       \/ /\ \E n \in Reads : ReadPolls(n)
          /\ UNCHANGED faults
       \/ \E n \in Reads : Summarised(n)
    /\ UNCHANGED <<now, factoryVars, formVars, txVars, reloads>>

ListFails ==
    /\ Fault
    /\ \E n \in Reads : Fail(n)
    /\ UNCHANGED <<now, factoryVars, formVars, txVars, reloads>>

Tick ==
    /\ now < MaxTime
    /\ now' = now + 1
    /\ UNCHANGED <<cacheVars, factoryVars, formVars, txVars, faults, reloads>>

PageStep ==
    \/ \E f \in Forms : Edit(f)
    \/ Autosave \/ Discard \/ Reload
    \/ Submit \/ Refuse \/ Sign \/ Confirm

ChainStep ==
    \/ \E enabled \in BOOLEAN : SetCreatorAllowlistEnabled(enabled)
    \/ \E cs \in SUBSET Creators, allowed \in BOOLEAN : SetCreatorAllowlist(cs, allowed)
    \/ Mine \/ MineOrphan

Next == PageStep \/ ChainStep \/ ListStep \/ ListFails \/ Tick

Spec == Init /\ [][Next]_vars

(***************************************************************************)
(* The configuration the form submits.                                     *)
(***************************************************************************)

\* What each template changes; "none" is the form's own start.
Overrides ==
    [none |-> DefaultConfig, single |-> DefaultConfig,
     multiSelect |-> [DefaultConfig EXCEPT !.multiSelect = TRUE, !.maxSelections = 4],
     weighted |-> [DefaultConfig EXCEPT !.weighted = TRUE]]

\* Mutant: the cap of the template is submitted as it stands.
BuildUncapped(template, openToAll, optionCount) ==
    [Overrides[template] EXCEPT !.openToAll = openToAll]

\* The cap of a multi-select ballot is lowered to the options there are.
BuildPollConfig(template, openToAll, optionCount) ==
    LET config == [Overrides[template] EXCEPT !.openToAll = openToAll]
    IN  IF ~config.multiSelect THEN config
        ELSE [config EXCEPT !.maxSelections =
                 Max({2, Min({config.maxSelections, optionCount})})]

\* The page's copy of the library's rules, without those of governance.
ValidateConfig(c) ==
    /\ c.multiSelect => c.maxSelections >= 2
    /\ c.weighted => ~c.openToAll
    /\ c.commitReveal => c.revealWindowSeconds # 0 /\ ~c.delegable

\* What initialize asks of a configuration, besides the library's verdict.
Initializable(c, optionCount) ==
    /\ Validate(c) = "ok"
    /\ c.multiSelect => c.maxSelections <= optionCount

-----------------------------------------------------------------------------
\* A list that is served holds every poll that was on chain a time to live
\* before it was asked for, however slow its read was and however many readers
\* shared it (a poll whose own read failed is missing: Summarised), when the
\* time to live is not 0.
ListIsRecent ==
    \A r \in Readers : \A i \in DOMAIN polls :
        LET n == holds[r].read
        IN  n # 0 /\ promise[n].status = "ok" /\ polls[i].at + Ttl <= holds[r].askedAt
            => \E row \in promise[n].value : row.poll = i

\* When the button can be pressed the factory takes the poll, the allowlist it
\* may keep aside: the deadline is still ahead, and the page's verdict on each
\* configuration a reader can put together is that of the contract.
OfferedIsAccepted ==
    SubmitOffered =>
        /\ MayCreate(Wallet) => Creatable(Wallet, form)
        /\ \A template \in DOMAIN Overrides, openToAll \in BOOLEAN, n \in 2 .. 5 :
              LET c == BuildPollConfig(template, openToAll, n)
              IN  ValidateConfig(c) <=> Initializable(c, n)

\* A reload brings back what is on the page whenever the page says that it is
\* saved, refusals of the storage included.
SavedIsStored == draftSaved = "yes" /\ saveTimer = Nothing => draft = form

\* What was discarded, or has become a poll, does not come back by itself: no
\* autosave that was pending at that moment, and no reload, restores it.
NothingComesBack == gone \cap {form, saveTimer, draft} = {}

\* The page's word about the draft is kept: what it calls saved is stored, and
\* what it dropped stays dropped.
DraftIsKept == SavedIsStored /\ NothingComesBack
=============================================================================
