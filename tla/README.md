# A TLA+ model of the Pilot agent

Pilot is an autonomous agent that runs as a module of a Logos host: it holds a
wallet, offers skills to other agents over an encrypted message network (A2A),
hires them, and pays - within limits its owner sets, and with the owner's
approval above them.  This directory is a formal model of the agent's core: how
it decides about money, whom it listens to and whom it believes, how messages
reach it, and how its identity and its wallet survive; with the model checker
runs and the proofs that show what it guarantees.  The reference is the code under `src/pilot-module/src`;
where a document or a comment says something else, the difference is a run of its
own (see *Where the code and the documents differ*).

## The system

### Components

| Component | Code | State | Operations |
|---|---|---|---|
| spending gate | `pilot_spending.cpp` | table `spend_requests`, the three limits | `walletSend`, `holdForApproval`, `executeSpend`, `approveSpend`, `rejectSpend`, `releaseHeldSpend`, `expireStaleSpends`, `getPendingSpends`, `setSpendingLimits` |
| outbound A2A | `pilot_a2a.cpp` | table `outbound_tasks` | `agentTask`, `agentCancel`, `agentSubscribe`, `settleOutboundReply`, `outboundTasksRecover`, `programCall` |
| inbound A2A | `pilot_a2a_inbox.cpp` | table `inbound_tasks`, `pinned_request_identities` | `processInboundRequest` (send, sendSubscribe, cancel), `resumeInboundTask`, `replyToPeer`, eviction, `inboundTasksRecover` |
| restart and recovery | `pilot_identity.cpp` (`initialize`) | the order of recovery | `initDatabase`, the two `...TasksRecover`, `reconcileExecutingSpends`, `loadIdentity`, `recoverPendingTransactions` |
| identity, wallet, funding | `pilot_identity.cpp` | tables `agent_identity`, `config`; the wallet's files | `createIdentity`, `initWallet`, `resetStaleIdentity`, `fundAgentIfNeeded` |
| discovery | `pilot_a2a.cpp` | `discovered_agents`, `pinned_identities` | `handleDiscoveryCard`, `verifyCardStatus`, `matchedCardLogos`, eviction |
| message intake | `pilot_impl.cpp`, `pilot_a2a.cpp` | `seenStoreHashes_`, `storePollSinceNs_` | `handleInboundMessage`, `pollStore` |
| subscriptions | `pilot_impl.cpp`, `pilot_a2a.cpp` | `subscribedTopics_`, `openForHire_` | `subscribeIdentityTopics`, `agentOpenForHire`, `agentCloseForHire` |
| owner channel | `pilot_owner.cpp`, `pilot_impl.cpp` | `owner_channel`, `ownerQueue_` | `establishOwnerChannel`, `sendToOwner`, `verifyOwnerMessage`, `ownerCommand`, `drainOwnerQueue` |
| conversation | `pilot_impl.cpp` | `chatHistory_`, `llmInFlight_` | `processOwnerMessage`, `agentAsk` |
| storage, messaging, skills, status, cryptography | the other files of the module | their tables | reads, transfers of files and messages, dispatch |
| owner client, command line, user interface, scripts | `pilot-owner`, `pilot-cli`, `pilot-ui`, `agents` | none that the agent trusts | they send the requests above |

### How the components interact

The module has **one thread**.  A call into another module (the wallet
`lez_core`, the network `delivery_module`, an LLM) blocks on a *nested Qt event
loop* that keeps serving calls and events.  So components never run in parallel,
but any call parked at an RPC may be interrupted by a whole other call, which
finishes before the first one goes on; and that one may be interrupted in turn.
All durable state is in one SQLite database; each `UPDATE` commits by itself,
except the few `BEGIN IMMEDIATE ... COMMIT` blocks.  The wallet is another
process: a transfer it accepted goes on when the caller stops waiting, or dies.
Messages come two ways, pushed by the delivery module and polled from a relay's
store, and end in the same handler.

What is hard here is therefore: writes made after an RPC from state read before
it; at-least-once, unordered messages; two-step updates across tables with a
crash between the steps; timeouts of transfers that finish later; and a recovery
that is itself interrupted, by requests and by crashes.

### What makes each component correct

* *Spending gate*: money moves only after a decision (limits or owner), once per
  decision; the period budget is never promised twice; a held request is decided
  or expires; a started transfer gets an outcome.
* *Outbound tasks*: a task is settled through one request; it reads `paid` only
  if money moved; it never waits for a request that nobody can decide.
* *Inbound tasks*: a stranger's request never moves money without the owner; a
  final answer stays final; a withdrawn task cannot be approved.
* *Recovery*: no row is stranded, nothing in doubt is repeated or forgotten, and
  it terminates; what a crash leaves settling for good is known step by step.
* *Inbound server*: a peer is heard under one key; while its row exists, a task is
  worked on once and its final answers agree; quotas hold whatever is evicted.
* *Owner channel and conversation*: an owner message is acted on once, in order,
  and never forgotten in the queue while the process lives; only the pinned owner
  is heard; an answer stands behind its question; strangers never nest in the model.
* *Discovery*: the card that will pay a hired peer stays valid and cached; a
  settlement pays whom we hired or nobody.
* *Message intake and subscriptions*: the store's windows repeat and lose nothing
  they should not; the agent listens where its card says.
* *Identity*: an identity with a backup is given up for no other reason than the two
  stated under the differences; one is made at a time;
  the keys of the identity and of its money survive in a file; `funded` is true.

`PROJECT.json` lists, under `hazards`, each place in the code where one of these
could go wrong in a way a test would hardly reach.

## The modules

```
SpendLedger                      abstract: grants and payments
Spending                         spend_requests, the gate, the owner, the wallet, the call stack
  TaskPayments    (extends)      A2A settlement and inbound wallet-send tasks
    PilotAgent    (extends)      crash, restart, recovery; Spec and FairSpec
      MCPilotAgent               TLC instances
      PilotAgentProofs           types, grants and movements, the refinement
        RecoveryProofs (extends) no transfer is stranded; totals, and the budget
        TaskProofs (extends)     what becomes of the tasks behind requests, and what
                                 reads paid was paid
          SettlementProofs       (extends both) no settlement is forgotten; while a
                                 process lives nobody waits in vain

EventLoop                        the stack of activations on the one thread
  InboundServer   (extends)      tasks of strangers that move no money
    Conversation  (extends)      the owner's messages and the language model; ServiceSpec
      MCConversation             TLC instance
      ServiceProofs              whom the agent listens to, rows, answers, quotas
        ConversationProofs (extends)  the owner's queue and the history
  Discovery       (extends)      cards, pins, hires and whom a settlement pays
    MessageIntake (extends)      push and poll, open for hire; IntakeSpec
      MCMarket                   TLC instances
      MarketProofs               cards of hires, payees, windows of the store, subscriptions
  Identity        (extends)      start, wallet, identity, funding; IdentitySpec
    MCIdentity                   TLC instance
    IdentityProofs               the identity and its keys are kept, one at a time
```

`Spending` is written to be extended: its actions leave what they do not touch
`UNCHANGED`, and its variables already hold the two task tables, because an owner
decision writes them too (`AdvanceLinked`, `ResumeInbound`).  `EventLoop` is the
same idea of nested activations, on its own, for the components that share no
table with the spending gate.  The four compositions (money, service, market,
identity) meet only through what one takes from another: a settlement of
`TaskPayments` is one step of `Discovery`; what a peer's message does in
`InboundServer` or `TaskPayments` is a wait in `MessageIntake`; the recovery of
`PilotAgent` begins when the identity of `Identity` is there.

### Money: from code to state and actions

| Variable | Code |
|---|---|
| `spend[s]` | row of `spend_requests`: `state`, `amount`, `created_at` (`expires_at` is `at + ApprovalWindow`) |
| `out[o]` | row of `outbound_tasks`: `state`, `price`, `spend_request_id` |
| `inb[i]` | row of `inbound_tasks` with skill `wallet-send`: `state`, `spend_request_id` |
| `frame`, `depth` | the activations of the module, innermost last; `pc` is the next step, `s`, `t`, `ok`, `todo` its locals |
| `phase` | no process, database open, identity loaded |
| `orphan` | transfers the wallet still works on and nobody waits for |
| `moved`, `autoGrants`, `ownerGrants`, `surfaced` | history variables: what the wallet did, who let it through, what the owner was told |

An activation of the model is a call of the code cut at its RPCs and at its
commits.  Only the top frame runs, and a new call may begin only when it waits
(`Served`).  Between two RPCs a call cannot be interrupted, but it can die, so
each commit is still an action.  Calls that do nothing after their last RPC
(`programCall` over the limit, `agentCancel`, a late `/approve`) need no frame.
The values read before an RPC and used after it are in the frame; writes that
the code makes unconditionally after an RPC (`HoldNotified`, `ParkTask`,
`RecordSettlement`) are unconditional in the model.

| Code | Actions |
|---|---|
| `walletSend`, `programCall` | `WalletSend`, `ProgramCallHeld`, then `GateExecute` or `GateHold`, `HoldNotified` |
| `executeSpend`, `doTransfer` | `ExecuteApproved`, `WalletMoves`, `TransferConfirmed`, `TransferRefused`, `TransferLost`; `LateMove`, `LateFailure` for the job left behind |
| `approveSpend`, `rejectSpend` | `Approve`, `ApproveTooLate`, `Reject`, then `ResumeTask`, `AdvanceTask` |
| `getPendingSpends` / `expireStaleSpends` | `ExpireStale`, then the same two for each request |
| `agentTask`, `agentCancel` | `SubmitTask`, `CancelTask` |
| `settleOutboundReply` | `CompletedUnpaid`, `CompletedPayable` (claim, create and link are one transaction), the gate, `ParkTask`, `RecordSettlement`; `NegativeReply`, `RetractHeld` |
| `processInboundRequest` | `AcceptWalletSend`, `RefuseWalletSend`, `HoldInbound`, `Announced`; `PeerCancels`, `ReleaseHeldSpend` (two transactions) |
| `initialize` | `Boot`, `HealUnlinked`, `ReconcileSettling`, `MarkUnknown`, `UnknownAdvance`, `UnknownResume`, `SurfaceUnknown`, `LoadIdentity`, `RecoverPending` |

### Service: `InboundServer` and `Conversation`

| Variable | Code |
|---|---|
| `row[t]` | row of `inbound_tasks`: `state`, `sender_npk`, `skill`, `created_at` |
| `keyPin[s]` | `pinned_request_identities` |
| `llm` | `llmInFlight_` |
| `ownerPin`, `lastNonce`, `bound` | `config` rows `owner.signing_key`, `owner.last_nonce`, `owner.npk` |
| `queue`, `draining`, `timer` | `ownerQueue_`, `ownerDraining_`, the `singleShot(0)` that was armed |
| `chat` | `chatHistory_` |
| `runs`, `evicted`, `served`, `crowded`, `answers`, `signers`, `accepted`, `order` | history variables |

| Code | Actions |
|---|---|
| `processInboundRequest`, tasks/send | `Send`, then `TooMany`, or with the eviction `AnswerPing`, `RefuseAsk`, `Unsupported`, `ParkForOwner`, `AskStarts`, `AskRefused`; `AnswerAgain` for a redelivery |
| the completion of agent-ask | `AskStarts` to `AskReturns`; what is served in between is any other action |
| tasks/cancel | `Cancel` |
| `inboundTasksRecover` | `Restart` |
| `agentAsk` from `dispatchSkill` | `ClientAsks`, `ClientAnswered` |
| `verifyOwnerMessage`, `queueOwnerMessage` | `SignedArrives`, `PlainArrives`; `BindOwner` for `metaConfigure` |
| `drainOwnerQueue` | `DrainFires`, `TakeNext`, `Answered`, `DrainEnds` |
| `processOwnerMessage` | `TakeNext` or `ClientChats`, then `TurnEnds` |

### Market: `Discovery` and `MessageIntake`

| Variable | Code |
|---|---|
| `pinned[n]`, `card[n]`, `seenAt[n]` | `pinned_identities`; `discovered_agents`: `card_json`, `last_seen` |
| `hire[h]` | row of `outbound_tasks` as far as it names a peer: open, awaiting the owner, settled; whom it paid |
| `stored`, `sent` | the relay's store: messages and their timestamps |
| `seen`, `since` | `seenStoreHashes_`, `storePollSinceNs_` |
| `open`, `persisted`, `subscribed`, `listening` | `openForHire_`, `config a2a.open_for_hire`, `subscribedTopics_`, what delivery serves |
| `handed`, `pushed`, `forgets`, `excused`, `floor`, `raced` | history variables |

| Code | Actions |
|---|---|
| `handleDiscoveryCard`, `a2aCacheDiscoveredCard`, `verifyCardStatus` | `Learn`, `Cache`, `Pin`, `Status` inside `Note`; `Import` for `agentImportCard` |
| `agentTask`, `settleOutboundReply`, `matchedCardLogos` | `Hire`, `Settle` with `Payees`, `Decide` |
| `onMessageReceived` | `Pushed`, `PushHandled` |
| `pollStore` | `AgentPoll` or `AgentDiscover`, `Fetched` or `FetchFails`, `ReadNext`, `Handled`, `PollEnds` |
| the rest of `agentDiscover` | `Armed`, with `EvictCards` |
| `agentOpenForHire`, `agentCloseForHire`, `agentCard` | `OpenForHire`, `CloseForHire`, `AgentCard` |
| `subscribeIdentityTopics` | `Subscribe`, `Subscribed`, `Unsubscribe`, `Unsubscribed`, `ReconcileEnds` |
| a start of the process: `inboundTasksRecover`'s `a2aEvictDiscoveryCache`, the first subscription | `Restart`, with `EvictCards` |

The loop that unsubscribes holds an iterator across its call of delivery.  When
the list changed under it, what it erases afterwards is undefined: `Unsubscribed`
then removes any entry or none.

### Identity: `Identity`

| Variable | Code |
|---|---|
| `ident` | `agent_identity.account_id` |
| `funded`, `faucet` | `config funded`, `config funding.public_account` |
| `main`, `bak` | `wallet_storage.json`, `wallet_storage.json.bak`: absent, damaged, or a wallet with keys |
| `wallet` | the wallet process: the file it has open and the keys in its memory |
| `opened`, `initialized`, `agent` | `walletOpened_`, `initialized_`, `agentAccountId_` |
| `holding`, `landed` | the chain: where the money is |
| `minted`, `aborted`, `unbacked`, `spurned`, `stray`, `answered` | history variables |

| Code | Actions |
|---|---|
| `initialize`, `walletProof` | `Initialize`, `WalletProof`, `Ask`, `Checked`, `CheckLost`, `IdentityMade`, `Done` |
| `initWallet` | `Pinged`, `OpenMain`, `OpenBackup`, `Promote`, `Triage`, `CreateWallet`, and for each call its loss (`PingLost`, `OpenMainLost`, `OpenBackupLost`, `CreateFails`) |
| `resetStaleIdentity` | `Reset`, `Forget` |
| `createIdentity` | `Mint`, `MintFails`, `KeysRead`, `StoreIdentity`; not its four key rows |
| `backupWallet` | `Save`, `Copy` |
| `fundAgentIfNeeded` | `BalanceRead`, `CreatePublic`, `Registered`, `PinataClaimed`, `ClaimFails`, `Remember`, `Transfer`, `Verified` |
| faults | `Crash` of the agent, the wallet or both; `FileFault` |

### Abstractions

*Money.*  Amounts are members of a small set of naturals; recipients, reasons,
texts and keys are left out.  Replies and inbound requests are already decrypted
and authenticated.  An answer of the wallet is success, failure or nothing.  A
notification is a wait that may be impossible (no channel, or a key that cannot
be encrypted to); whether the owner reads it is not modelled.  Ids are not
reused: `generateId` draws 64 random bits.  Eviction of old rows lies beyond the
time bound.

*Service.*  A signature is the key it verifies under; what cannot be verified is
dropped and changes nothing.  A completion ends in an answer or an error.  A
handler that has no state left to change but its reply's RPC is over.  No
completion lasts as long as a row's time to live.  The code reads the clock when
it inserts, counts and evicts; the model lets no tick pass while something runs without
waiting, so the three agree (a second that begins between them would shift the window by
that second).  A plain text and a text of the
local client are one value each, so their repetition is not told apart.

*Market.*  A card is its identity, its signing key, the verdict on its signature
and the account it asks for; the spelling of an identity and the identity itself
are told apart (`Same`).  Group topics are polled as the owner's is and behave
alike.  A message lands in the store at most `Overlap` after its timestamp (what
lands later than the code's 60 seconds is not promised to be read), and is pushed
after it landed.  Calls reach the delivery module in the order of their issue and
are not lost, even when their answer is.  `subscribedTopics_` is a set.

*Identity.*  Keys of an account exist in the wallet's memory and in files; the
wallet writes its memory to the file it opened, all of it or nothing.  A wallet with
no file open has no account: asked for one, it answers with an error or with nothing,
and the code takes nothing for "it lacks the account".  A file that the agent itself
was copying when it died is as it was, or damaged.  `createIdentity` writes the four
key rows after the identity one by one (`pilot_identity.cpp:659-679`); they are not
modelled, and nothing is claimed of the keys the agent signs and decrypts with.

Four history variables mark what the code does not keep, and the properties except
just that: `unbacked`, accounts of `pilot.db` whose keys the last `backupWallet` did
not carry to the backup, or which a crash in one left in fewer than both files;
`spurned`, accounts in an intact backup that was passed over, because it refused to
open, did not answer or came to be after the agent looked; `stray`, a reset cut in two
by a crash, or an account left without its keys; `answered`, whether the open wallet
was heard to have the account.  The first two are cleared when an identity is given
up.  `IdentityKept` has a third exception, read from the state (`Unopened`): a wallet
that the agent did not open, or that died since, was asked.  Each of these is a
difference listed below.

## What is checked

Deadlock is not checked: an agent without requests rightly does nothing, and the
clock, the identifiers and the events run out.  The first three runs and the
first five of the last table use `MCPilotAgent`.

| Run | Properties | Shows |
|---|---|---|
| `payments` | `MovesCoveredByGrants`, `InboundNeverAutonomous`, `WaitingTaskHasOpenSpend`, `AutonomousWithinBudget`, `WithdrawnNeverGranted`, `SettledThroughOneSpend`, `LedgerSpec` | one living process, calls nested three deep: replies, approvals, expiries and cancels served in the middle of transfers and notifications, over more than one spending period |
| `crashes` | `AgentTypeOK`, `AutonomousWithinBudget`, `PaidMeansMoved`, `NoStrandedExecution`, `SettlingReconciled`, `InboundTerminalFinal` | two crashes anywhere, the second also in the middle of recovery |
| `liveness` | `EveryHeldRequestDecided`, `EveryTransferResolved`, `EverySettlementEnds`, `RecoveryCompletes` | progress under `FairSpec`, with a crash |
| `service` | `ConversationTypeOK`, `AnswersAgree`, `RerunOnlyAfterEviction`, `FloodBound`, `StrangersNeverNest`, `OneKeyPerSender`, `OwnerMessageOnce`, `OwnerInOrder`, `PairsTogether`, `QueueIsWatched`, `OnlyThePinnedOwner` | strangers' tasks and the owner's messages on one event loop, with eviction and crashes |
| `market` | `IntakeTypeOK`, `CardOfHireKept`, `PaidWhoWasHired`, `HandledOnce`, `PassedForAReason`, `ReconciledUnlessRaced` | polls, pushed messages, cards, hires and the open-for-hire decision, nested, with restarts |
| `boot` | `IdentityTypeOK`, `KeysOutliveTheWallet`, `MintedForAReason`, `FundedMeansLanded`, `PairedWithWallet`, `IdentityKept` | starts against a wallet that may not answer, refuse its file, be damaged or die between any two steps |

### Bounds and why they are enough

*Money.*  Two requests, one outbound and one inbound task: every rule of the code
is about one request and the tasks linked to it, or about two requests that
compete (for the budget, for the stack); linking is by identifier, and the
identifiers are interchangeable (symmetry; not used in the liveness run, where it
would be unsound).  `MaxDepth` 3 in `payments` lets a call interrupt a call that
interrupted a third (a reply during an approval during a settlement); with two
requests a deeper stack only repeats.  `MaxTime` 1 or 2 with `ApprovalWindow` 0 or
1 reaches both sides of the expiry and, with `Period` 1, of the budget window.
`LastArrival` keeps new requests from arriving at the very end, where nothing
could follow.  `MaxCrashes` 2 covers a crash of the recovery from a crash.  All
amounts are 1 and the second request is over the period's limit; the theorems
hold for every amount and limit.

*Service.*  Three tasks of one sender against a quota of two tasks and one
completion per window, a row cap of one, and a window and a row's life of one tick in a time
of two: each limit is passed, windows overlap, and rows are evicted while others are in work.  Two peer
keys and two owner keys give each pin a contradiction.  Senders do not share
state, except the in-flight counter, which the owner and the local client contend
for too.  Nonces to 2 allow lower, equal and higher ones; a history of two
entries is trimmed at every turn.  `MaxDepth` 3 nests a completion in a drain in
a completion; five outside events suffice for the longest scenario (three
messages and a crash inside an answer).

*Market.*  Two spellings of one identity with their genuine cards and a forgery
under another key; one hire; a cache of one card, so that every eviction bites; a
forged card and a task from the network; a page of one message and a memory that
forgets as soon as it can.  `Overlap` 1 in a time of 2 puts messages before,
inside and after a window; the first poll of a process looks back over all of it.
Depth 2 nests one operation in another: every hazard here is between two.
`Searched` holds the default topic only, which `agentDiscover` reads unless it is
told otherwise; another one would move the same windows.  Four events: two operations, one more that finds what they left, and a restart.

*Identity.*  Three private accounts, so that an identity may be given up twice;
two public ones for a claim and its retry; a `walletProof` inside an `initialize`;
four calls and three faults, enough for a first start, its crash, a damaged file
and two recoveries.

### Fairness

`FairSpec` assumes: the running activation goes on; calls to the wallet and to
delivery return (each carries a timeout in the code); the clock runs; a dead
module is started again by its host; and the owner's client keeps asking for the
status or the pending list.  The last one is an assumption about the
environment and needed: expiry has no timer, only `getPendingSpends` (called by
`metaStatus`, the command line's status line and the dashboard) drives it.
Nothing is assumed about the owner deciding, the wallet moving money or peers
answering.  The other specifications state no fairness: what must happen there
is stated as safety, e.g. `QueueIsWatched`, that a queued owner message always has
a drain that runs or is due.

### Where the code and the documents differ

Six statements of the repository have a run each, whose counterexample is a schedule
of the code that does not keep them:

| Run | Statement | What happens |
|---|---|---|
| `at_most_once` | a request is paid at most once | `holdForApproval` re-opens a request that was approved and paid while its notification was being sent |
| `never_orphaned` | a task is never orphaned in `awaiting-approval` | a late `/approve` expires the request and forgets the task |
| `withdrawn_crash` | a withdrawn task cannot be approved | a crash between canceling the task and releasing its request |
| `unknown_surfaced` | an interrupted spend is surfaced on the next start | recovery notifies before the owner channel is loaded |
| `failed_never_moved` | the money of a `TX_FAILED` request did not move | the wallet finishes after the caller's ceiling |
| `poll_skips` | polling is as good as being told: overlapping windows skip nothing | `agentDiscover` reads one topic and moves the window of all of them |

This is why `MovesCoveredByGrants` counts movements per *decision* and not per
request, why `AutonomousWithinBudget` leaves `TX_FAILED` requests out, why
`WaitingTaskHasOpenSpend` admits `EXPIRED`, why `WithdrawnNeverGranted` is a
property of the run without crashes, and why `PassedForAReason` excuses messages
that a poll did not ask for.

Differences that have no run of their own; the properties named except the exact
states they lead to:

* A crash between the commit of `TX_UNKNOWN` and the report to the task
  (`pilot_spending.cpp:657`, `665`) leaves the task 'settling' on every later start:
  recovery selects rows in `EXECUTING` only, and `outboundTasksRecover` compares with
  other final states.  The comment at 628-631 says that it becomes 'pay-unresolved'.
  `SettlingReconciled` admits this state only where the process died at that very step.
* `initialize` ignores the `false` of `initWallet` (`pilot_identity.cpp:144`) and asks
  the wallet all the same; an empty answer without an error, from a wallet with no file
  open or with an older one, resets the identity (155-160).  The comment at 148-151 says
  that only a wallet positively known to lack the account does.  (`IdentityKept`,
  `Unopened`)
* With the main file lost or damaged, a backup that refuses to open, or whose open
  stays unanswered, is passed over: the wallet is made anew and the identity given up
  with an intact backup beside it (538-568), where 536-537 say that money is never lost
  to a fresh account.  (`IdentityKept`, `spurned`)
* After a restore the wallet has the backup file open, so `save` writes the backup; the
  copy then puts the older main file over it (421-430, 538-541), and the keys made since
  the restore are lost when the wallet restarts, on every such save and without any
  crash.  (`KeysOutliveTheWallet`, `IdentityKept`, `unbacked`)
* `docs/security-model.md:133` says that requests in `CREATED` are re-announced
  after a crash; `recoverPendingTransactions` announces `HELD` and `NOTIFIED` only.
* A named discovery topic is polled and subscribed, but `handleInboundMessage`
  drops cards on every topic but `/pilot/1/discovery/proto`, and the cache files all
  cards under that one: `agentDiscover` with a name finds nothing, ever.
* `subscribeIdentityTopics` says above its loop that a topic is recorded only when
  delivery confirms it, and inside that it is recorded always; the model does the
  latter.
* Two overlapping `agentOpenForHire` and `agentCloseForHire` can leave the agent
  subscribed where it believes it is not, until the process ends:
  `ReconciledUnlessRaced` excepts it.
* A turn whose completion failed leaves a user entry without an answer, and
  trimming two entries then shifts the history: roles do not always alternate,
  as the comment at `pilot_impl.cpp:908` hopes.  `PairsTogether` is what does hold.

## What is proved

Eight modules hold theorems, all for every value of the constants: any number of
requests, tasks, peers, cards, messages, accounts and crashes, all amounts and limits, any
depth of nesting and any time.  A hypothesis in the statement says where the code
keeps its promise only under a condition: `WithdrawnStaysClosed` for specifications
without crashes, as the run `payments`, `WaitingStaysOpen` up to the first crash
(both fail after one).

| Theorem | Statement |
|---|---|
| `PilotAgentProofs!TypeCorrect` | `Spec => []AgentTypeOK` |
| `PilotAgentProofs!GrantsCoverMoves` | `Spec => []MovesCoveredByGrants` |
| `PilotAgentProofs!ImplementsLedger` | `Spec => LedgerSpec`, the refinement of `SpendLedger` |
| `TaskProofs!InboundWaitsForOwner` | `Spec => []InboundNeverAutonomous` |
| `TaskProofs!OneSpendPerTask` | `Spec => SettledThroughOneSpend` |
| `TaskProofs!FinalAnswers` | `Spec => InboundTerminalFinal` |
| `RecoveryProofs!NoneStranded` | `Spec => []NoStrandedExecution` |
| `RecoveryProofs!SpendsWithinBudget` | `Spec => []AutonomousWithinBudget` |
| `TaskProofs!PaidWasMoved` | `Spec => []PaidMeansMoved` |
| `SettlementProofs!NoSettlementForgotten` | `Spec => []SettlingReconciled` |
| `SettlementProofs!WaitingStaysOpen` | `Spec => [](crashes = 0 => WaitingTaskHasOpenSpend)` |
| `SettlementProofs!WithdrawnStaysClosed` | `MaxCrashes = 0 => (Spec => WithdrawnNeverGranted)` |
| `ServiceProofs!OwnerHeardOnce` | `ServiceSpec => []OwnerMessageOnce` |
| `ServiceProofs!PeerKeyStays` | `ServiceSpec => []OneKeyPerSender` |
| `ServiceProofs!StrangersWait` | `ServiceSpec => []StrangersNeverNest` |
| `ServiceProofs!AnswersNeverConflict` | `ServiceSpec => []AnswersAgree` |
| `ServiceProofs!RerunsFollowEvictions` | `ServiceSpec => []RerunOnlyAfterEviction` |
| `ServiceProofs!QuotaHolds` | `ServiceSpec => []FloodBound` |
| `ConversationProofs!ConversationTyped` | `ServiceSpec => []ConversationTypeOK` |
| `ConversationProofs!QueuedIsServed` | `ServiceSpec => []QueueIsWatched` |
| `ConversationProofs!AnsweredInOrder` | `ServiceSpec => []OwnerInOrder` |
| `ConversationProofs!AnswersStayPaired` | `ServiceSpec => []PairsTogether` |
| `ConversationProofs!PinnedOwnerOnly` | `ServiceSpec => OnlyThePinnedOwner` |
| `MarketProofs!HiredCardStays` | `IntakeSpec => []CardOfHireKept` |
| `MarketProofs!PaysTheHired` | `IntakeSpec => []PaidWhoWasHired` |
| `MarketProofs!StoreHandsOverOnce` | `IntakeSpec => []HandledOnce` |
| `MarketProofs!IntakeTyped` | `IntakeSpec => []IntakeTypeOK` |
| `MarketProofs!PassedWithReason` | `IntakeSpec => []PassedForAReason` |
| `MarketProofs!ListensWhereSaid` | `IntakeSpec => []ReconciledUnlessRaced` |
| `IdentityProofs!KeptForGood` | `IdentitySpec => IdentityKept` |
| `IdentityProofs!IdentityTyped` | `IdentitySpec => []IdentityTypeOK` |
| `IdentityProofs!MintedOnce` | `IdentitySpec => []MintedForAReason` |
| `IdentityProofs!FundedHasLanded` | `IdentitySpec => []FundedMeansLanded` |
| `IdentityProofs!PairedWhenHeard` | `IdentitySpec => []PairedWithWallet` |
| `IdentityProofs!KeysStay` | `IdentitySpec => []KeysOutliveTheWallet` |

The assumptions are those the modules state: `SpendingAssumption` (identifiers
are a finite set, amounts and limits are naturals, at least one activation),
`CrashAssumption`, `LoopAssumption`, `ServerAssumption`, `ConversationAssumption`,
`DiscoveryAssumption` (there are finitely many spellings of identities, and
cards are records of them), `IntakeAssumption` (the topics named after our keys are
none of the others: their names start with `/pilot/1/inbox-`) and
`IdentityAssumption`; TLC
evaluates them in the runs.

### The arguments

*Grants and movements.*  `MovesCoveredByGrants` is itself inductive once types are known:
it charges each request with the movements made, the transfers the wallet still
holds (`orphan`) and the activations that will hand the request to the wallet
(`InFlight`), and the stack makes that count exact.  Three kinds of step remain:
a *quiet* step leaves the charged number alone or lowers it
(`TransferRefused`, `Return`); a *transfer* of the charge keeps the sum (an
activation becomes a movement, an orphan, or, at a crash, several of both); and a
*grant* raises both sides by one (`GateExecute`, `Approve`).  The lemmas on
`Begin`, `Become` and `Return` say what they do to `InFlight`; the rest is one
case per action.  The refinement follows: a step that raises `moved` is a
`WalletMoves` or a `LateMove`, whose activation or orphan shows that `moved` was
below the grants before.

*Tasks* (`TaskProofs`, invariant `TaskInv`).  That an inbound request is never let
through by the limits is not inductive: nothing in it says that the request is
not at the gate right now.  `LinkInv` adds that what is at the gate is linked to no
inbound task, and that a request that does not exist was never let through, so
that a fresh one is not either; `HoldInv`, that between the acceptance of a
wallet-send task and its request nothing is served, so the task is still
`accepted` when it gets its request; `ClaimInv`, that a task which can be claimed
has no request, so a claim never replaces one.  Most steps are *quiet*: they
change none of what these say (`QuietKeeps`).

*Recovery* (`RecoveryProofs`, invariant `StrandInv`).  Which activation holds a row
in `EXECUTING`?  One that waits for its transfer, or recovery, which will still come
to it: it has not selected its rows yet, or the row is on its list and is not the
one it has just moved to `TX_UNKNOWN` (`WillReach`).  Recovery is the first
activation of a process and runs exactly in phase `db` (`BootInv`); requests served
in its middle start transfers of their own and end them or die with it.  *Calm*
steps leave recovery where it is and every other transfer waited for.

*Budget* (`RecoveryProofs`, invariant `BudgetInv`).  The property adds what the limits
let through; the gate reads another sum, of what is spent or committed in the period
(`periodSpent`).  The first is part of the second when the gate reads it, because what
the limits let through is executing, completed, failed or of unknown fate, and never
goes back to waiting for the owner (`PassedInv`).  That is what takes an argument: `holdForApproval` and
`executeSpend` write the state of a request after a wait, whatever happened to it
meanwhile.  So `AskInv` says that an activation at the gate, or waiting for its
notification, has a request that was not let through, and that one in the wallet's hands
which was let through has not failed yet; and `GateInv` that only the innermost
activation is at the gate, with a request no other activation asks for or handed to the wallet,
so a request the limits let through has one transfer and one outcome.  (A request the
owner approved may have two: `at_most_once`.)  `TX_FAILED` is therefore final for what was let through, and
a failure only takes its amount out of the sum.  Most steps are *tame* and can only
lower the sum (`TameKeeps`); `GateKeeps` is the one that raises it, and shows that
the new amount and all of `periodSpent` are together within the limit.

*Totals* (`RecoveryProofs`).  A sum over a finite set calls for induction, and the
library's induction theorems take an operator, which the provers cannot be given.  The
lemmas about `Total` go by the smallest counterexample instead: among the subsets
for which a fact fails, one has no smaller one (`SmallestSubset`, since inclusion is well founded on the
subsets of a finite set), and each fact follows for it from the sets below it.
So the recursive function that `MapThenSumSet` chooses exists (`AdderExists`), a total of
naturals is a natural, any element may be taken out first (`TotalTakes`), and less to
add is a smaller total (`TotalGrows`).

*What was paid* (`TaskProofs`, `PaidInv`).  `PaidMeansMoved` says nothing of the
activation that is about to write `paid`; `FrameOK` does: one that reports success
has seen the money of its own request move, a settlement's request is that of its
task (which `OneSpend` of `TaskProofs` keeps so), and a list that will be told of
success holds only requests that moved.

*Settlements* (`SettlementProofs`, `SettleInv`, on top of those).  A task that is
`settling` is tended to (`Tended`): its request runs; or an activation is, or was
when the process died, at the step that will move the request on (`CutAt`, recorded in
`cut`); or the request has an outcome and the task is *owed* a word (`Owes`): by its
settlement, by the approval that executes the request, by a list that names the
request, or by recovery until it has compared the two tables.  `TX_UNKNOWN` is not
among the outcomes compared, which is why it stands with the cut ones.  Each step that gives
an outcome must show who owes it: the wallet's answer does by its caller, which
needs that a request is that of one task only and that a plain send and a
peer's cancel never act for the request of an outbound task (`OwnInv`); an owner's
rejection does by its list; and a return is allowed only to an activation that owes
nothing any more.  When no call runs nothing is owed, `NoStrandedExecution`
excludes the request that still runs, and what is left was cut off by a crash.

*Waiting* (`SettlementProofs`, `LifeInv`, up to the first crash: `crashes = 0 => Living`).  A
task that waits for the owner has a request that can be decided, or is `EXPIRED`, or an
activation will tell the task: it executes an approval, or has the request on its list
(`OutWaits`, `InbWaits`; for an inbound task it tells only until it has resumed it).  A
withdrawn task has no such request, or `releaseHeldSpend` for it is the innermost
activation, which waits for nothing, so that no approval is served before it
(`Released`).  What could break this is an activation that writes a request it looked at
long ago, as `holdForApproval` does; so `FrameKnows` says of each what it still knows
of its request - no inbound task has the one that is held at the gate, no outbound task
waits with one in the wallet's hands except by an approval - and `Apart` that an
activation at the gate never has a request a lower one has in the wallet's hands.  Only
the innermost activation can be outside a wait (`StackKnows`), so each action is a
step of one activation over others that stay (`KeptUnder`), and `LifeKeeps` says
what it has to show.  A crash loses the activations and with them the promise:
`withdrawn_crash` is the counterexample.

*Service* (`ServiceProofs`, `ServiceInv`).  The counter `llm` equals the number of
activations in a completion, which the lemmas on `Push`, `Become` and `Pop` keep; a
stranger's completion starts only at 0, so everything that completes later is
above it.  A message accepted once has a nonce at most `lastNonce`, which only
grows and outlives a crash.  Every key a sender was heard under is the pinned one.

*Rows, answers, quotas* (`ServiceProofs`, `ServerInv`).  A row that is `accepted` belongs
to the innermost activation, whose task it is, and has the age of this second, since
no tick passes it; nothing else runs before it is decided (`RowInv`).  Every answer given
since the row exists is the final state the row has by now, so two answers agree
(`TellInv`): a redelivery clears them only where nothing final was told.  A task was
dispatched at most `evicted` times, and once more if its row has been begun
(`RunInv`).  For the quota, a dispatch leaves a record with its number; as long as no row of
the window was evicted for lack of room, every dispatch of the last `Window` seconds has its
row, of the same sender, skill and second, and no row has two (`QuotaInv`).  So the dispatches
map one to one into the rows that `a2aRecentSkillCount` counts, and those are at
most `ServiceMax` when one more is let through; later windows lose dispatches at
one end before they gain at the other.  Eviction by age takes only rows beyond
the window, which is what `Window <= TTL` in `ServerAssumption` is for.

*Conversation* (`ConversationProofs`, `ConversationInv`).  At most one activation on the
stack drains the queue, and never while the timer is armed; `draining` says that one of
the two is so, and nothing is queued without it (`DrainInv`).  What was accepted and not
yet answered is what the drain has in hand, then the queue (`OrderInv`).  Every signed
message queued or in the history has a nonce at most `lastNonce`, so one that is
accepted is new to both; what is queued, or waits for the model, is not in the history
yet, and goes in behind its question in one step; trimming takes two entries from the
front and shifts the rest (`ChatInv`).

*Market* (`MarketProofs`, `MarketSpecInv`).  A valid card is signed with the pinned
key; pins never change; a card replaces a valid one only if it is valid itself
(`CacheKeepsValid`); eviction spares the cards of open hires.  So the card of an
open hire stays, and as the accounts of all matching cards must agree, a payee
found by any match is the one of that card (`OnePayee`), bound to the identity it
claims.  For the store: `handed[m] <= forgets`, and one more while `m` is
remembered.

*Windows* (`MarketProofs`, `WindowInv`).  A message is accounted for when the store handed
it over, or a poll of this process did not ask for it or had no room for it.  Everything
this process looked back to is accounted for up to `since - Overlap`.  A poll that waits
for its answer holds a window that begins where that was so when it started, and nothing
lands there any more, since a message reaches the store within `Overlap` (`FetchOK`); a
poll that reads has in its hands what it asked for and nobody accounted for (`ReadOK`).
Nested polls start later and so look further, which is why an outer one may set the window
back but never past something: the activations are in the order of their time.  Before the
first window is set, `floor` is how far some poll that still reads looked back, so the
first to end covers it.

*Subscriptions* (`MarketProofs`, `ListenInv`).  As long as no two overlapped, at most one
reconciliation is on the stack; the topics it wants are those of the decision; and
between two of its waits what the delivery module serves differs from the list the agent
keeps by the one topic it is busy with (`RunOK`).  When it unsubscribes, the list is the
one its iterator was made for, so the entry erased is the right one; when it ends, all
three agree.  What `agentDiscover` arms beside it is never a topic of the list:
"discovery" is the first topic a process subscribes to (`DiscoveryFirst`), and keeps.

*Starts* (`IdentityProofs`, `StartInv`).  Only one `initialize` runs at a time, and only it
makes identities: a call that makes one, or is about to (`Maker`), is the innermost one,
works while there is no identity, and is the only one that may go on with an account
that `agentAccountId_` keeps after a reset (`LineInv`, `HeldInv`, `AgentInv`).  So every
account made beyond the first stands against an identity that was given up; what is
verified on the chain is the account of the identity there is; and the account asked
about, if it is the agent's, is that one too.  Where the code leaves the two apart - a
reset between its statements, an account without keys - the invariant says so (`At`
forget, `stray`).

*Identity* (`IdentityProofs`, `CallInv` and `FileInv`, on top of it).  Between two calls of
`backupWallet` the backup has the keys of every account that `pilot.db` names, but for
`unbacked` (`BackedUp`): an account gets into `pilot.db` only by a step that goes on to
save and copy, and the copy enters into `unbacked` what it did not carry.  The main
file, if it opens, has the keys of the identity (`MainOK`), but for those that were
passed over too: a wallet is made anew over a main file only after the identity is gone
(`Anew`), or where there was none, and then the backup was passed over.  So what the
agent opened to check its account has it (`OpenOK`), whichever file that was; and a
reset under way answers to one of the exceptions (`ResetOK`).  This needs that
nobody opens or makes a wallet while one is to be saved: what is served meanwhile finds
it open and has nothing to do (`LateInv`), and a `walletProof` needs an identity, which
only a finished or loaded `initialize` leaves (`Barred`, `Fresh`).  `Turn` and `Follows`
say what any step makes of the activation that takes it, so that `CallInv` is
proved once and not action by action.

Only model-checked: the four liveness properties of the run `liveness`, which are
outside the prover's temporal reasoning.  Every other property of the passing runs is
stated by a theorem above.

## Not modelled

`PROJECT.json` gives the reason for each component.  Storage, messaging, skill
dispatch and the language model's providers are mostly I/O: one call, one row.
Cryptography is taken as perfect.  The clients and scripts appear only through
the requests they send.  Of the modelled components, these parts are left out:
`setSpendingLimits` (the limits are constants), negative and overflowing amounts,
the recipient's rail, `establishOwnerChannel`'s keys, group membership, the
skill and price in a card, and the key rows of `createIdentity`.

## What is left

1. Configuration: the three writes of `setSpendingLimits` with a crash between
   them, once somebody says what should hold after it.
2. Group membership and its keys.
