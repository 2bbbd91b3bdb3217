------------------------------ MODULE Identity ------------------------------
(***************************************************************************)
(* How the agent comes up: initialize, loadIdentity, initWallet,           *)
(* createIdentity, resetStaleIdentity, backupWallet and fundAgentIfNeeded  *)
(* of pilot_identity.cpp, and walletProof of pilot_meta.cpp.  The identity *)
(* is a row of pilot.db and keys in a wallet file that another process     *)
(* reads and writes: each call of that process may stay unanswered, and    *)
(* each of the two processes, and the file, may fail between two steps.    *)
(*                                                                         *)
(* Faults are those the code writes about: no answer, a file that is       *)
(* damaged or gone, one that the wallet refuses though it is intact,       *)
(* crashes.  Nothing but the agent touches the backup file.                *)
(***************************************************************************)
EXTENDS EventLoop, FiniteSets

CONSTANTS
  Privates,        \* private accounts the wallet ever creates
  Publics,         \* public accounts the wallet ever creates
  None,            \* no account
  MaxBoots,        \* bound: calls of initialize and walletProof that do something
  MaxFaults        \* bound: crashes and damaged files

ASSUME IdentityAssumption ==
  /\ None \notin Privates \cup Publics /\ Privates \cap Publics = {}
  /\ MaxBoots \in Nat /\ MaxFaults \in Nat

VARIABLES
  ident,           \* agent_identity.account_id
  funded,          \* config funded
  faucet,          \* config funding.public_account
  main, bak,       \* wallet_storage.json and its .bak
  wallet,          \* the wallet module: the file it has open, the keys in its memory
  opened,          \* walletOpened_
  initialized,     \* initialized_
  agent,           \* agentAccountId_
  holding,         \* chain: public accounts that hold the funding amount
  landed,          \* chain: private accounts that were funded
  boots, faults,
  minted,          \* history: accounts created
  aborted,         \* history: identities given up, or left half made
  unbacked,        \* history: accounts whose keys a backup did not get, or only it did
  spurned,         \* history: accounts in an intact backup that was passed over
  stray,           \* history: money may be recorded for an account that is not in pilot.db
  answered         \* history: the open wallet was heard to have the account

db      == <<ident, funded, faucet>>
files   == <<main, bak>>
memory  == <<opened, initialized, agent>>
chain   == <<holding, landed>>
counts  == <<boots, faults>>
backups == <<unbacked, spurned>>
history == <<minted, aborted, backups, stray, answered>>
vars    == <<stack, db, files, wallet, memory, chain, counts, history>>

Accounts == Privates \cup Publics
NoFile   == [st |-> "absent", keys |-> {}]
Damaged  == [st |-> "damaged", keys |-> {}]
Closed   == [path |-> "none", keys |-> {}]

\* An activation: what it does next, where initWallet and backupWallet go on (then),
\* what follows a reset (after), whether it began with an identity, the account it works
\* with.
Boot(op, then) == [op |-> op, pc |-> "ping", then |-> then, after |-> "create",
                   loaded |-> ident # None, hadMain |-> FALSE, hadBak |-> FALSE,
                   silent |-> FALSE, who |-> None]

\* Where a public account is worked with.
Paying == {"register", "pinata", "remember", "transfer"}

IdentityTypeOK ==
  /\ {ident, agent} \subseteq Privates \cup {None}
  /\ faucet \in Publics \cup {None}
  /\ {main, bak} \subseteq [st : {"absent", "damaged", "wallet"}, keys : SUBSET Accounts]
  /\ wallet \in [path : {"none", "main", "bak"}, keys : SUBSET Accounts]
  /\ {funded, opened, initialized} \subseteq BOOLEAN
  /\ minted \subseteq Accounts /\ landed \cup holding \subseteq minted
  /\ main.keys \cup bak.keys \cup wallet.keys \cup unbacked \cup spurned \subseteq minted
  /\ boots <= MaxBoots /\ faults <= MaxFaults /\ Len(stack) <= MaxDepth
  /\ \A d \in DOMAIN stack : stack[d].pc \in Paying => stack[d].who \in minted

IdentityInit ==
  /\ ident = None /\ funded = FALSE /\ faucet = None
  /\ main = NoFile /\ bak = NoFile /\ wallet = Closed
  /\ opened = FALSE /\ initialized = FALSE /\ agent = None
  /\ holding = {} /\ landed = {} /\ boots = 0 /\ faults = 0
  /\ minted = {} /\ aborted = 0 /\ unbacked = {} /\ spurned = {}
  /\ stray = FALSE /\ answered = FALSE
  /\ stack = <<>>

-------------------------------------------------------------------------------
(***************************************************************************)
(* Activations.  Calls are served while the innermost one waits for the    *)
(* wallet.                                                                 *)
(***************************************************************************)
Waits == {"ping", "open", "restore", "create", "check", "mint", "keys", "save",
          "balance", "claim", "register", "pinata", "transfer", "verify"}

Goto(pc) == Become([Top EXCEPT !.pc = pc])

\* initWallet is called: it has nothing to do when the wallet is open.
Enter(f) == [f EXCEPT !.pc = IF opened THEN f.then ELSE "ping"]

\* Mutant: only a finished initialize keeps the next one out.
FirstCallFinished == ~initialized

\* initialize does something once per process, and not while it is running.
FirstCall == ~initialized /\ \A d \in DOMAIN stack : stack[d].op # "initialize"

Begin(f) ==
  /\ Parked(Waits) /\ boots < MaxBoots /\ boots' = boots + 1
  /\ Push(Enter(f))
  /\ agent' = IF ident # None THEN ident ELSE agent
  /\ initialized' = (initialized \/ ident # None)
  /\ UNCHANGED <<db, files, wallet, opened, chain, faults, history>>

\* initialize: an identity that is there is loaded and checked, or one is made.
Initialize ==
  FirstCall /\ Begin(Boot("initialize", IF ident # None THEN "ask" ELSE "mint"))

\* walletProof loads and opens, and needs an identity.
WalletProof == ident # None /\ Begin(Boot("walletProof", "done"))

Done ==
  /\ At("done") /\ Pop
  /\ UNCHANGED <<db, files, wallet, memory, chain, counts, history>>

-------------------------------------------------------------------------------
(***************************************************************************)
(* initWallet.                                                             *)
(***************************************************************************)
\* fundAgentIfNeeded is called: it needs an identity, money to be wanted and a wallet.
Fund(f, who) == IF who = None \/ funded THEN [f EXCEPT !.pc = "done"]
                ELSE Enter([f EXCEPT !.then = "balance"])

\* createIdentity returns false.  initialize gives up, or funds what it has.
GiveUp == IF Top.loaded THEN Become(Fund(Top, agent)) ELSE Pop

\* initWallet returns false.  initialize ignores that when it has an identity to check.
Closes ==
  CASE Top.then = "ask"  -> Goto("ask")
    [] Top.then = "mint" -> GiveUp
    [] OTHER             -> Pop

WalletFails == Closes /\ UNCHANGED <<db, files, wallet, memory, chain, counts, history>>

\* The wallet opens the file at path.
Opens(path, file) ==
  /\ file.st = "wallet"
  /\ wallet' = [path |-> path, keys |-> file.keys] /\ answered' = FALSE

NextRung(pc, silent) ==
  /\ Become([Top EXCEPT !.pc = pc, !.silent = @ \/ silent])
  /\ UNCHANGED <<db, files, wallet, memory, chain, counts, history>>

\* The wallet answers the ping; which files there are is looked up now.
Pinged ==
  /\ At("ping")
  /\ Become([Top EXCEPT !.hadMain = main.st # "absent", !.hadBak = bak.st # "absent",
                        !.silent = FALSE,
                        !.pc = IF main.st # "absent" THEN "open"
                               ELSE IF bak.st # "absent" THEN "restore" ELSE "create"])
  /\ UNCHANGED <<db, files, wallet, memory, chain, counts, history>>

PingLost == At("ping") /\ WalletFails

\* 1. The main file opens, or is refused, though it may be intact.
OpenMain ==
  /\ At("open")
  /\ \/ /\ Opens("main", main) /\ opened' = TRUE /\ Goto(Top.then)
        /\ UNCHANGED <<db, files, initialized, agent, chain, counts, minted, aborted, backups,
                       stray>>
     \/ NextRung(IF Top.hadBak THEN "restore" ELSE "triage", FALSE)

\* Nobody answers: the file may have been opened all the same.
OpenMainLost ==
  /\ At("open")
  /\ Become([Top EXCEPT !.pc = IF Top.hadBak THEN "restore" ELSE "triage", !.silent = TRUE])
  /\ wallet' \in {wallet} \cup IF main.st = "wallet"
                                THEN {[path |-> "main", keys |-> main.keys]} ELSE {}
  /\ answered' = FALSE
  /\ UNCHANGED <<db, files, memory, chain, counts, minted, aborted, backups, stray>>

\* 2. The backup opens, or is refused, though it may be intact.
OpenBackup ==
  /\ At("restore")
  /\ \/ /\ Opens("bak", bak) /\ Goto("promote")
        /\ UNCHANGED <<db, files, memory, chain, counts, minted, aborted, backups, stray>>
     \/ NextRung("triage", FALSE)

\* It is copied over the main file.
Promote ==
  /\ At("promote")
  /\ main' = bak /\ opened' = TRUE /\ Goto(Top.then)
  /\ UNCHANGED <<db, bak, wallet, initialized, agent, chain, counts, history>>

OpenBackupLost ==
  /\ At("restore")
  /\ Become([Top EXCEPT !.pc = "triage", !.silent = TRUE])
  /\ wallet' \in {wallet} \cup IF bak.st = "wallet"
                                THEN {[path |-> "bak", keys |-> bak.keys]} ELSE {}
  /\ answered' = FALSE
  /\ UNCHANGED <<db, files, memory, chain, counts, minted, aborted, backups, stray>>

\* Mutant: the parser is not asked.
LooksCorruptUnparsed == ~Top.silent

\* pilotWalletLooksCorrupt: the wallet answered, and the file is none.
LooksCorrupt == ~Top.silent /\ main.st # "wallet"

\* The keys of an intact backup that is passed over, with no intact main file that the
\* agent knows of: it was refused, did not answer, or came to be since the agent looked.
PassedOver ==
  IF bak.st = "wallet" /\ ~(Top.hadMain /\ main.st = "wallet") THEN bak.keys ELSE {}

\* 3. A file that is corrupt is moved away and the identity reset; any other stays.
Triage ==
  /\ At("triage")
  /\ \/ ~Top.hadMain /\ NextRung("create", FALSE)
     \/ Top.hadMain /\ ~LooksCorrupt /\ WalletFails
     \/ /\ Top.hadMain /\ LooksCorrupt
        /\ main' = NoFile
        /\ spurned' = spurned \cup PassedOver
        /\ Become([Top EXCEPT !.pc = "reset", !.after = "create"])
        /\ UNCHANGED <<db, bak, wallet, memory, chain, counts, minted, aborted, unbacked, stray,
                       answered>>

\* 4. A fresh wallet, over whatever is there by now; when the answer is lost it may be made all the same.
CreateWallet ==
  /\ At("create")
  /\ main' = [st |-> "wallet", keys |-> {}]
  /\ wallet' = [path |-> "main", keys |-> {}] /\ answered' = FALSE
  /\ spurned' = spurned \cup PassedOver
  /\ \/ opened' = TRUE /\ Goto(Top.then)
     \/ UNCHANGED opened /\ Closes
  /\ UNCHANGED <<db, bak, initialized, agent, chain, counts, minted, aborted, unbacked, stray>>

CreateFails == At("create") /\ WalletFails

-------------------------------------------------------------------------------
(***************************************************************************)
(* The identity: checked, forgotten, made.                                 *)
(***************************************************************************)
\* Mutant: an answer is enough.
WalletHasSomething == TRUE

\* get_private_account_keys has keys for the account.
WalletHas == Top.who \in wallet.keys

\* The loaded account is the one that is asked about.
Ask ==
  /\ At("ask")
  /\ Become(IF agent = None THEN Fund(Top, None)
            ELSE [Top EXCEPT !.pc = "check", !.who = agent])
  /\ UNCHANGED <<db, files, wallet, memory, chain, counts, history>>

\* The wallet tells whether it has the account.  One with no file open has none: the
\* answer may be empty then, as it may be an error.
Checked ==
  /\ At("check")
  /\ IF WalletHas
       THEN answered' = (agent = Top.who) /\ Become(Fund(Top, agent))
       ELSE /\ Become([Top EXCEPT !.pc = "reset", !.after = "mint"])
            /\ UNCHANGED answered
  /\ UNCHANGED <<db, files, wallet, memory, chain, counts, minted, aborted, backups, stray>>

\* No answer is no verdict.
CheckLost ==
  /\ At("check") /\ Become(Fund(Top, agent))
  /\ UNCHANGED <<db, files, wallet, memory, chain, counts, history>>

\* resetStaleIdentity deletes the row first, and then what is known of its funds.
Reset ==
  /\ At("reset") /\ ident' = None /\ Goto("forget")
  /\ UNCHANGED <<funded, faucet, files, wallet, memory, chain, counts, history>>

Forget ==
  /\ At("forget")
  /\ funded' = FALSE /\ faucet' = None /\ agent' = None
  /\ aborted' = aborted + 1 /\ unbacked' = {} /\ spurned' = {}
  /\ Become(IF Top.after = "create" THEN [Top EXCEPT !.pc = "create"]
            ELSE Enter([Top EXCEPT !.then = "mint"]))
  /\ UNCHANGED <<ident, files, wallet, opened, initialized, chain, counts, minted,
                 stray, answered>>

\* createIdentity: a fresh account,
Mint(a) ==
  /\ At("mint") /\ wallet.path # "none" /\ a \in Privates \ minted
  /\ wallet' = [wallet EXCEPT !.keys = @ \cup {a}]
  /\ agent' = a /\ minted' = minted \cup {a} /\ Goto("keys")
  /\ UNCHANGED <<db, files, opened, initialized, chain, counts, aborted, backups,
                 stray, answered>>

MintFails ==
  /\ At("mint") /\ GiveUp
  /\ UNCHANGED <<db, files, wallet, memory, chain, counts, history>>

\* its keys, or no answer: the account stays the agent's as long as this process lives,
KeysRead ==
  /\ At("keys")
  /\ \/ Goto("row") /\ UNCHANGED <<aborted, stray>>
     \/ GiveUp /\ aborted' = aborted + 1 /\ stray' = (stray \/ Top.loaded)
  /\ UNCHANGED <<db, files, wallet, memory, chain, counts, minted, backups, answered>>

\* Mutant: the wallet is saved when there is money in it.
BackUpLater(then) ==
  Become(IF then = "identity" THEN [Top EXCEPT !.pc = then]
         ELSE [Top EXCEPT !.pc = "save", !.then = then])

\* backupWallet, and what comes after it.
BackUp(then) == Become([Top EXCEPT !.pc = "save", !.then = then])

\* the row of pilot.db; the keys that sign and decrypt follow it, row by row.
StoreIdentity ==
  /\ At("row") /\ ident' = agent /\ answered' = TRUE /\ BackUp("identity")
  /\ UNCHANGED <<funded, faucet, files, wallet, memory, chain, counts, minted, aborted, backups,
                 stray>>

\* The wallet writes the file it opened.  Nobody looks whether it did.
Save ==
  /\ At("save")
  /\ \/ /\ wallet.path = "main" /\ main' = [st |-> "wallet", keys |-> wallet.keys]
        /\ UNCHANGED bak
     \/ /\ wallet.path = "bak" /\ bak' = [st |-> "wallet", keys |-> wallet.keys]
        /\ UNCHANGED main
     \/ UNCHANGED files
  /\ Goto("copy")
  /\ UNCHANGED <<db, wallet, memory, chain, counts, history>>

\* The accounts that pilot.db names.
InUse == {ident, faucet} \ {None}

\* The main file, whatever is in it, becomes the backup.
Copy ==
  /\ At("copy")
  /\ bak' = IF main.st = "absent" THEN bak ELSE main
  /\ unbacked' = (unbacked \cup InUse) \ bak'.keys
  /\ Goto(Top.then)
  /\ UNCHANGED <<db, main, wallet, memory, chain, counts, minted, aborted, spurned, stray,
                 answered>>

IdentityMade ==
  /\ At("identity")
  /\ initialized' = TRUE
  /\ Become(Fund(Top, agent))
  /\ UNCHANGED <<db, files, wallet, opened, agent, chain, counts, history>>

-------------------------------------------------------------------------------
(***************************************************************************)
(* fundAgentIfNeeded.                                                      *)
(***************************************************************************)
\* Mutant: the account is used again and not said to the transfer.
BalanceUnread ==
  /\ At("balance")
  /\ Goto(IF faucet \in holding THEN "transfer" ELSE "claim")
  /\ UNCHANGED <<db, files, wallet, memory, chain, counts, history>>

\* The account an earlier boot claimed is used again while it holds enough.
BalanceRead ==
  /\ At("balance")
  /\ \/ faucet \in holding /\ Become([Top EXCEPT !.pc = "transfer", !.who = faucet])
     \/ Goto("claim")
  /\ UNCHANGED <<db, files, wallet, memory, chain, counts, history>>

\* A fresh account is made,
CreatePublic(p) ==
  /\ At("claim") /\ wallet.path # "none" /\ p \in Publics \ minted
  /\ wallet' = [wallet EXCEPT !.keys = @ \cup {p}]
  /\ minted' = minted \cup {p}
  /\ Become([Top EXCEPT !.pc = "register", !.who = p])
  /\ UNCHANGED <<db, files, memory, chain, counts, aborted, backups, stray, answered>>

\* registered,
Registered ==
  /\ At("register") /\ Goto("pinata")
  /\ UNCHANGED <<db, files, wallet, memory, chain, counts, history>>

\* and claims; the credit is seen, or comes too late to be.
PinataClaimed(seen) ==
  /\ At("pinata")
  /\ holding' = holding \cup {Top.who}
  /\ IF seen THEN Goto("remember") ELSE Pop
  /\ UNCHANGED <<db, files, wallet, memory, landed, counts, history>>

\* Each of the three may fail, and leave an account that holds nothing.
ClaimFails ==
  /\ (At("claim") \/ At("register") \/ At("pinata")) /\ Pop
  /\ UNCHANGED <<db, files, wallet, memory, chain, counts, history>>

\* It is remembered before it is spent from.
Remember ==
  /\ At("remember") /\ faucet' = Top.who /\ BackUp("transfer")
  /\ UNCHANGED <<ident, funded, files, wallet, memory, chain, counts, history>>

\* Mutant: a transfer the wallet accepted has landed.
TransferBelieved ==
  /\ At("transfer")
  /\ funded' = TRUE /\ BackUp("done")
  /\ UNCHANGED <<ident, faucet, files, wallet, memory, chain, counts, history>>

\* The wallet moves the money or does not, whatever it answers.
Transfer ==
  /\ At("transfer")
  /\ \/ /\ Top.who \in wallet.keys /\ agent # None
        /\ holding' = holding \ {Top.who} /\ landed' = landed \cup {agent}
     \/ UNCHANGED chain
  /\ \/ Goto("verify")
     \/ Pop
  /\ UNCHANGED <<db, files, wallet, memory, counts, history>>

\* funded is written when the money is there.
Verified ==
  /\ At("verify")
  /\ \/ agent \in landed /\ funded' = TRUE /\ BackUp("done")
     \/ Pop /\ UNCHANGED funded
  /\ UNCHANGED <<ident, faucet, files, wallet, memory, chain, counts, history>>

-------------------------------------------------------------------------------
(***************************************************************************)
(* Faults.                                                                 *)
(***************************************************************************)
Working(pcs) == \E d \in DOMAIN stack : stack[d].pc \in pcs

\* A file that the agent was writing when it died is as it was, or damaged.
Written(file, writing) == IF writing THEN {file, Damaged} ELSE {file}

\* The agent's process dies, the wallet's, or both.
Crash(agentDies, walletDies) ==
  /\ faults < MaxFaults /\ faults' = faults + 1
  /\ wallet' = IF walletDies THEN Closed ELSE wallet
  /\ IF agentDies
       THEN /\ stack' = <<>> /\ opened' = FALSE /\ initialized' = FALSE /\ agent' = None
            /\ answered' = FALSE
            /\ main' \in Written(main, Working({"promote"}))
            /\ bak' \in Written(bak, Working({"copy"}) /\ main.st # "absent")
            /\ unbacked' = IF Working({"save", "copy"})
                             THEN unbacked \cup (InUse \ (main.keys \cap bak'.keys))
                             ELSE unbacked
            /\ stray' = (stray \/ Working({"forget"}))
            /\ aborted' = aborted + IF Working({"keys", "row", "forget"}) THEN 1 ELSE 0
       ELSE UNCHANGED <<stack, files, memory, aborted, unbacked, stray, answered>>
  /\ UNCHANGED <<db, chain, boots, minted, spurned>>

\* The main file is damaged or lost while the agent is down.
FileFault(st) ==
  /\ faults < MaxFaults /\ faults' = faults + 1
  /\ stack = <<>> /\ ~initialized /\ main.st = "wallet"
  /\ main' = [st |-> st, keys |-> {}]
  /\ UNCHANGED <<stack, db, bak, wallet, memory, chain, boots, history>>

-------------------------------------------------------------------------------
Fault ==
  \/ \E a, w \in BOOLEAN : (a \/ w) /\ Crash(a, w)
  \/ \E st \in {"absent", "damaged"} : FileFault(st)

InitWallet ==
  \/ Pinged \/ PingLost \/ OpenMain \/ OpenMainLost \/ OpenBackup \/ OpenBackupLost
  \/ Promote \/ Triage \/ CreateWallet \/ CreateFails

CreateIdentity ==
  \/ Ask \/ Checked \/ CheckLost \/ Reset \/ Forget \/ MintFails \/ KeysRead \/ StoreIdentity
  \/ Save \/ Copy \/ IdentityMade \/ \E a \in Privates : Mint(a)

FundAgent ==
  \/ BalanceRead \/ ClaimFails \/ Remember \/ Transfer \/ Verified
  \/ Registered \/ \E p \in Publics : CreatePublic(p)
  \/ \E seen \in BOOLEAN : PinataClaimed(seen)

IdentityNext ==
  Initialize \/ WalletProof \/ Done \/ InitWallet \/ CreateIdentity \/ FundAgent \/ Fault

IdentitySpec == IdentityInit /\ [][IdentityNext]_vars

-------------------------------------------------------------------------------
(***************************************************************************)
(* Properties.                                                             *)
(***************************************************************************)
\* SAFETY.  Some file that opens has the keys of the identity and of the faucet account
\* that pilot.db names: from the first backupWallet on, through damaged and lost files,
\* restores, and crashes also in the middle of a copy (the identity churn of
\* 2026-07-07).  It does not say so of keys that a finished backupWallet did not carry
\* to the backup, as the wallet did not save, or saved to the backup that the copy of
\* an older main file then overwrote (identity:421-430, 538-541), or had a file open
\* that is older or was made anew (568-577); nor of keys that a crash in backupWallet
\* left in fewer than both files.
KeysOutliveTheWallet ==
  ~Working({"save", "copy"}) =>
    \A a \in InUse \ unbacked : \E f \in {main, bak} : f.st = "wallet" /\ a \in f.keys

\* The agent did not open the wallet, or the wallet died since.
Unopened == ~opened \/ wallet.path = "none"

\* ACTION.  An identity whose keys are backed up is given up in two cases only.
\* A wallet that the agent did not manage to open, or that has died since, was asked
\* for the account: with no file open, or an older one, its empty answer reads as a
\* wallet that lacks the account (identity:144, 155-160, against 148-151).  Or the main
\* file was lost or damaged, and an intact backup refused to open or did not answer
\* (538-568, against 536-537).  No other missing answer, refusal, crash, damage or
\* nested call does it.
IdentityKept ==
  [][ident # None /\ ident' # ident =>
       \/ Top.after = "mint" /\ Unopened
       \/ ident \in spurned
       \/ ident \in unbacked]_vars

\* SAFETY.  One identity is made at a time, and another only when the last was given
\* up: initialize served inside initialize makes none (run 33944283880).
MintedForAReason == Cardinality(minted \cap Privates) <= 1 + aborted

\* SAFETY.  funded says that the identity there is has the money: after retries,
\* resets and crashes too, unless a crash cut a reset in two or an account was left
\* without its keys.
FundedMeansLanded ==
  funded /\ ~stray /\ ~At("forget") => ident # None /\ ident \in landed

\* SAFETY.  When nothing runs, an agent that heard from its wallet uses the identity of
\* pilot.db, and the wallet that is open has its keys.
PairedWithWallet ==
  stack = <<>> /\ answered /\ ident # None /\ wallet.path # "none" =>
    agent = ident /\ ident \in wallet.keys
===============================================================================
