---------------------------- MODULE IdentityProofs ----------------------------
(***************************************************************************)
(* Theorems about Identity, for every value of its constants: one identity *)
(* is made at a time; funded, and the wallet that is open, agree with the  *)
(* one there is; its keys stay in a file that opens, and one whose keys    *)
(* are backed up is given up in two cases only.                            *)
(***************************************************************************)
EXTENDS Identity, TLAPS, FiniteSetTheorems

USE LoopAssumption, IdentityAssumption

-------------------------------------------------------------------------------
(***************************************************************************)
(* Types.  A running activation waits for the wallet, except the innermost *)
(* one.                                                                    *)
(***************************************************************************)
Opening == {"ping", "open", "restore", "promote", "triage", "create"}
Saving  == {"save", "copy"}
Steps   == Waits \cup {"promote", "triage", "ask", "reset", "forget", "row", "copy",
                       "identity", "remember", "done"}

Calls == [op : {"initialize", "walletProof"}, pc : Steps, then : Steps, after : Steps,
          loaded : BOOLEAN, hadMain : BOOLEAN, hadBak : BOOLEAN, silent : BOOLEAN,
          who : Accounts \cup {None}]

Files == [st : {"absent", "damaged", "wallet"}, keys : SUBSET Accounts]

CallsOK == /\ stack \in Seq(Calls)
           /\ \A d \in DOMAIN stack : d # Len(stack) => stack[d].pc \in Waits

RowsOK == /\ {ident, agent, faucet} \subseteq Accounts \cup {None}
          /\ main \in Files /\ bak \in Files
          /\ wallet \in [path : {"none", "main", "bak"}, keys : SUBSET Accounts]
          /\ opened \in BOOLEAN

Typed == CallsOK /\ RowsOK

-------------------------------------------------------------------------------
(***************************************************************************)
(* The stack.                                                              *)
(***************************************************************************)
LEMMA TopCall ==
  ASSUME CallsOK, stack # <<>>
  PROVE  /\ Len(stack) \in Nat \ {0} /\ Len(stack) \in DOMAIN stack
         /\ DOMAIN stack = 1..Len(stack) /\ Top \in Calls
BY DEF CallsOK, Top

LEMMA BecomeStack ==
  ASSUME CallsOK, stack # <<>>, NEW f \in Calls, Become(f)
  PROVE  /\ CallsOK' /\ Len(stack') = Len(stack) /\ DOMAIN stack' = DOMAIN stack
         /\ stack' # <<>> /\ Top' = f /\ stack'[Len(stack)] = f
         /\ \A d \in DOMAIN stack : d # Len(stack) => stack'[d] = stack[d]
<1>1. /\ Len(stack) \in Nat \ {0} /\ Len(stack) \in DOMAIN stack /\ DOMAIN stack = 1..Len(stack)
  BY TopCall
<1>2. stack' \in Seq(Calls) /\ Len(stack') = Len(stack) /\ DOMAIN stack' = DOMAIN stack
      /\ stack'[Len(stack)] = f
      /\ \A d \in DOMAIN stack : d # Len(stack) => stack'[d] = stack[d]
  BY <1>1 DEF CallsOK, Become
<1> QED BY <1>1, <1>2 DEF CallsOK, Top

LEMMA PopStack ==
  ASSUME CallsOK, stack # <<>>, Pop
  PROVE  /\ CallsOK' /\ Len(stack') = Len(stack) - 1
         /\ DOMAIN stack' = 1..(Len(stack) - 1)
         /\ \A d \in DOMAIN stack' : /\ d \in DOMAIN stack /\ d # Len(stack)
                                     /\ stack'[d] = stack[d]
         /\ \A pc : At(pc)' => pc \in Waits
<1>1. /\ Len(stack) \in Nat \ {0} /\ DOMAIN stack = 1..Len(stack)
  BY TopCall
<1>2. stack' \in Seq(Calls) /\ Len(stack') = Len(stack) - 1
      /\ DOMAIN stack' = 1..(Len(stack) - 1)
      /\ \A d \in 1..(Len(stack) - 1) : stack'[d] = stack[d]
  BY <1>1 DEF CallsOK, Pop
<1>3. \A d \in DOMAIN stack' : d \in DOMAIN stack /\ d # Len(stack) /\ stack'[d] = stack[d]
  BY <1>1, <1>2
<1>4. \A pc : At(pc)' => pc \in Waits
  <2>1. stack' # <<>> => Len(stack') \in DOMAIN stack'
    BY <1>1, <1>2
  <2> QED BY <1>3, <2>1 DEF At, Top, CallsOK
<1> QED BY <1>2, <1>3, <1>4 DEF CallsOK

LEMMA PushStack ==
  ASSUME CallsOK, Parked(Waits), NEW f \in Calls, Push(f)
  PROVE  /\ CallsOK' /\ Len(stack) \in Nat /\ Len(stack') = Len(stack) + 1
         /\ DOMAIN stack = 1..Len(stack) /\ DOMAIN stack' = 1..(Len(stack) + 1)
         /\ stack' # <<>> /\ Top' = f /\ stack'[Len(stack) + 1] = f
         /\ \A d \in DOMAIN stack : d # Len(stack) + 1 /\ stack'[d] = stack[d]
<1>1. Len(stack) \in Nat /\ DOMAIN stack = 1..Len(stack)
  BY DEF CallsOK
<1>2. stack' \in Seq(Calls) /\ Len(stack') = Len(stack) + 1
      /\ DOMAIN stack' = 1..(Len(stack) + 1)
      /\ stack'[Len(stack) + 1] = f
      /\ \A d \in 1..Len(stack) : stack'[d] = stack[d]
  BY <1>1 DEF CallsOK, Push
<1>3. ASSUME NEW d \in DOMAIN stack', d # Len(stack')
      PROVE  stack'[d].pc \in Waits
  <2>1. d \in DOMAIN stack /\ stack'[d] = stack[d]
    BY <1>1, <1>2, <1>3
  <2>2. CASE d = Len(stack)
    BY <2>1, <2>2 DEF Parked, Top
  <2>3. CASE d # Len(stack)
    BY <2>1, <2>3 DEF CallsOK
  <2> QED BY <2>2, <2>3
<1> QED BY <1>1, <1>2, <1>3 DEF CallsOK, Top

\* What a step makes of the activation that takes it.
LEMMA Moved ==
  ASSUME NEW f \in Calls, NEW pc \in Steps
  PROVE  /\ [f EXCEPT !.pc = pc] \in Calls /\ [f EXCEPT !.pc = pc].pc = pc
         /\ [f EXCEPT !.pc = pc].then = f.then /\ [f EXCEPT !.pc = pc].op = f.op
         /\ [f EXCEPT !.pc = pc].who = f.who /\ [f EXCEPT !.pc = pc].loaded = f.loaded
         /\ [f EXCEPT !.pc = pc].after = f.after
BY DEF Calls

LEMMA Entered ==
  ASSUME NEW f \in Calls
  PROVE  /\ Enter(f) \in Calls /\ Enter(f).pc = IF opened THEN f.then ELSE "ping"
         /\ Enter(f).then = f.then /\ Enter(f).op = f.op /\ Enter(f).loaded = f.loaded
<1>1. "ping" \in Steps /\ f.then \in Steps
  BY DEF Calls, Steps, Waits
<1> QED BY <1>1, Moved DEF Enter

LEMMA Funded ==
  ASSUME NEW f \in Calls, NEW who
  PROVE  /\ Fund(f, who) \in Calls
         /\ \/ Fund(f, who).pc = "done"
            \/ Fund(f, who).pc = "balance" /\ opened
            \/ Fund(f, who).pc = "ping" /\ Fund(f, who).then = "balance" /\ ~opened
<1>1. {"done", "balance"} \subseteq Steps
  BY DEF Steps, Waits
<1>2. [f EXCEPT !.then = "balance"] \in Calls /\ [f EXCEPT !.then = "balance"].then = "balance"
  BY <1>1 DEF Calls
<1> QED BY <1>1, <1>2, Moved, Entered DEF Fund

LEMMA Given ==
  ASSUME CallsOK, stack # <<>>
  PROVE  /\ GiveUp => Pop \/ \E f \in Calls : Become(f)
         /\ Closes => Pop \/ \E f \in Calls : Become(f)
<1>1. Top \in Calls /\ {"ask"} \subseteq Steps
  BY TopCall DEF Steps
<1>2. Fund(Top, agent) \in Calls /\ [Top EXCEPT !.pc = "ask"] \in Calls
  BY <1>1, Funded, Moved
<1>3. GiveUp => Pop \/ \E f \in Calls : Become(f)
  BY <1>2 DEF GiveUp
<1>4. Closes => GiveUp \/ Pop \/ \E f \in Calls : Become(f)
  BY <1>2 DEF Closes, Goto
<1> QED BY <1>3, <1>4

-------------------------------------------------------------------------------
(***************************************************************************)
(* Every step keeps the types.                                             *)
(***************************************************************************)
LEMMA RowsStep ==
  ASSUME Typed, [IdentityNext]_vars
  PROVE  RowsOK'
<1> USE DEF RowsOK, Files, Accounts
<1>0. main.keys \in SUBSET Accounts /\ bak.keys \in SUBSET Accounts
  BY DEF Typed
<1>1. ASSUME NEW then, NEW op, Begin(Boot(op, then)) PROVE RowsOK'
  BY <1>1 DEF Begin, Typed, db, files
<1>2. CASE InitWallet
  <2>1. ASSUME \/ Pinged \/ PingLost \/ CreateFails PROVE RowsOK'
    BY <2>1 DEF Typed, Pinged, PingLost, CreateFails, WalletFails, db, files, memory
  <2>2. CASE OpenMain
    <3>1. ASSUME NEW pc, NextRung(pc, FALSE) PROVE RowsOK'
      BY <3>1 DEF Typed, NextRung, db, files, memory
    <3>2. CASE Opens("main", main) /\ opened' = TRUE /\ UNCHANGED files
      BY <1>0, <2>2, <3>2 DEF Typed, OpenMain, Opens, NextRung, db, files, memory
    <3> QED BY <2>2, <3>1, <3>2 DEF OpenMain
  <2>3. CASE OpenMainLost
    BY <2>3 DEF Typed, OpenMainLost, db, files, memory
  <2>4. CASE OpenBackup
    <3>1. CASE NextRung("triage", FALSE)
      BY <2>4, <3>1 DEF Typed, NextRung, db, files, memory
    <3>2. CASE Opens("bak", bak) /\ UNCHANGED <<db, files, memory>>
      BY <1>0, <2>4, <3>2 DEF Typed, Opens, db, files, memory
    <3> QED BY <2>4, <3>1, <3>2 DEF OpenBackup
  <2>5. CASE OpenBackupLost
    BY <2>5 DEF Typed, OpenBackupLost, db, files, memory
  <2>6. CASE Triage
    BY <2>6 DEF Typed, Triage, NextRung, WalletFails, NoFile, db, files, memory
  <2>7. CASE CreateWallet
    BY <2>7 DEF Typed, CreateWallet, db, files, memory
  <2>8. CASE Promote
    BY <2>8 DEF Typed, Promote, db
  <2> QED BY <1>2, <2>1, <2>2, <2>3, <2>4, <2>5, <2>6, <2>7, <2>8 DEF InitWallet
<1>3. CASE CreateIdentity
  <2>1. ASSUME Ask \/ Checked \/ CheckLost \/ MintFails \/ KeysRead \/ IdentityMade
        PROVE  RowsOK'
    BY <2>1 DEF Typed, Ask, Checked, CheckLost, MintFails, KeysRead, IdentityMade, db, files,
                memory
  <2>2. ASSUME Reset \/ Forget \/ StoreIdentity PROVE RowsOK'
    BY <2>2 DEF Typed, Reset, Forget, StoreIdentity, files, memory
  <2>3. ASSUME NEW a \in Privates, Mint(a) PROVE RowsOK'
    BY <2>3 DEF Typed, Mint, db, files
  <2>4. CASE Save
    BY <2>4 DEF Typed, Save, db, files, memory
  <2>5. CASE Copy
    BY <2>5 DEF Typed, Copy, db, memory
  <2> QED BY <1>3, <2>1, <2>2, <2>3, <2>4, <2>5 DEF CreateIdentity
<1>4. CASE FundAgent
  <2>1. ASSUME \/ BalanceRead \/ ClaimFails \/ Transfer \/ Verified \/ Registered
               \/ \E seen \in BOOLEAN : PinataClaimed(seen)
        PROVE  RowsOK'
    BY <2>1 DEF Typed, BalanceRead, ClaimFails, Transfer, Verified, Registered, PinataClaimed,
                db, files, memory
  <2>2. ASSUME NEW p \in Publics, CreatePublic(p) PROVE RowsOK'
    BY <2>2 DEF Typed, CreatePublic, db, files, memory
  <2>3. CASE Remember
    <3>1. Top \in Calls
      BY <2>3, TopCall DEF Typed, Remember, At
    <3> QED BY <2>3, <3>1 DEF Typed, Remember, Calls, files, memory
  <2> QED BY <1>4, <2>1, <2>2, <2>3 DEF FundAgent
<1>5. CASE Fault
  <2>1. ASSUME NEW a \in BOOLEAN, NEW w \in BOOLEAN, Crash(a, w) PROVE RowsOK'
    <3>1. main \in Files /\ bak \in Files /\ Damaged \in Files
      BY DEF Typed, Damaged
    <3>2. main' \in {main, Damaged} /\ bak' \in {bak, Damaged}
      BY <2>1 DEF Crash, Written, files
    <3>3. main' \in Files /\ bak' \in Files
      BY <3>1, <3>2
    <3>4. UNCHANGED db /\ wallet' \in {wallet, Closed} /\ opened' \in {opened, FALSE}
          /\ agent' \in {agent, None}
      BY <2>1 DEF Crash, memory
    <3>5. Closed \in [path : {"none", "main", "bak"}, keys : SUBSET Accounts]
      BY DEF Closed
    <3>6. {ident', agent', faucet'} \subseteq Accounts \cup {None}
      BY <3>4 DEF Typed, db
    <3> QED BY <3>3, <3>4, <3>5, <3>6 DEF Typed
  <2>2. ASSUME NEW st \in {"absent", "damaged"}, FileFault(st) PROVE RowsOK'
    BY <2>2 DEF Typed, FileFault, db, memory
  <2> QED BY <1>5, <2>1, <2>2 DEF Fault
<1>6. CASE Done
  BY <1>6 DEF Typed, Done, db, files, memory
<1>7. CASE UNCHANGED vars
  BY <1>7 DEF Typed, vars, db, files, memory
<1> QED BY <1>1, <1>2, <1>3, <1>4, <1>5, <1>6, <1>7
      DEF IdentityNext, Initialize, WalletProof

LEMMA CallsStep ==
  ASSUME Typed, [IdentityNext]_vars
  PROVE  CallsOK'
<1> DEFINE Turns == stack # <<>> /\ (Pop \/ \E f \in Calls : Become(f))
<1> USE DEF Typed
<1>1. ASSUME Turns PROVE CallsOK'
  BY <1>1, BecomeStack, PopStack
<1>2. stack # <<>> => /\ Top \in Calls
                      /\ {Top.pc, Top.then, Top.after} \subseteq Steps
                      /\ {Top.loaded, Top.hadMain, Top.hadBak, Top.silent} \subseteq BOOLEAN
                      /\ Top.who \in Accounts \cup {None}
  BY TopCall DEF Calls
<1>3. ASSUME stack # <<>>, NEW pc \in Steps, Goto(pc) PROVE Turns
  BY <1>2, <1>3, Moved DEF Goto
<1>4. ASSUME stack # <<>>, GiveUp \/ Closes PROVE Turns
  BY <1>4, Given
<1>5. ASSUME stack # <<>>, NEW who, Become(Fund(Top, who)) PROVE Turns
  BY <1>2, <1>5, Funded
<1>6. ASSUME stack # <<>>, NEW then \in Steps, BackUp(then) PROVE Turns
  <2>1. "save" \in Steps /\ Top \in Calls
    BY <1>2, <1>6 DEF Steps, Waits
  <2>2. [Top EXCEPT !.pc = "save", !.then = then] \in Calls
    BY <2>1 DEF Calls
  <2> QED BY <1>6, <2>2 DEF BackUp
<1>7. ASSUME NEW op \in {"initialize", "walletProof"}, NEW then \in Steps,
             Begin(Boot(op, then))
      PROVE  CallsOK'
  <2>1. Boot(op, then) \in Calls
    BY <1>7 DEF Boot, Calls, Steps, Waits
  <2> QED BY <1>7, <2>1, Entered, PushStack DEF Begin
<1>8. ASSUME stack # <<>>, NEW pc \in Steps, NEW silent \in BOOLEAN, NextRung(pc, silent)
      PROVE  Turns
  <2>1. [Top EXCEPT !.pc = pc, !.silent = @ \/ silent] \in Calls
    BY <1>2, <1>8 DEF Calls
  <2> QED BY <1>8, <2>1 DEF NextRung
<1>9. {"ask", "mint", "done", "restore", "triage", "create", "reset", "save", "copy", "keys",
       "row", "promote", "transfer", "claim", "register", "pinata", "verify",
       "forget", "identity", "open", "check", "remember"} \subseteq Steps
  BY DEF Steps, Waits
<1>10. CASE InitWallet
  <2>1. CASE Pinged
    <3> DEFINE f == [Top EXCEPT !.hadMain = main.st # "absent", !.hadBak = bak.st # "absent",
                        !.silent = FALSE,
                        !.pc = IF main.st # "absent" THEN "open"
                               ELSE IF bak.st # "absent" THEN "restore" ELSE "create"]
    <3>1. stack # <<>> /\ Become(f)
      BY <2>1 DEF Pinged, At
    <3>2. f \in Calls
      BY <1>2, <1>9, <3>1 DEF Calls
    <3> QED BY <1>1, <3>1, <3>2
  <2>2. CASE PingLost \/ CreateFails
    BY <1>1, <1>4, <2>2 DEF PingLost, CreateFails, WalletFails, At
  <2>3. CASE OpenMain
    BY <1>1, <1>2, <1>3, <1>8, <1>9, <2>3 DEF OpenMain, Opens, At
  <2>4. CASE OpenMainLost
    <3> DEFINE f == [Top EXCEPT !.pc = IF Top.hadBak THEN "restore" ELSE "triage",
                                !.silent = TRUE]
    <3>1. stack # <<>> /\ Become(f)
      BY <2>4 DEF OpenMainLost, At
    <3>2. f \in Calls
      BY <1>2, <1>9, <3>1 DEF Calls
    <3> QED BY <1>1, <3>1, <3>2
  <2>5. CASE OpenBackup \/ Promote
    BY <1>1, <1>2, <1>3, <1>8, <1>9, <2>5 DEF OpenBackup, Opens, Promote, At
  <2>6. CASE OpenBackupLost
    <3> DEFINE f == [Top EXCEPT !.pc = "triage", !.silent = TRUE]
    <3>1. stack # <<>> /\ Become(f)
      BY <2>6 DEF OpenBackupLost, At
    <3>2. f \in Calls
      BY <1>2, <1>9, <3>1 DEF Calls
    <3> QED BY <1>1, <3>1, <3>2
  <2>7. CASE Triage
    <3> DEFINE f == [Top EXCEPT !.pc = "reset", !.after = "create"]
    <3>1. stack # <<>> /\ f \in Calls
      BY <1>2, <1>9, <2>7 DEF Calls, Triage, At
    <3>2. CASE Become(f)
      BY <1>1, <3>1, <3>2
    <3> QED BY <1>1, <1>4, <1>8, <1>9, <2>7, <3>1, <3>2 DEF Triage, WalletFails
  <2>8. CASE CreateWallet
    BY <1>1, <1>2, <1>3, <1>4, <2>8 DEF CreateWallet, At
  <2> QED BY <1>10, <2>1, <2>2, <2>3, <2>4, <2>5, <2>6, <2>7, <2>8 DEF InitWallet
<1>11. CASE CreateIdentity
  <2>1. CASE Ask
    <3> DEFINE f == [Top EXCEPT !.pc = "check", !.who = agent]
    <3>1. stack # <<>> /\ f \in Calls
      BY <1>2, <1>9, <2>1 DEF Calls, Ask, At, RowsOK
    <3>2. CASE Become(f)
      BY <1>1, <3>1, <3>2
    <3> QED BY <1>1, <1>5, <2>1, <3>1, <3>2 DEF Ask
  <2>2. CASE Checked
    <3> DEFINE f == [Top EXCEPT !.pc = "reset", !.after = "mint"]
    <3>1. stack # <<>> /\ f \in Calls
      BY <1>2, <1>9, <2>2 DEF Calls, Checked, At
    <3>2. CASE Become(f)
      BY <1>1, <3>1, <3>2
    <3> QED BY <1>1, <1>5, <2>2, <3>1, <3>2 DEF Checked
  <2>3. CASE CheckLost \/ IdentityMade
    BY <1>1, <1>5, <2>3 DEF CheckLost, IdentityMade, At
  <2>4. CASE Reset \/ Save
    BY <1>1, <1>3, <1>9, <2>4 DEF Reset, Save, At
  <2>5. CASE Forget
    <3>1. stack # <<>> /\ [Top EXCEPT !.then = "mint"] \in Calls
      BY <1>2, <1>9, <2>5 DEF Calls, Forget, At
    <3>2. [Top EXCEPT !.pc = "create"] \in Calls
      BY <1>2, <1>9, <3>1, Moved
    <3>3. Enter([Top EXCEPT !.then = "mint"]) \in Calls
      BY <3>1, Entered
    <3> QED BY <1>1, <2>5, <3>1, <3>2, <3>3 DEF Forget
  <2>6. CASE MintFails \/ KeysRead
    BY <1>1, <1>3, <1>4, <1>9, <2>6 DEF MintFails, KeysRead, At
  <2>7. ASSUME NEW a \in Privates, Mint(a) PROVE CallsOK'
    BY <1>1, <1>3, <1>9, <2>7 DEF Mint, At
  <2>8. CASE StoreIdentity
    BY <1>1, <1>6, <1>9, <2>8 DEF StoreIdentity, At
  <2>9. CASE Copy
    BY <1>1, <1>2, <1>3, <2>9 DEF Copy, At
  <2> QED BY <1>11, <2>1, <2>2, <2>3, <2>4, <2>5, <2>6, <2>7, <2>8, <2>9 DEF CreateIdentity
<1>12. CASE FundAgent
  <2>1. CASE BalanceRead
    <3> DEFINE f == [Top EXCEPT !.pc = "transfer", !.who = faucet]
    <3>1. stack # <<>> /\ f \in Calls
      BY <1>2, <1>9, <2>1 DEF Calls, BalanceRead, At, RowsOK
    <3>2. CASE Become(f)
      BY <1>1, <3>1, <3>2
    <3> QED BY <1>1, <1>3, <1>9, <2>1, <3>1, <3>2 DEF BalanceRead
  <2>2. ASSUME NEW p \in Publics, CreatePublic(p) PROVE CallsOK'
    <3> DEFINE f == [Top EXCEPT !.pc = "register", !.who = p]
    <3>1. stack # <<>> /\ f \in Calls
      BY <1>2, <1>9, <2>2 DEF Calls, CreatePublic, At, Accounts
    <3>2. Become(f)
      BY <2>2 DEF CreatePublic
    <3> QED BY <1>1, <3>1, <3>2
  <2>3. CASE \/ ClaimFails \/ Transfer \/ Verified \/ Registered
             \/ \E seen \in BOOLEAN : PinataClaimed(seen)
    BY <1>1, <1>3, <1>6, <1>9, <2>3 DEF ClaimFails, Transfer, Verified, Registered,
                                        PinataClaimed, At
  <2>4. CASE Remember
    BY <1>1, <1>6, <1>9, <2>4 DEF Remember, At
  <2> QED BY <1>12, <2>1, <2>2, <2>3, <2>4 DEF FundAgent
<1>13. CASE Fault
  <2>1. stack' \in {stack, <<>>}
    BY <1>13 DEF Fault, Crash, FileFault
  <2>2. ASSUME stack' = <<>> PROVE CallsOK'
    <3>1. stack' \in Seq(Calls) /\ DOMAIN stack' = {}
      BY <2>2
    <3> QED BY <3>1 DEF CallsOK
  <2> QED BY <2>1, <2>2 DEF CallsOK
<1>14. CASE Done
  BY <1>1, <1>14 DEF Done, At
<1>15. CASE UNCHANGED vars
  BY <1>15 DEF vars, CallsOK
<1> QED BY <1>7, <1>9, <1>10, <1>11, <1>12, <1>13, <1>14, <1>15
      DEF IdentityNext, Initialize, WalletProof

LEMMA TypedStep ==
  ASSUME Typed, [IdentityNext]_vars
  PROVE  Typed'
BY RowsStep, CallsStep DEF Typed

-------------------------------------------------------------------------------
(***************************************************************************)
(* Starts.  A second invariant, which holds whatever the wallet answers:   *)
(* one call makes an identity at a time, and only where there is none; the *)
(* account of the agent is the identity's or is used by nobody.            *)
(***************************************************************************)
Starts(f) == f.op = "initialize"

\* A call that makes an identity, or is about to.
Maker(f) == /\ Starts(f)
            /\ \/ f.pc \in {"mint", "keys", "row"}
               \/ f.pc \in Opening \cup {"reset", "forget"} /\ f.then = "mint"

Proper(f, made) ==
  /\ f.op = "walletProof" => /\ f.pc \in Opening \cup {"reset", "forget", "done"}
                             /\ f.then = "done" /\ f.after = "create"
  /\ Starts(f) /\ f.pc \in Opening \cup {"reset", "forget"} =>
       f.then \in {"ask", "mint", "balance"}
  /\ f.pc \in Saving => f.then \in {"identity", "transfer", "done"}
  /\ f.pc \in {"ask", "check"} => f.then = "ask"
  /\ f.pc = "check" => f.who # None
  /\ f.pc \in Paying \ {"transfer"} => f.who \in Publics
  /\ f.pc \in Paying \/ (f.pc \in Saving /\ f.then = "transfer") => f.who \in made

LineInv ==
  /\ \A d \in DOMAIN stack : Proper(stack[d], minted) /\ (d # Len(stack) => ~Maker(stack[d]))
  /\ \A d, e \in DOMAIN stack : Starts(stack[d]) /\ Starts(stack[e]) => d = e

\* What the innermost activation may rely on.
HeldInv ==
  stack # <<>> =>
    /\ Maker(Top) \/ Top.pc = "forget" => ident = None
    /\ Maker(Top) /\ Top.loaded /\ Top.pc \in Opening \cup {"mint"} => agent = None
    /\ Top.pc \in {"keys", "row"} =>
         agent # None /\ (wallet.path # "none" => agent \in wallet.keys)

\* Whose account agentAccountId_ is: without an identity it is left over, and no call
\* goes on with it.
AgentInv ==
  /\ ident # None => agent \in {None, ident}
  /\ ident = None /\ agent # None /\ ~stray /\ ~At("forget") =>
       \A d \in DOMAIN stack : Starts(stack[d]) => Maker(stack[d])

\* An identity that is there, or in the making, has an account of its own.
Counted == ident # None \/ At("keys") \/ At("row") \/ At("forget")

MintInv ==
  /\ IsFiniteSet(minted) /\ aborted \in Nat
  /\ Cardinality(minted \cap Privates) <= aborted + IF Counted THEN 1 ELSE 0

PairInv ==
  answered /\ ident # None /\ wallet.path # "none" => agent = ident /\ ident \in wallet.keys

AccountsOK ==
  /\ {ident, agent} \subseteq Privates \cup {None}
  /\ {ident, agent, faucet} \subseteq minted \cup {None}
  /\ faucet \in Publics \cup {None}
  /\ minted \subseteq Accounts /\ landed \subseteq minted /\ holding \subseteq minted
  /\ main.keys \subseteq minted /\ bak.keys \subseteq minted /\ wallet.keys \subseteq minted
  /\ unbacked \subseteq minted /\ spurned \subseteq minted

BoundsOK ==
  /\ funded \in BOOLEAN /\ initialized \in BOOLEAN
  /\ boots \in Nat /\ boots <= MaxBoots /\ faults \in Nat /\ faults <= MaxFaults

StepInv  == LineInv /\ HeldInv /\ AgentInv /\ MintInv
StartInv == Typed /\ StepInv /\ AccountsOK /\ PairInv /\ FundedMeansLanded

-------------------------------------------------------------------------------
(***************************************************************************)
(* What a step makes of the activations, when it leaves the identity alone.*)
(***************************************************************************)
LEMMA BecomeLine ==
  ASSUME Typed, Typed', LineInv, stack # <<>>, minted \subseteq minted',
         NEW g, Become(g), g.op = Top.op, Proper(g, minted')
  PROVE  /\ LineInv' /\ stack' # <<>> /\ Top' = g /\ g \in Calls
         /\ DOMAIN stack' = DOMAIN stack /\ Len(stack') = Len(stack)
         /\ Len(stack) \in DOMAIN stack /\ stack'[Len(stack)] = g
         /\ \A d \in DOMAIN stack : d # Len(stack) => stack'[d] = stack[d]
<1>1. /\ Len(stack) \in Nat \ {0} /\ Len(stack) \in DOMAIN stack
      /\ DOMAIN stack = 1..Len(stack) /\ Top \in Calls
  BY TopCall DEF Typed
<1>2. /\ Len(stack') = Len(stack) /\ DOMAIN stack' = DOMAIN stack
      /\ stack'[Len(stack)] = g
      /\ \A d \in DOMAIN stack : d # Len(stack) => stack'[d] = stack[d]
  BY <1>1 DEF Typed, CallsOK, Become
<1>3. g \in Calls /\ stack' # <<>> /\ Top' = g
  BY <1>1, <1>2 DEF Typed, CallsOK, Top
<1>4. ASSUME NEW d \in DOMAIN stack'
      PROVE  Proper(stack'[d], minted') /\ (d # Len(stack') => ~Maker(stack'[d]))
  <2>1. CASE d = Len(stack)
    BY <1>2, <2>1 DEF Proper, Paying, Starts
  <2>2. CASE d # Len(stack)
    <3>1. d \in DOMAIN stack /\ stack'[d] = stack[d]
      BY <1>2, <1>4, <2>2
    <3>2. Proper(stack[d], minted) /\ ~Maker(stack[d])
      BY <2>2, <3>1 DEF LineInv
    <3>3. Proper(stack'[d], minted')
      BY <3>1, <3>2 DEF Proper, Paying, Starts
    <3> QED BY <3>1, <3>2, <3>3
  <2> QED BY <2>1, <2>2
<1>5. ASSUME NEW d \in DOMAIN stack', NEW e \in DOMAIN stack',
             Starts(stack'[d]), Starts(stack'[e])
      PROVE  d = e
  <2>1. \A c \in DOMAIN stack : Starts(stack'[c]) => Starts(stack[c])
    BY <1>1, <1>2 DEF Starts, Top
  <2> QED BY <1>2, <1>5, <2>1 DEF LineInv
<1> QED BY <1>1, <1>2, <1>3, <1>4, <1>5 DEF LineInv

LEMMA PopLine ==
  ASSUME Typed, LineInv, stack # <<>>, minted \subseteq minted', Pop
  PROVE  /\ LineInv'
         /\ \A d \in DOMAIN stack' : d \in DOMAIN stack /\ stack'[d] = stack[d]
         /\ stack' # <<>> => Top'.pc \in Waits \ {"mint", "keys"} /\ ~Maker(Top')
<1>1. /\ DOMAIN stack = 1..Len(stack) /\ Len(stack) \in Nat \ {0}
      /\ Len(stack') = Len(stack) - 1 /\ DOMAIN stack' = 1..(Len(stack) - 1)
      /\ \A d \in DOMAIN stack' : /\ d \in DOMAIN stack /\ d # Len(stack)
                                  /\ stack'[d] = stack[d]
  BY TopCall, PopStack DEF Typed
<1>2. ASSUME NEW d \in DOMAIN stack'
      PROVE  Proper(stack'[d], minted') /\ ~Maker(stack'[d])
  <2>1. d \in DOMAIN stack /\ d # Len(stack) /\ stack'[d] = stack[d]
    BY <1>1
  <2>2. Proper(stack[d], minted) /\ ~Maker(stack[d])
    BY <2>1 DEF LineInv
  <2>3. Proper(stack'[d], minted')
    BY <2>1, <2>2 DEF Proper, Paying, Starts
  <2> QED BY <2>1, <2>2, <2>3
<1>3. \A d, e \in DOMAIN stack' : Starts(stack'[d]) /\ Starts(stack'[e]) => d = e
  BY <1>1 DEF LineInv, Starts
<1>4. ASSUME stack' # <<>> PROVE Top'.pc \in Waits \ {"mint", "keys"} /\ ~Maker(Top')
  <2>1. Len(stack') \in DOMAIN stack'
    BY <1>1, <1>4
  <2>2. /\ Top' = stack[Len(stack')] /\ Len(stack') \in DOMAIN stack
        /\ Len(stack') # Len(stack)
    BY <1>1, <2>1 DEF Top
  <2>3. Top'.pc \in Waits /\ Top' \in Calls
    BY <2>2 DEF Typed, CallsOK
  <2>4. Proper(Top', minted) /\ ~Maker(Top')
    BY <2>2 DEF LineInv
  <2>5. Top'.op = "initialize" \/ Top'.op = "walletProof"
    BY <2>3 DEF Calls
  <2> QED BY <2>3, <2>4, <2>5 DEF Proper, Paying, Maker, Starts, Opening
<1>5. LineInv'
  BY <1>2, <1>3 DEF LineInv
<1> QED BY <1>1, <1>4, <1>5

\* Steps that leave alone who the agent is and how many identities were given up.
Aside == /\ UNCHANGED <<ident, agent, aborted, stray>>
         /\ IsFiniteSet(minted') /\ minted \subseteq minted'
         /\ minted' \cap Privates = minted \cap Privates

Rare == {"keys", "row", "forget"}

LEMMA AsideBecome ==
  ASSUME Typed, Typed', StepInv, stack # <<>>, Aside, Top.pc \notin Rare,
         NEW g, Become(g), g.op = Top.op, g.loaded = Top.loaded, Proper(g, minted'),
         g.pc \notin Rare,
         Maker(g) => Maker(Top) /\ (g.pc = "reset" \/ Top.pc \in Opening),
         Maker(Top) => Maker(g) \/ agent = None
  PROVE  StepInv'
<1>1. /\ LineInv' /\ stack' # <<>> /\ Top' = g
      /\ DOMAIN stack' = DOMAIN stack
      /\ Len(stack) \in DOMAIN stack /\ stack'[Len(stack)] = g
      /\ \A d \in DOMAIN stack : d # Len(stack) => stack'[d] = stack[d]
  BY BecomeLine DEF StepInv, Aside
<1>2. UNCHANGED <<ident, agent, aborted>> /\ stray' = stray
  BY DEF Aside
<1>3. HeldInv'
  <2>1. Maker(g) \/ g.pc = "forget" => ident' = None
    BY <1>2 DEF StepInv, HeldInv, Rare
  <2>2. Maker(g) /\ g.loaded /\ g.pc \in Opening \cup {"mint"} => agent' = None
    <3> SUFFICES ASSUME Maker(g), g.loaded, g.pc \in Opening \cup {"mint"} PROVE agent = None
      BY <1>2
    <3>1. g.pc # "reset"
      BY DEF Opening
    <3>2. Top.pc \in Opening /\ Maker(Top) /\ Top.loaded
      BY <3>1
    <3> QED BY <3>2 DEF StepInv, HeldInv
  <2> QED BY <1>1, <2>1, <2>2 DEF HeldInv, Rare
<1>4. AgentInv'
  <2>1. ASSUME ident' = None, agent' # None, ~stray', NEW d \in DOMAIN stack', Starts(stack'[d])
        PROVE  Maker(stack'[d])
    <3>1. ~At("forget") /\ ~stray
      BY <1>2, <2>1 DEF At, Rare
    <3>2. \A c \in DOMAIN stack : Starts(stack[c]) => Maker(stack[c])
      BY <1>2, <2>1, <3>1 DEF StepInv, AgentInv
    <3>3. CASE d = Len(stack)
      <4>1. Maker(Top)
        BY <1>1, <2>1, <3>2, <3>3 DEF Starts, Top
      <4> QED BY <1>1, <1>2, <2>1, <3>3, <4>1
    <3>4. CASE d # Len(stack)
      BY <1>1, <2>1, <3>2, <3>4
    <3> QED BY <3>3, <3>4
  <2>2. ident' # None => agent' \in {None, ident'}
    BY <1>2 DEF StepInv, AgentInv
  <2> QED BY <2>1, <2>2 DEF AgentInv
<1>5. MintInv'
  <2>1. Counted' <=> Counted
    BY <1>1, <1>2 DEF Counted, At, Rare
  <2>2. IsFiniteSet(minted') /\ aborted' \in Nat
    BY <1>2 DEF StepInv, MintInv, Aside
  <2>3. Cardinality(minted' \cap Privates) = Cardinality(minted \cap Privates)
    BY DEF Aside
  <2> QED BY <1>2, <2>1, <2>2, <2>3 DEF StepInv, MintInv
<1> QED BY <1>1, <1>3, <1>4, <1>5 DEF StepInv

LEMMA AsidePop ==
  ASSUME Typed, StepInv, stack # <<>>, Aside, Top.pc \notin Rare, Pop
  PROVE  StepInv'
<1>1. /\ LineInv'
      /\ \A d \in DOMAIN stack' : d \in DOMAIN stack /\ stack'[d] = stack[d]
      /\ stack' # <<>> => Top'.pc \in Waits \ {"mint", "keys"} /\ ~Maker(Top')
  BY PopLine DEF StepInv, Aside
<1>2. UNCHANGED <<ident, agent, aborted>> /\ stray' = stray
  BY DEF Aside
<1>3. HeldInv'
  BY <1>1 DEF HeldInv, Waits
<1>4. AgentInv'
  <2>1. ~At("forget")
    BY DEF At, Rare
  <2> QED BY <1>1, <1>2, <2>1 DEF StepInv, AgentInv
<1>5. MintInv'
  <2>1. Counted' <=> Counted
    BY <1>1, <1>2 DEF Counted, At, Rare, Waits
  <2>2. IsFiniteSet(minted') /\ aborted' \in Nat
    BY <1>2 DEF StepInv, MintInv, Aside
  <2>3. Cardinality(minted' \cap Privates) = Cardinality(minted \cap Privates)
    BY DEF Aside
  <2> QED BY <1>2, <2>1, <2>2, <2>3 DEF StepInv, MintInv
<1> QED BY <1>1, <1>3, <1>4, <1>5 DEF StepInv

-------------------------------------------------------------------------------
(***************************************************************************)
(* The steps of initWallet.                                                *)
(***************************************************************************)
LEMMA TopProper ==
  ASSUME Typed, StepInv, stack # <<>>
  PROVE  /\ Top \in Calls /\ Proper(Top, minted)
         /\ Top.pc \notin Opening \cup {"reset", "forget", "done"} => Starts(Top)
         /\ Top.pc \in Opening /\ Top.then # "done" => Starts(Top)
<1>1. Top \in Calls /\ Len(stack) \in DOMAIN stack
  BY TopCall DEF Typed
<1>2. Proper(Top, minted)
  BY <1>1 DEF StepInv, LineInv, Top
<1>3. Top.op = "initialize" \/ Top.op = "walletProof"
  BY <1>1 DEF Calls
<1> QED BY <1>1, <1>2, <1>3 DEF Proper, Paying, Starts

LEMMA FundedProper ==
  ASSUME NEW f \in Calls, Starts(f), NEW who, NEW made
  PROVE  /\ Fund(f, who).op = f.op /\ Fund(f, who).loaded = f.loaded
         /\ Proper(Fund(f, who), made) /\ ~Maker(Fund(f, who))
         /\ Fund(f, who).pc \in {"done", "balance", "ping"}
<1> DEFINE g == [f EXCEPT !.then = "balance"]
<1>1. {"done", "balance", "ping"} \subseteq Steps
  BY DEF Steps, Waits
<1>2. g \in Calls /\ g.then = "balance" /\ g.op = f.op /\ g.loaded = f.loaded
  BY <1>1 DEF Calls
<1>3. /\ Enter(g).pc \in {"balance", "ping"} /\ Enter(g).then = "balance"
      /\ Enter(g).op = f.op /\ Enter(g).loaded = f.loaded
  BY <1>2, Entered
<1>4. /\ [f EXCEPT !.pc = "done"].pc = "done"
      /\ [f EXCEPT !.pc = "done"].op = f.op /\ [f EXCEPT !.pc = "done"].loaded = f.loaded
  BY <1>1, Moved
<1>5. CASE Fund(f, who) = [f EXCEPT !.pc = "done"]
  BY <1>4, <1>5 DEF Proper, Paying, Maker, Starts, Opening, Saving
<1>6. CASE Fund(f, who) = Enter(g)
  BY <1>3, <1>6 DEF Proper, Paying, Maker, Starts, Opening, Saving
<1> QED BY <1>5, <1>6 DEF Fund

LEMMA FundTurn ==
  ASSUME Typed, Typed', StepInv, stack # <<>>, Aside, Top.pc \notin Rare, Starts(Top),
         NEW who, Become(Fund(Top, who)), Maker(Top) => agent = None
  PROVE  StepInv'
<1> DEFINE g == Fund(Top, who)
<1>1. Top \in Calls
  BY TopProper
<1>2. /\ g.op = Top.op /\ g.loaded = Top.loaded /\ Proper(g, minted') /\ ~Maker(g)
      /\ g.pc \notin Rare
  BY <1>1, FundedProper DEF Rare
<1>3. Become(g)
  OBVIOUS
<1> HIDE DEF g
<1> QED BY <1>2, <1>3, AsideBecome

\* initWallet goes on with another call, or with what follows it.
LEMMA RungTurn ==
  ASSUME Typed, Typed', StepInv, stack # <<>>, Aside, Top.pc \in Opening,
         NEW g, Become(g), g.op = Top.op, g.loaded = Top.loaded, g.then = Top.then,
         g.after = Top.after, g.pc \in Opening
  PROVE  StepInv'
<1>1. Proper(Top, minted)
  BY TopProper
<1>2. Proper(g, minted')
  BY <1>1 DEF Proper, Paying, Starts, Opening, Saving
<1>3. g.pc \notin Rare /\ Top.pc \notin Rare
  BY DEF Rare, Opening
<1>4. Maker(g) <=> Maker(Top)
  BY DEF Maker, Starts, Opening
<1> QED BY <1>2, <1>3, <1>4, AsideBecome

LEMMA OpenTurn ==
  ASSUME Typed, Typed', StepInv, stack # <<>>, Aside, Top.pc \in Opening, Goto(Top.then)
  PROVE  StepInv'
<1> DEFINE g == [Top EXCEPT !.pc = Top.then]
<1>1. Top \in Calls /\ Proper(Top, minted)
  BY TopProper
<1>2. /\ g.op = Top.op /\ g.loaded = Top.loaded /\ g.then = Top.then /\ g.after = Top.after
      /\ g.pc = Top.then /\ Become(g)
  BY <1>1, Moved DEF Calls, Goto
<1>3. Top.then \in {"ask", "mint", "balance", "done"}
  BY <1>1 DEF Proper, Paying, Starts, Calls
<1> HIDE DEF g
<1>4. Proper(g, minted')
  BY <1>1, <1>2, <1>3 DEF Proper, Paying, Starts, Opening, Saving
<1>5. g.pc \notin Rare /\ Top.pc \notin Rare
  BY <1>2, <1>3 DEF Rare, Opening
<1>6. Maker(g) <=> Maker(Top)
  <2>1. Top.then = "mint" => Starts(Top)
    BY <1>1 DEF Proper, Paying, Starts, Calls
  <2> QED BY <1>2, <1>3, <2>1 DEF Maker, Starts, Opening
<1> QED BY <1>2, <1>4, <1>5, <1>6, AsideBecome

LEMMA GiveUpTurn ==
  ASSUME Typed, Typed', StepInv, stack # <<>>, Aside, Top.pc \in Opening \cup {"mint"},
         Starts(Top), Maker(Top), GiveUp
  PROVE  StepInv'
<1>1. Top.pc \notin Rare
  BY DEF Rare, Opening
<1>2. Top.loaded => agent = None
  BY DEF StepInv, HeldInv
<1>3. CASE Top.loaded
  BY <1>1, <1>2, <1>3, FundTurn DEF GiveUp
<1>4. CASE ~Top.loaded
  BY <1>1, <1>4, AsidePop DEF GiveUp
<1> QED BY <1>3, <1>4

LEMMA CloseTurn ==
  ASSUME Typed, Typed', StepInv, stack # <<>>, Aside, Top.pc \in Opening, Closes
  PROVE  StepInv'
<1>1. Top \in Calls /\ Proper(Top, minted) /\ (Top.then # "done" => Starts(Top))
  BY TopProper
<1>2. Top.pc \notin Rare
  BY DEF Rare, Opening
<1>3. CASE Top.then = "ask"
  BY <1>3, OpenTurn DEF Closes
<1>4. CASE Top.then = "mint"
  <2>1. Starts(Top) /\ Maker(Top)
    BY <1>1, <1>4 DEF Maker
  <2>2. GiveUp
    BY <1>4 DEF Closes
  <2> QED BY <2>1, <2>2, GiveUpTurn
<1>5. CASE Top.then \notin {"ask", "mint"}
  BY <1>2, <1>5, AsidePop DEF Closes
<1> QED BY <1>3, <1>4, <1>5

LEMMA InitWalletSteps ==
  ASSUME Typed, Typed', StepInv, InitWallet
  PROVE  StepInv'
<1>1. stack # <<>> /\ Top.pc \in Opening
  BY DEF InitWallet, Pinged, PingLost, OpenMain, OpenMainLost, OpenBackup, OpenBackupLost,
         Promote, Triage, CreateWallet, CreateFails, At, Opening
<1>2. Aside
  <2>1. UNCHANGED <<ident, agent, aborted, stray, minted>>
    <3> USE DEF WalletFails, Opens, NextRung, db, memory, history
    <3>1. CASE Pinged \/ PingLost \/ CreateFails
      BY <3>1 DEF Pinged, PingLost, CreateFails
    <3>2. CASE OpenMain \/ OpenMainLost
      BY <3>2 DEF OpenMain, OpenMainLost
    <3>3. CASE OpenBackup \/ OpenBackupLost \/ Promote
      BY <3>3 DEF OpenBackup, OpenBackupLost, Promote
    <3>4. CASE Triage
      BY <3>4 DEF Triage
    <3>5. CASE CreateWallet
      BY <3>5 DEF CreateWallet
    <3> QED BY <3>1, <3>2, <3>3, <3>4, <3>5 DEF InitWallet
  <2> QED BY <2>1 DEF Aside, StepInv, MintInv
<1>3. Top \in Calls /\ Proper(Top, minted)
  BY <1>1, TopProper
<1>4. ASSUME NEW pc \in Opening, NEW silent \in BOOLEAN, NextRung(pc, silent)
      PROVE  StepInv'
  <2> DEFINE g == [Top EXCEPT !.pc = pc, !.silent = @ \/ silent]
  <2>1. /\ g.op = Top.op /\ g.loaded = Top.loaded /\ g.then = Top.then
        /\ g.after = Top.after /\ g.pc \in Opening /\ Become(g)
    BY <1>3, <1>4 DEF Calls, NextRung
  <2> HIDE DEF g
  <2> QED BY <1>1, <1>2, <2>1, RungTurn
<1>5. {"open", "restore", "create", "triage"} \subseteq Opening
  BY DEF Opening
<1>6. CASE Pinged
  <2> DEFINE g == [Top EXCEPT !.hadMain = main.st # "absent", !.hadBak = bak.st # "absent",
                        !.silent = FALSE,
                        !.pc = IF main.st # "absent" THEN "open"
                               ELSE IF bak.st # "absent" THEN "restore" ELSE "create"]
  <2>1. /\ g.op = Top.op /\ g.loaded = Top.loaded /\ g.then = Top.then
        /\ g.after = Top.after /\ g.pc \in Opening /\ Become(g)
    BY <1>3, <1>5, <1>6 DEF Calls, Pinged
  <2> HIDE DEF g
  <2> QED BY <1>1, <1>2, <2>1, RungTurn
<1>7. CASE PingLost \/ CreateFails
  BY <1>1, <1>2, <1>7, CloseTurn DEF PingLost, CreateFails, WalletFails
<1>8. CASE OpenMain
  BY <1>1, <1>2, <1>4, <1>5, <1>8, OpenTurn DEF OpenMain
<1>9. CASE OpenMainLost
  <2> DEFINE g == [Top EXCEPT !.pc = IF Top.hadBak THEN "restore" ELSE "triage",
                              !.silent = TRUE]
  <2>1. /\ g.op = Top.op /\ g.loaded = Top.loaded /\ g.then = Top.then
        /\ g.after = Top.after /\ g.pc \in Opening /\ Become(g)
    BY <1>3, <1>5, <1>9 DEF Calls, OpenMainLost
  <2> HIDE DEF g
  <2> QED BY <1>1, <1>2, <2>1, RungTurn
<1>10. CASE OpenBackup
  <2> DEFINE g == [Top EXCEPT !.pc = "promote"]
  <2>1. "promote" \in Steps /\ "promote" \in Opening
    BY DEF Steps, Opening
  <2>2. /\ g.op = Top.op /\ g.loaded = Top.loaded /\ g.then = Top.then
        /\ g.after = Top.after /\ g.pc = "promote"
    BY <1>3, <2>1, Moved
  <2>3. Goto("promote") => Become(g)
    BY DEF Goto
  <2> HIDE DEF g
  <2>4. Goto("promote") => StepInv'
    BY <1>1, <1>2, <2>1, <2>2, <2>3, RungTurn
  <2> QED BY <1>4, <1>5, <1>10, <2>4 DEF OpenBackup
<1>11. CASE OpenBackupLost
  <2> DEFINE g == [Top EXCEPT !.pc = "triage", !.silent = TRUE]
  <2>1. /\ g.op = Top.op /\ g.loaded = Top.loaded /\ g.then = Top.then
        /\ g.after = Top.after /\ g.pc \in Opening /\ Become(g)
    BY <1>3, <1>5, <1>11 DEF Calls, OpenBackupLost
  <2> HIDE DEF g
  <2> QED BY <1>1, <1>2, <2>1, RungTurn
<1>12. CASE Triage
  <2> DEFINE g == [Top EXCEPT !.pc = "reset", !.after = "create"]
  <2>1. CASE Become(g)
    <3>1. /\ g.op = Top.op /\ g.loaded = Top.loaded /\ g.then = Top.then
          /\ g.after = "create" /\ g.pc = "reset"
      BY <1>3 DEF Calls
    <3> HIDE DEF g
    <3>2. Proper(g, minted')
      BY <1>1, <1>3, <3>1 DEF Proper, Paying, Starts, Saving
    <3>3. Maker(g) <=> Maker(Top)
      BY <1>1, <3>1 DEF Maker, Starts, Opening
    <3>4. g.pc \notin Rare /\ Top.pc \notin Rare
      BY <1>1, <3>1 DEF Rare, Opening
    <3> QED BY <1>1, <1>2, <2>1, <3>1, <3>2, <3>3, <3>4, AsideBecome
  <2> QED BY <1>1, <1>2, <1>4, <1>5, <1>12, <2>1, CloseTurn DEF Triage, WalletFails
<1>13. CASE CreateWallet
  BY <1>1, <1>2, <1>13, OpenTurn, CloseTurn DEF CreateWallet
<1>14. CASE Promote
  BY <1>1, <1>2, <1>14, OpenTurn DEF Promote
<1> QED BY <1>6, <1>7, <1>8, <1>9, <1>10, <1>11, <1>12, <1>13, <1>14 DEF InitWallet

-------------------------------------------------------------------------------
(***************************************************************************)
(* The steps of createIdentity, resetStaleIdentity and backupWallet.       *)
(***************************************************************************)
\* A step that is no part of making an identity, from a place after it or before.
LEMMA PlainTurn ==
  ASSUME Typed, Typed', StepInv, stack # <<>>, Aside, Top.pc \notin Rare \cup {"mint"},
         Top.pc \notin Opening \cup {"reset"},
         NEW g, Become(g), g.op = Top.op, g.loaded = Top.loaded, Proper(g, minted'),
         g.pc \notin Rare \cup {"mint"} \cup Opening, g.pc = "reset" => g.then # "mint"
  PROVE  StepInv'
<1>1. ~Maker(g) /\ ~Maker(Top)
  BY DEF Maker, Rare
<1> QED BY <1>1, AsideBecome

LEMMA CheckSteps ==
  ASSUME Typed, Typed', StepInv, Ask \/ Checked \/ CheckLost
  PROVE  StepInv'
<1>1. stack # <<>> /\ Top.pc \in {"ask", "check"}
  BY DEF Ask, Checked, CheckLost, At
<1>2. Aside
  <2>1. UNCHANGED <<ident, agent, aborted, stray, minted>>
    BY DEF Ask, Checked, CheckLost, db, memory, history
  <2> QED BY <2>1 DEF Aside, StepInv, MintInv
<1>3. Top \in Calls /\ Proper(Top, minted) /\ Starts(Top)
  BY <1>1, TopProper DEF Opening
<1>4. /\ Top.pc \notin Rare \cup {"mint"} /\ Top.pc \notin Opening \cup {"reset"}
      /\ ~Maker(Top)
  BY <1>1 DEF Rare, Opening, Maker
<1>5. ASSUME NEW who, Become(Fund(Top, who)) PROVE StepInv'
  BY <1>1, <1>2, <1>3, <1>4, <1>5, FundTurn
<1>6. CASE agent # None /\ Become([Top EXCEPT !.pc = "check", !.who = agent])
  <2> DEFINE g == [Top EXCEPT !.pc = "check", !.who = agent]
  <2>1. /\ g.op = Top.op /\ g.loaded = Top.loaded /\ g.pc = "check" /\ g.who = agent
        /\ g.then = Top.then /\ Become(g)
    BY <1>3, <1>6 DEF Calls
  <2> HIDE DEF g
  <2>2. Proper(g, minted')
    BY <1>1, <1>3, <1>6, <2>1 DEF Proper, Paying, Starts, Opening, Saving
  <2>3. g.pc \notin Rare \cup {"mint"} \cup Opening /\ g.pc # "reset"
    BY <2>1 DEF Rare, Opening
  <2> QED BY <1>1, <1>2, <1>4, <2>1, <2>2, <2>3, PlainTurn
<1>7. CASE At("check") /\ Become([Top EXCEPT !.pc = "reset", !.after = "mint"])
  <2> DEFINE g == [Top EXCEPT !.pc = "reset", !.after = "mint"]
  <2>1. g.op = Top.op /\ g.loaded = Top.loaded /\ g.pc = "reset" /\ g.then = Top.then
        /\ Become(g)
    BY <1>3, <1>7 DEF Calls
  <2> HIDE DEF g
  <2>2. g.then = "ask"
    BY <1>1, <1>3, <2>1 DEF Proper
  <2>3. Proper(g, minted')
    BY <1>3, <2>1, <2>2 DEF Proper, Paying, Starts, Opening, Saving
  <2>4. g.pc \notin Rare \cup {"mint"} \cup Opening
    BY <2>1 DEF Rare, Opening
  <2> QED BY <1>1, <1>2, <1>4, <2>1, <2>2, <2>3, <2>4, PlainTurn
<1>8. CASE Ask
  BY <1>5, <1>6, <1>8 DEF Ask
<1>9. CASE Checked
  BY <1>5, <1>7, <1>9 DEF Checked
<1>10. CASE CheckLost
  BY <1>5, <1>10 DEF CheckLost
<1> QED BY <1>8, <1>9, <1>10

\* Goto of a step that is no part of making an identity.
LEMMA GotoTurn ==
  ASSUME Typed, Typed', StepInv, stack # <<>>, Aside, Top.pc \notin Rare \cup {"mint"},
         Top.pc \notin Opening \cup {"reset", "done"}, NEW pc \in Steps, Goto(pc),
         pc \notin Rare \cup Paying \cup {"mint", "reset", "check", "ask"},
         pc \notin Opening,
         pc \in Saving => Top.pc \in Saving
  PROVE  StepInv'
<1> DEFINE g == [Top EXCEPT !.pc = pc]
<1>1. Top \in Calls /\ Proper(Top, minted) /\ Starts(Top)
  BY TopProper DEF Rare
<1>2. /\ g.op = Top.op /\ g.loaded = Top.loaded /\ g.then = Top.then /\ g.pc = pc
      /\ g.who = Top.who /\ Become(g)
  BY <1>1, Moved DEF Goto
<1> HIDE DEF g
<1>3. Proper(g, minted')
  BY <1>1, <1>2 DEF Proper, Paying, Starts, Aside, Opening, Saving, Rare
<1> QED BY <1>2, <1>3, PlainTurn

LEMMA BackUpTurn ==
  ASSUME Typed, Typed', StepInv, stack # <<>>, Aside,
         NEW then \in {"identity", "transfer", "done"}, BackUp(then),
         Top.pc \in {"remember", "transfer", "verify"},
         then = "transfer" => Top.pc = "remember"
  PROVE  StepInv'
<1> DEFINE g == [Top EXCEPT !.pc = "save", !.then = then]
<1>1. Top \in Calls /\ Proper(Top, minted) /\ Starts(Top)
  BY TopProper DEF Opening
<1>2. /\ g.op = Top.op /\ g.loaded = Top.loaded /\ g.then = then /\ g.pc = "save"
      /\ g.who = Top.who /\ Become(g)
  BY <1>1 DEF BackUp, Calls
<1> HIDE DEF g
<1>3. Proper(g, minted')
  BY <1>1, <1>2 DEF Proper, Paying, Starts, Aside, Opening, Saving
<1>4. /\ Top.pc \notin Rare \cup {"mint"} /\ Top.pc \notin Opening \cup {"reset"}
      /\ g.pc \notin Rare \cup {"mint"} \cup Opening /\ g.pc # "reset"
  BY <1>2 DEF Rare, Opening
<1> QED BY <1>2, <1>3, <1>4, PlainTurn

LEMMA BackUpSteps ==
  ASSUME Typed, Typed', StepInv, Save \/ Copy \/ IdentityMade
  PROVE  StepInv'
<1>1. stack # <<>> /\ Top.pc \in {"save", "copy", "identity"}
  BY DEF Save, Copy, IdentityMade, At
<1>2. Aside
  <2>1. UNCHANGED <<ident, agent, aborted, stray, minted>>
    BY DEF Save, Copy, IdentityMade, db, memory, history
  <2> QED BY <2>1 DEF Aside, StepInv, MintInv
<1>3. Top \in Calls /\ Proper(Top, minted) /\ Starts(Top)
  BY <1>1, TopProper DEF Opening
<1>4. /\ Top.pc \notin Rare \cup {"mint"} /\ Top.pc \notin Opening \cup {"reset", "done"}
      /\ ~Maker(Top)
  BY <1>1 DEF Rare, Opening, Maker
<1>6. CASE Save
  <2>1. Goto("copy") /\ Top.pc \in Saving /\ "copy" \in Steps
    BY <1>6 DEF Save, At, Saving, Steps
  <2>2. "copy" \notin Opening /\ "copy" \notin Rare \cup Paying
    BY DEF Opening, Rare, Paying
  <2> QED BY <1>1, <1>2, <1>4, <2>1, <2>2, GotoTurn
<1>7. CASE Copy
  <2> DEFINE g == [Top EXCEPT !.pc = Top.then]
  <2>1. Top.then \in {"identity", "transfer", "done"} /\ Top.pc = "copy"
    BY <1>3, <1>7 DEF Copy, At, Proper, Saving
  <2>2. /\ g.op = Top.op /\ g.loaded = Top.loaded /\ g.then = Top.then /\ g.pc = Top.then
        /\ g.who = Top.who /\ Become(g)
    BY <1>3, <1>7, Moved DEF Copy, Goto, Calls
  <2> HIDE DEF g
  <2>3. Proper(g, minted')
    BY <1>2, <1>3, <2>1, <2>2 DEF Proper, Paying, Starts, Aside, Opening, Saving
  <2>4. g.pc \notin Rare \cup {"mint"} \cup Opening /\ g.pc # "reset"
    BY <2>1, <2>2 DEF Rare, Opening
  <2> QED BY <1>1, <1>2, <1>4, <2>2, <2>3, <2>4, PlainTurn
<1>8. CASE IdentityMade
  BY <1>1, <1>2, <1>3, <1>4, <1>8, FundTurn DEF IdentityMade
<1> QED BY <1>6, <1>7, <1>8

LEMMA FundSteps ==
  ASSUME Typed, Typed', StepInv, AccountsOK, FundAgent
  PROVE  StepInv'
<1>1. stack # <<>> /\ Top.pc \in {"balance", "claim", "register", "pinata", "remember",
                                  "transfer", "verify"}
  BY DEF FundAgent, BalanceRead, CreatePublic, Registered, PinataClaimed, ClaimFails, Remember,
         Transfer, Verified, At
<1>2. Aside
  <2>1. ASSUME NEW p \in Publics, CreatePublic(p)
        PROVE  Aside
    <3>1. UNCHANGED <<ident, agent, aborted, stray>> /\ minted' = minted \cup {p}
      BY <2>1 DEF CreatePublic, db, memory
    <3>2. IsFiniteSet(minted')
      BY <3>1, FS_AddElement DEF StepInv, MintInv
    <3>3. p \notin Privates
      BY <2>1, IdentityAssumption
    <3>4. minted' \cap Privates = minted \cap Privates
      BY <3>1, <3>3
    <3> QED BY <3>1, <3>2, <3>4 DEF Aside
  <2>2. CASE \/ BalanceRead \/ ClaimFails \/ Remember \/ Transfer \/ Verified \/ Registered
             \/ \E seen \in BOOLEAN : PinataClaimed(seen)
    <3>1. UNCHANGED <<ident, agent, aborted, stray, minted>>
      BY <2>2 DEF BalanceRead, ClaimFails, Remember, Transfer, Verified, Registered,
                  PinataClaimed, db, memory, history
    <3> QED BY <3>1 DEF Aside, StepInv, MintInv
  <2> QED BY <2>1, <2>2 DEF FundAgent
<1>3. Top \in Calls /\ Proper(Top, minted) /\ Starts(Top)
  BY <1>1, TopProper DEF Opening
<1>4. /\ Top.pc \notin Rare \cup {"mint"} /\ Top.pc \notin Opening \cup {"reset", "done"}
  BY <1>1 DEF Rare, Opening
<1>5. /\ {"claim", "verify"} \subseteq Steps
      /\ {"claim", "verify"} \cap (Opening \cup Saving \cup Rare \cup Paying) = {}
  BY DEF Steps, Waits, Opening, Saving, Rare, Paying
<1>6. CASE Pop
  BY <1>1, <1>2, <1>4, <1>6, AsidePop
<1>7. ASSUME NEW g, Become(g), g.op = Top.op, g.loaded = Top.loaded, g.pc \in Paying,
             g.who \in minted', g.pc # "transfer" => g.who \in Publics
      PROVE  StepInv'
  <2>1. Proper(g, minted')
    BY <1>3, <1>7 DEF Proper, Paying, Starts, Opening, Saving
  <2>2. g.pc \notin Rare \cup {"mint"} \cup Opening /\ g.pc # "reset"
    BY <1>7 DEF Rare, Opening, Paying
  <2> QED BY <1>1, <1>2, <1>4, <1>7, <2>1, <2>2, PlainTurn
<1>8. ASSUME NEW pc \in Paying \ {"transfer"}, Goto(pc), Top.pc \in Paying \ {"transfer"}
      PROVE  StepInv'
  <2> DEFINE g == [Top EXCEPT !.pc = pc]
  <2>1. pc \in Steps
    BY DEF Steps, Waits, Paying
  <2>2. /\ g.op = Top.op /\ g.loaded = Top.loaded /\ g.pc = pc /\ g.who = Top.who
        /\ Become(g)
    BY <1>3, <1>8, <2>1, Moved DEF Goto
  <2> HIDE DEF g
  <2>3. g.who \in minted' /\ g.who \in Publics
    BY <1>2, <1>3, <1>8, <2>2 DEF Proper, Aside
  <2> QED BY <1>7, <2>2, <2>3
<1>9. CASE BalanceRead
  <2>1. CASE Goto("claim")
    BY <1>1, <1>2, <1>4, <1>5, <2>1, GotoTurn
  <2>2. CASE faucet \in holding /\ Become([Top EXCEPT !.pc = "transfer", !.who = faucet])
    <3> DEFINE g == [Top EXCEPT !.pc = "transfer", !.who = faucet]
    <3>1. /\ g.op = Top.op /\ g.loaded = Top.loaded /\ g.pc = "transfer" /\ g.who = faucet
          /\ Become(g)
      BY <1>3, <2>2 DEF Calls
    <3> HIDE DEF g
    <3> QED BY <1>2, <1>7, <2>2, <3>1 DEF AccountsOK, Aside, Paying
  <2> QED BY <1>9, <2>1, <2>2 DEF BalanceRead
<1>10. ASSUME NEW p \in Publics, CreatePublic(p)
       PROVE  StepInv'
  <2> DEFINE g == [Top EXCEPT !.pc = "register", !.who = p]
  <2>1. /\ g.op = Top.op /\ g.loaded = Top.loaded /\ g.pc = "register" /\ g.who = p
        /\ Become(g) /\ p \in minted'
    BY <1>3, <1>10 DEF Calls, CreatePublic
  <2> HIDE DEF g
  <2> QED BY <1>7, <2>1 DEF Paying
<1>11. CASE Registered
  BY <1>8, <1>11 DEF Registered, At, Paying
<1>12. CASE \E seen \in BOOLEAN : PinataClaimed(seen)
  BY <1>6, <1>8, <1>12 DEF PinataClaimed, At, Paying
<1>13. CASE ClaimFails
  BY <1>6, <1>13 DEF ClaimFails
<1>14. CASE Remember
  BY <1>1, <1>2, <1>14, BackUpTurn DEF Remember, At
<1>15. CASE Transfer
  BY <1>1, <1>2, <1>4, <1>5, <1>6, <1>15, GotoTurn DEF Transfer
<1>16. CASE Verified
  BY <1>1, <1>2, <1>6, <1>16, BackUpTurn DEF Verified, At
<1> QED BY <1>9, <1>10, <1>11, <1>12, <1>13, <1>14, <1>15, <1>16 DEF FundAgent

-------------------------------------------------------------------------------
(***************************************************************************)
(* The steps that make an identity or give it up.                          *)
(***************************************************************************)
LEMMA ResetSteps ==
  ASSUME Typed, Typed', StepInv, Reset
  PROVE  StepInv'
<1> DEFINE g == [Top EXCEPT !.pc = "forget"]
<1>1. stack # <<>> /\ Top.pc = "reset" /\ Become(g)
  BY DEF Reset, At, Goto
<1>2. Top \in Calls /\ Proper(Top, minted)
  BY <1>1, TopProper
<1>3. "forget" \in Steps
  BY DEF Steps
<1>4. g.op = Top.op /\ g.loaded = Top.loaded /\ g.pc = "forget" /\ g.then = Top.then
      /\ g.after = Top.after
  BY <1>2, <1>3, Moved
<1> HIDE DEF g
<1>5. UNCHANGED <<minted, agent, aborted, stray>> /\ ident' = None
  BY DEF Reset, memory, history
<1>6. Proper(g, minted')
  BY <1>1, <1>2, <1>4, <1>5 DEF Proper, Paying, Starts, Opening, Saving
<1>7. LineInv' /\ stack' # <<>> /\ Top' = g
  BY <1>1, <1>4, <1>5, <1>6, BecomeLine DEF StepInv
<1>8. HeldInv'
  BY <1>4, <1>5, <1>7 DEF HeldInv, Opening
<1>9. At("forget")'
  BY <1>4, <1>7 DEF At
<1>10. AgentInv'
  BY <1>5, <1>9 DEF AgentInv
<1>11. MintInv'
  <2>1. Counted'
    BY <1>9 DEF Counted
  <2>2. Cardinality(minted \cap Privates) <= aborted + 1 /\ aborted \in Nat
    <3>1. IsFiniteSet(minted \cap Privates)
      BY FS_Intersection DEF StepInv, MintInv
    <3>2. Cardinality(minted \cap Privates) \in Nat
      BY <3>1, FS_CardinalityType
    <3> QED BY <3>2 DEF StepInv, MintInv
  <2> QED BY <1>5, <2>1, <2>2 DEF StepInv, MintInv
<1> QED BY <1>7, <1>8, <1>10, <1>11 DEF StepInv

LEMMA ForgetSteps ==
  ASSUME Typed, Typed', StepInv, Forget
  PROVE  StepInv'
<1>1. stack # <<>> /\ Top.pc = "forget"
  BY DEF Forget, At
<1>2. Top \in Calls /\ Proper(Top, minted) /\ (Top.op = "initialize" \/ Top.op = "walletProof")
  BY <1>1, TopProper DEF Calls
<1>3. /\ UNCHANGED <<minted, ident, stray, wallet>> /\ agent' = None /\ aborted' = aborted + 1
      /\ ident = None
  BY <1>1 DEF Forget, StepInv, HeldInv
<1>4. PICK g : /\ Become(g) /\ g.op = Top.op /\ g.loaded = Top.loaded
               /\ \/ g.pc = "create" /\ g.then = Top.then /\ g.after = Top.after
                  \/ Starts(g) /\ g.pc \in {"ping", "mint"} /\ g.then = "mint"
  <2>1. CASE Top.after = "create"
    <3> DEFINE h == [Top EXCEPT !.pc = "create"]
    <3>1. "create" \in Steps
      BY DEF Steps, Waits
    <3>2. /\ h.op = Top.op /\ h.loaded = Top.loaded /\ h.pc = "create" /\ h.then = Top.then
          /\ h.after = Top.after /\ Become(h)
      BY <1>2, <2>1, <3>1, Moved DEF Forget
    <3> HIDE DEF h
    <3> QED BY <3>2
  <2>2. CASE Top.after # "create"
    <3> DEFINE f == [Top EXCEPT !.then = "mint"]
    <3>1. f \in Calls /\ f.then = "mint" /\ f.op = Top.op /\ f.loaded = Top.loaded
      BY <1>2 DEF Calls, Steps, Waits
    <3>2. Become(Enter(f))
      BY <2>2 DEF Forget
    <3>3. Starts(Top)
      BY <1>2, <2>2 DEF Proper, Paying, Starts
    <3> HIDE DEF f
    <3>4. /\ Enter(f).pc \in {"ping", "mint"} /\ Enter(f).then = "mint"
          /\ Enter(f).op = Top.op /\ Enter(f).loaded = Top.loaded
      BY <3>1, Entered
    <3> QED BY <3>2, <3>3, <3>4 DEF Starts
  <2> QED BY <2>1, <2>2
<1>5. Proper(g, minted')
  BY <1>1, <1>2, <1>4 DEF Proper, Paying, Starts, Opening, Saving
<1>6. LineInv' /\ stack' # <<>> /\ Top' = g
  BY <1>1, <1>3, <1>4, <1>5, BecomeLine DEF StepInv
<1>7. g.pc \in {"create", "ping", "mint"}
  BY <1>4
<1>8. HeldInv'
  BY <1>3, <1>6, <1>7 DEF HeldInv
<1>9. AgentInv'
  BY <1>3 DEF AgentInv
<1>10. MintInv'
  <2>1. Counted /\ ~Counted'
    BY <1>1, <1>3, <1>6, <1>7 DEF Counted, At
  <2> QED BY <1>3, <2>1 DEF StepInv, MintInv
<1> QED BY <1>6, <1>8, <1>9, <1>10 DEF StepInv

LEMMA MintSteps ==
  ASSUME Typed, Typed', StepInv, AccountsOK, NEW a \in Privates, Mint(a)
  PROVE  StepInv'
<1> DEFINE g == [Top EXCEPT !.pc = "keys"]
<1>1. stack # <<>> /\ Top.pc = "mint" /\ Become(g)
  BY DEF Mint, At, Goto
<1>2. Top \in Calls /\ Proper(Top, minted) /\ Starts(Top)
  BY <1>1, TopProper DEF Opening
<1>3. "keys" \in Steps
  BY DEF Steps, Waits
<1>4. g.op = Top.op /\ g.loaded = Top.loaded /\ g.pc = "keys"
  BY <1>2, <1>3, Moved
<1> HIDE DEF g
<1>5. Maker(Top) /\ Maker(g)
  BY <1>1, <1>2, <1>4 DEF Maker, Starts
<1>6. /\ UNCHANGED <<ident, aborted, stray>> /\ minted' = minted \cup {a} /\ agent' = a
      /\ a \notin minted /\ a # None /\ a \in wallet'.keys /\ ident = None
  <2>1. ident = None
    BY <1>1, <1>5 DEF StepInv, HeldInv
  <2>2. a \in wallet'.keys
    BY DEF Mint, Typed, RowsOK
  <2> QED BY <2>1, <2>2, IdentityAssumption DEF Mint, db
<1>7. Proper(g, minted')
  BY <1>2, <1>4 DEF Proper, Paying, Starts, Opening, Saving
<1>8. /\ LineInv' /\ stack' # <<>> /\ Top' = g
      /\ DOMAIN stack' = DOMAIN stack
      /\ Len(stack) \in DOMAIN stack /\ stack'[Len(stack)] = g
      /\ \A d \in DOMAIN stack : d # Len(stack) => stack'[d] = stack[d]
  BY <1>1, <1>4, <1>6, <1>7, BecomeLine DEF StepInv
<1>9. HeldInv'
  BY <1>4, <1>6, <1>8 DEF HeldInv, Opening
<1>10. \A d \in DOMAIN stack' : Starts(stack'[d]) => Maker(stack'[d])
  <2>1. \A d \in DOMAIN stack : Starts(stack[d]) => d = Len(stack)
    BY <1>2, <1>8 DEF StepInv, LineInv, Top
  <2> QED BY <1>5, <1>8, <2>1
<1>11. AgentInv'
  BY <1>6, <1>10 DEF AgentInv
<1>12. MintInv'
  <2>1. ~Counted /\ Counted'
    BY <1>1, <1>4, <1>6, <1>8 DEF Counted, At
  <2>2. IsFiniteSet(minted) /\ IsFiniteSet(minted \cap Privates)
    BY FS_Intersection DEF StepInv, MintInv
  <2>3. minted' \cap Privates = (minted \cap Privates) \cup {a} /\ a \notin minted \cap Privates
    BY <1>6
  <2>4. Cardinality(minted' \cap Privates) = Cardinality(minted \cap Privates) + 1
    BY <2>2, <2>3, FS_AddElement
  <2>5. IsFiniteSet(minted')
    BY <1>6, <2>2, FS_AddElement
  <2>6. Cardinality(minted \cap Privates) \in Nat
    BY <2>2, FS_CardinalityType
  <2> QED BY <1>6, <2>1, <2>4, <2>5, <2>6 DEF StepInv, MintInv
<1> QED BY <1>8, <1>9, <1>11, <1>12 DEF StepInv

LEMMA MintFailsSteps ==
  ASSUME Typed, Typed', StepInv, MintFails
  PROVE  StepInv'
<1>1. stack # <<>> /\ Top.pc = "mint" /\ GiveUp
  BY DEF MintFails, At
<1>2. Starts(Top) /\ Maker(Top)
  BY <1>1, TopProper DEF Opening, Maker
<1>3. UNCHANGED <<ident, agent, aborted, stray, minted>>
  BY DEF MintFails, db, memory, history
<1>4. Aside
  BY <1>3 DEF Aside, StepInv, MintInv
<1> QED BY <1>1, <1>2, <1>4, GiveUpTurn

LEMMA KeysReadSteps ==
  ASSUME Typed, Typed', StepInv, KeysRead
  PROVE  StepInv'
<1>1. stack # <<>> /\ Top.pc = "keys"
  BY DEF KeysRead, At
<1>2. Top \in Calls /\ Proper(Top, minted) /\ Starts(Top) /\ Maker(Top)
  BY <1>1, TopProper DEF Opening, Maker
<1>3. UNCHANGED <<ident, agent, minted, wallet>> /\ ident = None
  BY <1>1, <1>2 DEF KeysRead, db, memory, StepInv, HeldInv
<1>4. Len(stack) \in DOMAIN stack
  BY <1>1, TopCall DEF Typed
<1>5. \A d \in DOMAIN stack : Starts(stack[d]) => d = Len(stack)
  BY <1>2, <1>4 DEF StepInv, LineInv, Top
<1>6. IsFiniteSet(minted) /\ aborted \in Nat /\ Cardinality(minted \cap Privates) <= aborted + 1
  <2>1. Counted
    BY <1>1 DEF Counted, At
  <2> QED BY <2>1 DEF StepInv, MintInv
<1>7. Cardinality(minted \cap Privates) \in Nat
  BY <1>6, FS_Intersection, FS_CardinalityType
<1>8. CASE Goto("row") /\ UNCHANGED <<aborted, stray>>
  <2> DEFINE g == [Top EXCEPT !.pc = "row"]
  <2>1. "row" \in Steps
    BY DEF Steps
  <2>2. g.op = Top.op /\ g.loaded = Top.loaded /\ g.pc = "row" /\ Become(g)
    BY <1>2, <1>8, <2>1, Moved DEF Goto
  <2> HIDE DEF g
  <2>3. Proper(g, minted') /\ Maker(g)
    BY <1>2, <2>2 DEF Proper, Paying, Maker, Starts, Opening, Saving
  <2>4. /\ LineInv' /\ stack' # <<>> /\ Top' = g
        /\ DOMAIN stack' = DOMAIN stack /\ stack'[Len(stack)] = g
        /\ \A d \in DOMAIN stack : d # Len(stack) => stack'[d] = stack[d]
    BY <1>1, <1>3, <2>2, <2>3, BecomeLine DEF StepInv
  <2>5. HeldInv'
    BY <1>1, <1>3, <2>2, <2>4 DEF StepInv, HeldInv, Opening
  <2>6. AgentInv'
    BY <1>3, <1>5, <2>3, <2>4 DEF AgentInv
  <2>7. MintInv'
    <3>1. Counted'
      BY <2>2, <2>4 DEF Counted, At
    <3> QED BY <1>3, <1>6, <1>8, <3>1 DEF MintInv
  <2> QED BY <2>4, <2>5, <2>6, <2>7 DEF StepInv
<1>9. CASE GiveUp /\ aborted' = aborted + 1 /\ stray' = (stray \/ Top.loaded)
  <2>1. MintInv'
    BY <1>3, <1>6, <1>7, <1>9 DEF MintInv
  <2>2. CASE Top.loaded
    <3> DEFINE g == Fund(Top, agent)
    <3>1. Become(g)
      BY <1>9, <2>2 DEF GiveUp
    <3>2. /\ g.op = Top.op /\ Proper(g, minted') /\ ~Maker(g)
          /\ g.pc \in {"done", "balance", "ping"}
      BY <1>2, FundedProper
    <3> HIDE DEF g
    <3>3. LineInv' /\ stack' # <<>> /\ Top' = g
      BY <1>1, <1>3, <3>1, <3>2, BecomeLine DEF StepInv
    <3>4. HeldInv'
      BY <3>2, <3>3 DEF HeldInv
    <3>5. AgentInv'
      <4>1. stray'
        BY <1>9, <2>2
      <4> QED BY <1>3, <4>1 DEF AgentInv
    <3> QED BY <2>1, <3>3, <3>4, <3>5 DEF StepInv
  <2>3. CASE ~Top.loaded
    <3>1. Pop
      BY <1>9, <2>3 DEF GiveUp
    <3>2. /\ LineInv'
          /\ \A d \in DOMAIN stack' : d \in DOMAIN stack /\ stack'[d] = stack[d]
          /\ stack' # <<>> => Top'.pc \in Waits \ {"mint", "keys"} /\ ~Maker(Top')
      BY <1>1, <1>3, <3>1, PopLine DEF StepInv
    <3>3. HeldInv'
      BY <3>2 DEF HeldInv, Waits
    <3>4. \A d \in DOMAIN stack' : d # Len(stack)
      BY <1>1, <3>1, PopStack DEF Typed
    <3>5. AgentInv'
      BY <1>3, <1>5, <3>2, <3>4 DEF AgentInv
    <3> QED BY <2>1, <3>2, <3>3, <3>5 DEF StepInv
  <2> QED BY <2>2, <2>3
<1> QED BY <1>8, <1>9 DEF KeysRead

LEMMA StoreIdentitySteps ==
  ASSUME Typed, Typed', StepInv, StoreIdentity
  PROVE  StepInv'
<1> DEFINE g == [Top EXCEPT !.pc = "save", !.then = "identity"]
<1>1. stack # <<>> /\ Top.pc = "row" /\ Become(g)
  BY DEF StoreIdentity, At, BackUp
<1>2. Top \in Calls /\ Proper(Top, minted) /\ Starts(Top)
  BY <1>1, TopProper DEF Opening
<1>4. g.op = Top.op /\ g.loaded = Top.loaded /\ g.pc = "save" /\ g.then = "identity"
  BY <1>2 DEF Calls
<1> HIDE DEF g
<1>5. /\ UNCHANGED <<agent, minted, aborted, stray>> /\ ident' = agent /\ agent # None
  BY <1>1 DEF StoreIdentity, memory, StepInv, HeldInv
<1>6. Proper(g, minted') /\ ~Maker(g)
  BY <1>2, <1>4 DEF Proper, Paying, Maker, Starts, Opening, Saving
<1>7. LineInv' /\ stack' # <<>> /\ Top' = g
  BY <1>1, <1>4, <1>5, <1>6, BecomeLine DEF StepInv
<1>8. HeldInv'
  BY <1>4, <1>5, <1>6, <1>7 DEF HeldInv
<1>9. AgentInv'
  BY <1>5 DEF AgentInv
<1>10. MintInv'
  <2>1. Counted /\ Counted'
    BY <1>1, <1>5 DEF Counted, At
  <2> QED BY <1>5, <2>1 DEF StepInv, MintInv
<1> QED BY <1>7, <1>8, <1>9, <1>10 DEF StepInv

-------------------------------------------------------------------------------
(***************************************************************************)
(* Calls that begin, and faults.                                           *)
(***************************************************************************)
LEMMA BeginSteps ==
  ASSUME Typed, Typed', StepInv, Initialize \/ WalletProof
  PROVE  StepInv'
<1>1. PICK op \in {"initialize", "walletProof"}, then \in {"ask", "mint", "done"} :
        /\ Begin(Boot(op, then))
        /\ \/ /\ op = "initialize" /\ FirstCall
              /\ then = IF ident # None THEN "ask" ELSE "mint"
           \/ op = "walletProof" /\ then = "done" /\ ident # None
  BY DEF Initialize, WalletProof
<1> DEFINE f == Boot(op, then)
           g == Enter(f)
<1>2. /\ f \in Calls /\ f.op = op /\ f.then = then /\ f.after = "create"
      /\ f.loaded = (ident # None)
  BY <1>1 DEF Boot, Calls, Steps, Waits
<1>3. /\ g \in Calls /\ g.op = op /\ g.then = then /\ g.loaded = (ident # None)
      /\ g.pc \in {then, "ping"}
  BY <1>2, Entered
<1>4. g.after = "create"
  BY <1>2, Moved DEF Enter, Calls, Steps, Waits
<1>5. Parked(Waits) /\ Push(g)
  BY <1>1 DEF Begin
<1>6. /\ UNCHANGED <<ident, minted, aborted, stray>>
      /\ agent' = IF ident # None THEN ident ELSE agent
  BY <1>1 DEF Begin, db, history
<1> HIDE DEF f, g
<1>7. /\ Len(stack) \in Nat /\ Len(stack') = Len(stack) + 1
      /\ DOMAIN stack = 1..Len(stack) /\ DOMAIN stack' = 1..(Len(stack) + 1)
      /\ stack' # <<>> /\ Top' = g /\ stack'[Len(stack) + 1] = g
      /\ \A d \in DOMAIN stack : d # Len(stack) + 1 /\ stack'[d] = stack[d]
  BY <1>3, <1>5, PushStack DEF Typed
<1>8. Proper(g, minted')
  BY <1>1, <1>3, <1>4 DEF Proper, Paying, Starts, Opening, Saving
<1>9. stack # <<>> => ~Maker(Top) /\ Top.pc \in Waits \ {"keys"}
  <2> SUFFICES ASSUME stack # <<>> PROVE ~Maker(Top) /\ Top.pc \in Waits \ {"keys"}
    OBVIOUS
  <2>1. Len(stack) \in DOMAIN stack /\ (Top.pc = "keys" => Starts(Top))
    BY TopCall, TopProper DEF Typed, Opening
  <2>2. ~Maker(Top)
    BY <1>1, <2>1 DEF StepInv, HeldInv, FirstCall, Maker, Starts, Top
  <2> QED BY <1>5, <2>1, <2>2 DEF Parked, Maker
<1>10. ASSUME NEW d \in DOMAIN stack'
       PROVE  Proper(stack'[d], minted') /\ (d # Len(stack') => ~Maker(stack'[d]))
  <2>1. CASE d = Len(stack) + 1
    BY <1>7, <1>8, <2>1
  <2>2. CASE d # Len(stack) + 1
    <3>1. d \in DOMAIN stack /\ stack'[d] = stack[d]
      BY <1>7, <2>2
    <3>2. Proper(stack[d], minted) /\ ~Maker(stack[d])
      BY <1>9, <3>1 DEF StepInv, LineInv, Top
    <3> QED BY <1>6, <3>1, <3>2
  <2> QED BY <2>1, <2>2
<1>11. Starts(g) => \A d \in DOMAIN stack : ~Starts(stack[d])
  BY <1>1, <1>3 DEF FirstCall, Starts
<1>12. \A d, e \in DOMAIN stack' : Starts(stack'[d]) /\ Starts(stack'[e]) => d = e
  <2>1. \A d \in DOMAIN stack' : d = Len(stack) + 1 \/ d \in DOMAIN stack
    BY <1>7
  <2> QED BY <1>7, <1>11, <2>1 DEF StepInv, LineInv
<1>13. LineInv'
  BY <1>10, <1>12 DEF LineInv
<1>14. Maker(g) => ident = None
  BY <1>1, <1>3 DEF Maker, Starts
<1>15. g.pc \notin {"keys", "row", "forget", "reset"}
  BY <1>1, <1>3
<1>16. HeldInv'
  <2>1. Maker(g) /\ g.loaded => FALSE
    BY <1>3, <1>14
  <2> QED BY <1>6, <1>7, <1>14, <1>15, <2>1 DEF HeldInv
<1>17. AgentInv'
  <2>1. ASSUME ident' = None, NEW d \in DOMAIN stack', Starts(stack'[d])
        PROVE  Maker(stack'[d])
    <3>1. op = "initialize" /\ then = "mint"
      BY <1>1, <1>6, <2>1
    <3>2. Starts(g) /\ Maker(g)
      BY <1>3, <3>1 DEF Maker, Starts, Opening
    <3>3. d = Len(stack) + 1
      BY <1>7, <1>11, <2>1, <3>2
    <3> QED BY <1>7, <3>2, <3>3
  <2> QED BY <1>6, <2>1 DEF AgentInv
<1>18. MintInv'
  <2>1. Counted' <=> Counted
    BY <1>6, <1>7, <1>9, <1>15 DEF Counted, At, Waits
  <2> QED BY <1>6, <2>1 DEF StepInv, MintInv
<1> QED BY <1>13, <1>16, <1>17, <1>18 DEF StepInv

LEMMA FaultSteps ==
  ASSUME Typed, StepInv, Fault
  PROVE  StepInv'
<1>1. ASSUME NEW a \in BOOLEAN, NEW w \in BOOLEAN, Crash(a, w), a
      PROVE  StepInv'
  <2>1. /\ stack' = <<>> /\ agent' = None /\ UNCHANGED <<ident, minted>>
        /\ aborted' = aborted + IF Working({"keys", "row", "forget"}) THEN 1 ELSE 0
    BY <1>1 DEF Crash, db
  <2>2. DOMAIN stack' = {}
    BY <2>1
  <2>3. LineInv' /\ HeldInv' /\ AgentInv'
    BY <2>1, <2>2 DEF LineInv, HeldInv, AgentInv
  <2>4. MintInv'
    <3>1. Counted => ident # None \/ Working({"keys", "row", "forget"})
      <4>1. stack # <<>> => Len(stack) \in DOMAIN stack
        BY TopCall DEF Typed
      <4> QED BY <4>1 DEF Counted, At, Working, Top
    <3>2. ident # None => Counted'
      BY <2>1 DEF Counted
    <3>3. /\ IsFiniteSet(minted) /\ aborted \in Nat
          /\ Cardinality(minted \cap Privates) \in Nat
          /\ Cardinality(minted \cap Privates) <= aborted + IF Counted THEN 1 ELSE 0
      BY FS_Intersection, FS_CardinalityType DEF StepInv, MintInv
    <3> QED BY <2>1, <3>1, <3>2, <3>3 DEF MintInv
  <2> QED BY <2>3, <2>4 DEF StepInv
<1>2. ASSUME UNCHANGED <<stack, ident, agent, minted, aborted, stray>>,
             wallet'.path # "none" => wallet' = wallet
      PROVE  StepInv'
  <2>1. LineInv' /\ AgentInv'
    BY <1>2 DEF StepInv, LineInv, AgentInv, At, Top
  <2>2. HeldInv'
    BY <1>2 DEF StepInv, HeldInv, Top
  <2>3. MintInv'
    <3>1. Counted' <=> Counted
      BY <1>2 DEF Counted, At, Top
    <3> QED BY <1>2, <3>1 DEF StepInv, MintInv
  <2> QED BY <2>1, <2>2, <2>3 DEF StepInv
<1>3. ASSUME NEW a \in BOOLEAN, NEW w \in BOOLEAN, Crash(a, w), ~a
      PROVE  StepInv'
  BY <1>2, <1>3 DEF Crash, Closed, db, memory
<1>4. ASSUME NEW st \in {"absent", "damaged"}, FileFault(st)
      PROVE  StepInv'
  BY <1>2, <1>4 DEF FileFault, db, memory, history
<1> QED BY <1>1, <1>3, <1>4 DEF Fault

LEMMA StepInvKept ==
  ASSUME Typed, StepInv, AccountsOK, [IdentityNext]_vars
  PROVE  StepInv'
<1>1. Typed'
  BY TypedStep
<1>2. CASE CreateIdentity
  BY <1>1, <1>2, CheckSteps, ResetSteps, ForgetSteps, MintFailsSteps, KeysReadSteps,
     StoreIdentitySteps, BackUpSteps, MintSteps DEF CreateIdentity
<1>3. CASE Done
  <2>1. stack # <<>> /\ Top.pc = "done" /\ Pop
    BY <1>3 DEF Done, At
  <2>2. Aside
    BY <1>3 DEF Done, Aside, db, memory, history, StepInv, MintInv
  <2> QED BY <2>1, <2>2, AsidePop DEF Rare
<1>4. CASE UNCHANGED vars
  <2>1. UNCHANGED <<stack, ident, agent, minted, aborted, stray, wallet>>
    BY <1>4 DEF vars, db, memory, history
  <2>2. LineInv' /\ AgentInv'
    BY <2>1 DEF StepInv, LineInv, AgentInv, At, Top
  <2>3. HeldInv'
    BY <2>1 DEF StepInv, HeldInv, Top
  <2>4. Counted' <=> Counted
    BY <2>1 DEF Counted, At, Top
  <2> QED BY <2>1, <2>2, <2>3, <2>4 DEF StepInv, MintInv
<1> QED BY <1>1, <1>2, <1>3, <1>4, InitWalletSteps, FundSteps, BeginSteps, FaultSteps
      DEF IdentityNext

-------------------------------------------------------------------------------
(***************************************************************************)
(* Every account that is named, kept or funded was made by the wallet, and *)
(* the bounds hold.                                                        *)
(***************************************************************************)
LEMMA AccountsStep ==
  ASSUME Typed, StepInv, AccountsOK, [IdentityNext]_vars
  PROVE  AccountsOK'
<1> USE DEF AccountsOK
<1>1. ASSUME NEW then, NEW op, Begin(Boot(op, then)) PROVE AccountsOK'
  BY <1>1 DEF Begin, db, files, chain, history, backups
<1>2. CASE InitWallet
  <2> USE DEF db, files, memory, chain, history, backups
  <2>1. ASSUME \/ Pinged \/ PingLost \/ CreateFails PROVE AccountsOK'
    BY <2>1 DEF Pinged, PingLost, CreateFails, WalletFails
  <2>2. CASE OpenMain
    <3>1. ASSUME NEW pc, NextRung(pc, FALSE) PROVE AccountsOK'
      BY <3>1 DEF NextRung
    <3>2. CASE /\ Opens("main", main)
               /\ UNCHANGED <<db, files, agent, chain, minted, backups>>
      BY <3>2 DEF Opens, backups
    <3> QED BY <2>2, <3>1, <3>2 DEF OpenMain
  <2>3. CASE OpenMainLost
    BY <2>3 DEF OpenMainLost
  <2>4. CASE OpenBackup
    <3>1. CASE NextRung("triage", FALSE)
      BY <3>1 DEF NextRung
    <3>2. CASE /\ Opens("bak", bak)
               /\ UNCHANGED <<db, files, memory, chain, minted, backups>>
      BY <3>2 DEF Opens, backups
    <3> QED BY <2>4, <3>1, <3>2 DEF OpenBackup
  <2>5. CASE OpenBackupLost
    BY <2>5 DEF OpenBackupLost
  <2>6. CASE Triage
    <3>1. CASE main' = NoFile /\ spurned' = spurned \cup PassedOver
      BY <2>6, <3>1 DEF Triage, NoFile, PassedOver, NextRung, WalletFails
    <3>2. CASE UNCHANGED <<db, files, wallet, memory, chain, counts, history>>
      BY <3>2
    <3> QED BY <2>6, <3>1, <3>2 DEF Triage, NextRung, WalletFails
  <2>7. CASE CreateWallet
    BY <2>7 DEF CreateWallet, PassedOver
  <2>8. CASE Promote
    BY <2>8 DEF Promote
  <2> QED BY <1>2, <2>1, <2>2, <2>3, <2>4, <2>5, <2>6, <2>7, <2>8 DEF InitWallet
<1>3. CASE CreateIdentity
  <2> USE DEF db, files, memory, chain, history, backups
  <2>1. ASSUME Ask \/ Checked \/ CheckLost \/ MintFails \/ KeysRead \/ IdentityMade
        PROVE  AccountsOK'
    BY <2>1 DEF Ask, Checked, CheckLost, MintFails, KeysRead, IdentityMade
  <2>2. ASSUME Reset \/ Forget \/ StoreIdentity PROVE AccountsOK'
    BY <2>2 DEF Reset, Forget, StoreIdentity
  <2>3. ASSUME NEW a \in Privates, Mint(a) PROVE AccountsOK'
    <3>1. a \in Accounts
      BY <2>3 DEF Accounts
    <3>2. /\ minted' = minted \cup {a} /\ agent' = a
          /\ wallet' = [wallet EXCEPT !.keys = @ \cup {a}]
          /\ UNCHANGED <<ident, faucet, main, bak, landed, holding, unbacked, spurned>>
      BY <2>3 DEF Mint
    <3>3. wallet'.keys = wallet.keys \cup {a}
      BY <3>2 DEF Typed, RowsOK
    <3> QED BY <2>3, <3>1, <3>2, <3>3
  <2>4. CASE Save
    BY <2>4 DEF Save
  <2>5. CASE Copy
    BY <2>5 DEF Copy, InUse
  <2> QED BY <1>3, <2>1, <2>2, <2>3, <2>4, <2>5 DEF CreateIdentity
<1>4. CASE FundAgent
  <2> USE DEF db, files, memory, chain, history, backups
  <2>1. ASSUME BalanceRead \/ ClaimFails \/ Verified \/ Registered PROVE AccountsOK'
    BY <2>1 DEF BalanceRead, ClaimFails, Verified, Registered
  <2>2. ASSUME NEW p \in Publics, CreatePublic(p) PROVE AccountsOK'
    <3>1. p \in Accounts
      BY <2>2 DEF Accounts
    <3>2. /\ minted' = minted \cup {p}
          /\ wallet' = [wallet EXCEPT !.keys = @ \cup {p}]
          /\ UNCHANGED <<ident, agent, faucet, main, bak, landed, holding, unbacked, spurned>>
      BY <2>2 DEF CreatePublic
    <3>3. wallet'.keys = wallet.keys \cup {p}
      BY <3>2 DEF Typed, RowsOK
    <3> QED BY <2>2, <3>1, <3>2, <3>3
  <2>5. ASSUME NEW seen \in BOOLEAN, PinataClaimed(seen) PROVE AccountsOK'
    <3>1. stack # <<>> /\ Top.pc = "pinata"
      BY <2>5 DEF PinataClaimed, At
    <3>2. Top.who \in minted
      BY <3>1, TopProper DEF Proper, Paying
    <3> QED BY <2>5, <3>2 DEF PinataClaimed
  <2>3. CASE Remember
    <3>1. stack # <<>> /\ Top.pc = "remember"
      BY <2>3 DEF Remember, At
    <3>2. Top.who \in Publics /\ Top.who \in minted
      BY <3>1, TopProper DEF Proper, Paying
    <3> QED BY <2>3, <3>2 DEF Remember
  <2>4. CASE Transfer
    <3>1. /\ holding' \subseteq holding
          /\ landed' = landed \/ (agent # None /\ landed' = landed \cup {agent})
      BY <2>4 DEF Transfer
    <3>2. UNCHANGED <<ident, agent, faucet, minted, main, bak, wallet, unbacked, spurned>>
      BY <2>4 DEF Transfer
    <3> QED BY <3>1, <3>2
  <2> QED BY <1>4, <2>1, <2>2, <2>3, <2>4, <2>5 DEF FundAgent
<1>5. CASE Fault
  <2>1. ASSUME NEW a \in BOOLEAN, NEW w \in BOOLEAN, Crash(a, w) PROVE AccountsOK'
    BY <2>1 DEF Crash, Closed, Written, Damaged, InUse, db, files, memory, chain
  <2>2. ASSUME NEW st \in {"absent", "damaged"}, FileFault(st) PROVE AccountsOK'
    BY <2>2 DEF FileFault, db, memory, chain, history, backups
  <2> QED BY <1>5, <2>1, <2>2 DEF Fault
<1>6. CASE Done
  BY <1>6 DEF Done, db, files, memory, chain, history, backups
<1>7. CASE UNCHANGED vars
  BY <1>7 DEF vars, db, files, memory, chain, history, backups
<1> QED BY <1>1, <1>2, <1>3, <1>4, <1>5, <1>6, <1>7
      DEF IdentityNext, Initialize, WalletProof

LEMMA BoundsStep ==
  ASSUME Typed, BoundsOK, [IdentityNext]_vars
  PROVE  BoundsOK'
<1> USE DEF BoundsOK
<1>1. ASSUME NEW f, Begin(f) PROVE BoundsOK'
  <2>1. initialized' \in BOOLEAN /\ funded' \in BOOLEAN
    BY <1>1 DEF Begin, db
  <2>2. boots < MaxBoots /\ boots' = boots + 1 /\ faults' = faults
    BY <1>1 DEF Begin
  <2>3. boots' \in Nat /\ boots' <= MaxBoots
    BY <2>2, IdentityAssumption
  <2> QED BY <2>1, <2>2, <2>3
<1>2. CASE Fault
  <2>1. initialized' \in BOOLEAN /\ funded' \in BOOLEAN
    BY <1>2 DEF Fault, Crash, FileFault, db, memory
  <2>2. faults < MaxFaults /\ faults' = faults + 1 /\ boots' = boots
    BY <1>2 DEF Fault, Crash, FileFault
  <2>3. faults' \in Nat /\ faults' <= MaxFaults
    BY <2>2, IdentityAssumption
  <2> QED BY <2>1, <2>2, <2>3
<1>3. ASSUME UNCHANGED counts, funded' \in BOOLEAN, initialized' \in BOOLEAN
      PROVE  BoundsOK'
  BY <1>3 DEF counts
<1>4. CASE InitWallet
  <2> USE DEF WalletFails, Opens, NextRung, db, memory
  <2>1. CASE Pinged \/ PingLost \/ CreateFails \/ OpenMain \/ OpenMainLost
    BY <1>3, <2>1 DEF Pinged, PingLost, CreateFails, OpenMain, OpenMainLost
  <2>2. CASE OpenBackup \/ OpenBackupLost \/ Promote \/ Triage \/ CreateWallet
    BY <1>3, <2>2 DEF OpenBackup, OpenBackupLost, Promote, Triage, CreateWallet
  <2> QED BY <1>4, <2>1, <2>2 DEF InitWallet
<1>5. CASE CreateIdentity
  <2> USE DEF db, memory
  <2>1. CASE Ask \/ Checked \/ CheckLost \/ MintFails \/ KeysRead
    BY <1>3, <2>1 DEF Ask, Checked, CheckLost, MintFails, KeysRead
  <2>2. CASE IdentityMade \/ Save \/ Copy
    BY <1>3, <2>2 DEF IdentityMade, Save, Copy
  <2>3. CASE Reset \/ Forget \/ StoreIdentity
    BY <1>3, <2>3 DEF Reset, Forget, StoreIdentity, counts
  <2>4. ASSUME NEW a \in Privates, Mint(a) PROVE BoundsOK'
    BY <1>3, <2>4 DEF Mint
  <2> QED BY <1>5, <2>1, <2>2, <2>3, <2>4 DEF CreateIdentity
<1>6. CASE FundAgent
  BY <1>3, <1>6 DEF FundAgent, BalanceRead, ClaimFails, Remember, Transfer, Verified,
                    CreatePublic, Registered, PinataClaimed, counts, db, memory
<1>7. CASE Done \/ UNCHANGED vars
  BY <1>3, <1>7 DEF Done, vars, db, memory
<1> QED BY <1>1, <1>2, <1>4, <1>5, <1>6, <1>7 DEF IdentityNext, Initialize, WalletProof

\* How deep the event loops nest.
LEMMA DepthStep ==
  ASSUME Typed, Len(stack) <= MaxDepth, [IdentityNext]_vars
  PROVE  Len(stack') <= MaxDepth
<1> DEFINE Turns == Pop \/ \E f : Become(f)
<1>1. Typed'
  BY TypedStep
<1>2. ASSUME stack # <<>>, Turns PROVE Len(stack') <= MaxDepth
  <2>1. Len(stack) \in Nat \ {0} /\ DOMAIN stack = 1..Len(stack)
    BY <1>2, TopCall DEF Typed
  <2>2. CASE Pop
    <3>1. Len(stack') = Len(stack) - 1
      BY <1>2, <2>2, PopStack DEF Typed
    <3> QED BY <2>1, <3>1, LoopAssumption
  <2>3. ASSUME NEW f, Become(f) PROVE Len(stack') <= MaxDepth
    <3>1. DOMAIN stack' = 1..Len(stack)
      BY <2>1, <2>3 DEF Become, Typed, CallsOK
    <3>2. Len(stack') \in Nat /\ DOMAIN stack' = 1..Len(stack')
      BY <1>1 DEF Typed, CallsOK
    <3>3. Len(stack') = Len(stack)
      BY <2>1, <3>1, <3>2
    <3> QED BY <3>3
  <2> QED BY <1>2, <2>2, <2>3
<1>3. (GiveUp => Turns) /\ (Closes => Turns) /\ (\A pc : Goto(pc) => Turns)
      /\ (\A then : BackUp(then) => Turns)
  BY DEF GiveUp, Closes, Goto, BackUp
<1>4. \A f : Become(f) => Turns
  OBVIOUS
<1> HIDE DEF Turns
<1>5. CASE InitWallet
  <2>1. stack # <<>>
    BY <1>5 DEF InitWallet, Pinged, PingLost, OpenMain, OpenMainLost, OpenBackup,
                OpenBackupLost, Promote, Triage, CreateWallet, CreateFails, At
  <2>2. Turns
    <3>1. CASE Pinged \/ PingLost \/ CreateFails \/ OpenMain \/ OpenMainLost
      BY <1>3, <1>4, <3>1 DEF Pinged, PingLost, CreateFails, OpenMain, OpenMainLost,
                              WalletFails, Opens, NextRung
    <3>2. CASE OpenBackup \/ OpenBackupLost \/ Promote \/ Triage \/ CreateWallet
      BY <1>3, <1>4, <3>2 DEF OpenBackup, OpenBackupLost, Promote, Triage, CreateWallet,
                              WalletFails, Opens, NextRung
    <3> QED BY <1>5, <3>1, <3>2 DEF InitWallet
  <2> QED BY <1>2, <2>1, <2>2
<1>6. CASE CreateIdentity
  <2>1. stack # <<>>
    BY <1>6 DEF CreateIdentity, Ask, Checked, CheckLost, Reset, Forget, MintFails, KeysRead,
                StoreIdentity, Save, Copy, IdentityMade, Mint, At
  <2>2. Turns
    BY <1>3, <1>4, <1>6 DEF CreateIdentity, Ask, Checked, CheckLost, Reset, Forget, MintFails,
                KeysRead, StoreIdentity, Save, Copy, IdentityMade, Mint
  <2> QED BY <1>2, <2>1, <2>2
<1>7. CASE FundAgent
  <2>1. stack # <<>>
    BY <1>7 DEF FundAgent, BalanceRead, ClaimFails, Remember, Transfer, Verified,
                CreatePublic, Registered, PinataClaimed, At
  <2>2. Turns
    <3>1. Pop => Turns
      BY DEF Turns
    <3> QED BY <1>3, <1>4, <1>7, <3>1 DEF FundAgent, BalanceRead, ClaimFails, Remember,
                                          Transfer, Verified, CreatePublic, Registered,
                                          PinataClaimed
  <2> QED BY <1>2, <2>1, <2>2
<1>8. CASE Done
  BY <1>2, <1>8 DEF Done, At, Turns
<1>9. ASSUME NEW f, Begin(f) PROVE Len(stack') <= MaxDepth
  <2>1. Len(stack) \in Nat /\ Len(stack) < MaxDepth /\ stack' = Append(stack, Enter(f))
    BY <1>9 DEF Begin, Push, Typed, CallsOK
  <2>2. DOMAIN stack' = 1..(Len(stack) + 1)
    BY <2>1 DEF Typed, CallsOK
  <2>3. Len(stack') \in Nat /\ DOMAIN stack' = 1..Len(stack')
    BY <1>1 DEF Typed, CallsOK
  <2>4. Len(stack') = Len(stack) + 1
    BY <2>1, <2>2, <2>3
  <2> QED BY <2>1, <2>4, LoopAssumption
<1>10. CASE Fault \/ UNCHANGED vars
  <2>1. stack' = <<>> \/ stack' = stack
    BY <1>10 DEF Fault, Crash, FileFault, vars
  <2> QED BY <2>1, LoopAssumption
<1> QED BY <1>5, <1>6, <1>7, <1>8, <1>9, <1>10 DEF IdentityNext, Initialize, WalletProof

-------------------------------------------------------------------------------
(***************************************************************************)
(* The identity and the open wallet.                                       *)
(***************************************************************************)
LEMMA PairAside ==
  ASSUME PairInv, ident' = ident, ~answered' \/ UNCHANGED <<answered, agent, wallet>>
  PROVE  PairInv'
BY DEF PairInv

LEMMA PairStep ==
  ASSUME Typed, StepInv, AccountsOK, PairInv, [IdentityNext]_vars
  PROVE  PairInv'
<1>1. ASSUME NEW then, NEW op, Begin(Boot(op, then)) PROVE PairInv'
  <2>1. /\ UNCHANGED <<ident, answered, wallet>>
        /\ ident # None => agent' = ident
    BY <1>1 DEF Begin, db, history
  <2> QED BY <2>1 DEF PairInv
<1>2. CASE InitWallet
  <2> USE DEF db, files, memory, chain, history
  <2>1. ASSUME \/ Pinged \/ PingLost \/ CreateFails PROVE PairInv'
    BY <2>1, PairAside DEF Pinged, PingLost, CreateFails, WalletFails
  <2>2. ASSUME NEW pc, NEW silent, NextRung(pc, silent) PROVE PairInv'
    BY <2>2, PairAside DEF NextRung
  <2>3. CASE OpenMain \/ OpenBackup
    BY <2>2, <2>3, PairAside DEF OpenMain, OpenBackup, Opens
  <2>4. CASE OpenMainLost \/ OpenBackupLost
    BY <2>4, PairAside DEF OpenMainLost, OpenBackupLost
  <2>5. CASE Promote
    BY <2>5, PairAside DEF Promote
  <2>6. CASE Triage
    BY <2>2, <2>6, PairAside DEF Triage, WalletFails
  <2>7. CASE CreateWallet
    BY <2>7, PairAside DEF CreateWallet
  <2> QED BY <1>2, <2>1, <2>3, <2>4, <2>5, <2>6, <2>7 DEF InitWallet
<1>3. CASE CreateIdentity
  <2> USE DEF db, memory, history
  <2>1. ASSUME \/ Ask \/ CheckLost \/ MintFails \/ KeysRead \/ IdentityMade \/ Save \/ Copy
        PROVE  PairInv'
    BY <2>1, PairAside DEF Ask, CheckLost, MintFails, KeysRead, IdentityMade, Save, Copy
  <2>2. CASE Checked
    <3>1. stack # <<>> /\ Top.pc = "check"
      BY <2>2 DEF Checked, At
    <3>2. Top.who # None
      BY <3>1, TopProper DEF Proper
    <3>3. UNCHANGED <<ident, agent, wallet>>
      BY <2>2 DEF Checked
    <3>4. CASE WalletHas
      <4>1. answered' => agent = Top.who /\ Top.who \in wallet.keys
        BY <2>2, <3>4 DEF Checked, WalletHas
      <4>2. ident # None /\ answered' => agent = ident /\ ident \in wallet.keys
        BY <3>2, <4>1 DEF StepInv, AgentInv
      <4> QED BY <3>3, <4>2 DEF PairInv
    <3>5. CASE ~WalletHas
      BY <2>2, <3>3, <3>5, PairAside DEF Checked
    <3> QED BY <3>4, <3>5
  <2>3. CASE Reset
    BY <2>3 DEF Reset, PairInv
  <2>4. CASE Forget
    <3>1. ident = None
      BY <2>4 DEF Forget, At, StepInv, HeldInv
    <3>2. ident' = None
      BY <2>4, <3>1 DEF Forget
    <3> QED BY <3>2 DEF PairInv
  <2>5. ASSUME NEW a \in Privates, Mint(a) PROVE PairInv'
    <3>1. stack # <<>> /\ Top.pc = "mint"
      BY <2>5 DEF Mint, At
    <3>2. Maker(Top)
      BY <3>1, TopProper DEF Opening, Maker
    <3>3. ident' = None
      BY <2>5, <3>1, <3>2 DEF Mint, StepInv, HeldInv
    <3> QED BY <3>3 DEF PairInv
  <2>6. CASE StoreIdentity
    <3>1. stack # <<>> /\ Top.pc = "row"
      BY <2>6 DEF StoreIdentity, At
    <3>2. ident' = agent /\ agent' = agent /\ wallet' = wallet
      BY <2>6 DEF StoreIdentity
    <3>3. wallet.path # "none" => agent \in wallet.keys
      BY <3>1 DEF StepInv, HeldInv
    <3> QED BY <3>2, <3>3 DEF PairInv
  <2> QED BY <1>3, <2>1, <2>2, <2>3, <2>4, <2>5, <2>6 DEF CreateIdentity
<1>4. CASE FundAgent
  <2> USE DEF db, memory, history
  <2>1. ASSUME \/ BalanceRead \/ ClaimFails \/ Remember \/ Transfer \/ Verified \/ Registered
               \/ \E seen \in BOOLEAN : PinataClaimed(seen)
        PROVE  PairInv'
    BY <2>1, PairAside DEF BalanceRead, ClaimFails, Remember, Transfer, Verified, Registered,
                           PinataClaimed
  <2>2. ASSUME NEW p \in Publics, CreatePublic(p) PROVE PairInv'
    <3>1. UNCHANGED <<ident, answered, agent>>
      BY <2>2 DEF CreatePublic
    <3>2. wallet'.path = wallet.path /\ wallet.keys \subseteq wallet'.keys
      BY <2>2 DEF CreatePublic, Typed, RowsOK
    <3> QED BY <3>1, <3>2 DEF PairInv
  <2> QED BY <1>4, <2>1, <2>2 DEF FundAgent
<1>5. CASE Fault
  <2>1. ASSUME NEW a \in BOOLEAN, NEW w \in BOOLEAN, Crash(a, w), a PROVE PairInv'
    BY <2>1, PairAside DEF Crash, db
  <2>2. ASSUME NEW a \in BOOLEAN, NEW w \in BOOLEAN, Crash(a, w), ~a PROVE PairInv'
    <3>1. UNCHANGED <<ident, agent, answered>>
      BY <2>2 DEF Crash, db, memory
    <3>2. wallet'.path = "none" \/ wallet' = wallet
      BY <2>2 DEF Crash, Closed
    <3> QED BY <3>1, <3>2 DEF PairInv
  <2>3. ASSUME NEW st \in {"absent", "damaged"}, FileFault(st) PROVE PairInv'
    BY <2>3, PairAside DEF FileFault, db, memory, history
  <2> QED BY <1>5, <2>1, <2>2, <2>3 DEF Fault
<1>6. CASE Done
  BY <1>6, PairAside DEF Done, db, memory, history
<1>7. CASE UNCHANGED vars
  BY <1>7 DEF vars, db, memory, history, PairInv
<1> QED BY <1>1, <1>2, <1>3, <1>4, <1>5, <1>6, <1>7
      DEF IdentityNext, Initialize, WalletProof

-------------------------------------------------------------------------------
(***************************************************************************)
(* The money.                                                              *)
(***************************************************************************)
LEMMA FundedAside ==
  ASSUME FundedMeansLanded, UNCHANGED <<ident, funded>>, stray => stray',
         landed \subseteq landed', ~At("forget")
  PROVE  FundedMeansLanded'
BY DEF FundedMeansLanded

LEMMA FundedStep ==
  ASSUME Typed, StepInv, AccountsOK, FundedMeansLanded, [IdentityNext]_vars
  PROVE  FundedMeansLanded'
<1>1. ASSUME NEW then, NEW op, Begin(Boot(op, then)) PROVE FundedMeansLanded'
  <2>1. ~At("forget")
    BY <1>1 DEF Begin, Parked, At, Waits
  <2> QED BY <1>1, <2>1, FundedAside DEF Begin, db, chain, history
<1>2. CASE InitWallet
  <2> USE DEF db, chain, history
  <2>0. ~At("forget")
    BY <1>2 DEF InitWallet, Pinged, PingLost, OpenMain, OpenMainLost, OpenBackup,
                OpenBackupLost, Promote, Triage, CreateWallet, CreateFails, At
  <2>1. UNCHANGED <<ident, funded, stray, landed>>
    <3> USE DEF WalletFails, Opens, NextRung
    <3>1. CASE Pinged \/ PingLost \/ CreateFails \/ OpenMain \/ OpenMainLost
      BY <3>1 DEF Pinged, PingLost, CreateFails, OpenMain, OpenMainLost
    <3>2. CASE OpenBackup \/ OpenBackupLost \/ Promote \/ Triage \/ CreateWallet
      BY <3>2 DEF OpenBackup, OpenBackupLost, Promote, Triage, CreateWallet
    <3> QED BY <1>2, <3>1, <3>2 DEF InitWallet
  <2> QED BY <2>0, <2>1, FundedAside
<1>3. CASE CreateIdentity
  <2> USE DEF db, chain, history
  <2>1. ASSUME Ask \/ Checked \/ CheckLost \/ MintFails \/ KeysRead PROVE FundedMeansLanded'
    <3>1. UNCHANGED <<ident, funded, landed>> /\ ~At("forget")
      BY <2>1 DEF Ask, Checked, CheckLost, MintFails, KeysRead, At
    <3>2. stray => stray'
      BY Zenon, <2>1 DEF Ask, Checked, CheckLost, MintFails, KeysRead
    <3> QED BY <3>1, <3>2, FundedAside
  <2>2. ASSUME IdentityMade \/ Copy \/ Save PROVE FundedMeansLanded'
    BY <2>2, FundedAside DEF IdentityMade, Copy, Save, At
  <2>3. ASSUME NEW a \in Privates, Mint(a) PROVE FundedMeansLanded'
    BY <2>3, FundedAside DEF Mint, At
  <2>4. CASE Reset
    <3> DEFINE g == [Top EXCEPT !.pc = "forget"]
    <3>1. stack # <<>> /\ Become(g)
      BY <2>4 DEF Reset, At, Goto
    <3>2. Top \in Calls /\ "forget" \in Steps
      BY <3>1, TopProper DEF Steps
    <3>3. g \in Calls /\ g.pc = "forget"
      BY <3>2, Moved
    <3> HIDE DEF g
    <3>4. At("forget")'
      BY <3>1, <3>3, BecomeStack DEF Typed, At
    <3> QED BY <3>4 DEF FundedMeansLanded
  <2>5. CASE Forget
    BY <2>5 DEF Forget, FundedMeansLanded
  <2>6. CASE StoreIdentity
    <3>1. stack # <<>> /\ Top.pc = "row" /\ ~At("forget")
      BY <2>6 DEF StoreIdentity, At
    <3>2. Maker(Top)
      BY <3>1, TopProper DEF Opening, Maker
    <3>3. ident = None
      BY <3>1, <3>2 DEF StepInv, HeldInv
    <3>4. ~(funded /\ ~stray)
      BY <3>1, <3>3 DEF FundedMeansLanded
    <3>5. funded' = funded /\ stray' = stray
      BY <2>6 DEF StoreIdentity
    <3> QED BY <3>4, <3>5 DEF FundedMeansLanded
  <2> QED BY <1>3, <2>1, <2>2, <2>3, <2>4, <2>5, <2>6 DEF CreateIdentity
<1>4. CASE FundAgent
  <2> USE DEF db, chain, history
  <2>1. ASSUME \/ BalanceRead \/ ClaimFails \/ Remember \/ Transfer \/ Registered
               \/ \E seen \in BOOLEAN : PinataClaimed(seen)
        PROVE  FundedMeansLanded'
    <3>1. UNCHANGED <<ident, funded, stray>> /\ landed \subseteq landed' /\ ~At("forget")
      BY <2>1 DEF BalanceRead, ClaimFails, Remember, Transfer, Registered, PinataClaimed, At
    <3> QED BY <3>1, FundedAside
  <2>2. ASSUME NEW p \in Publics, CreatePublic(p) PROVE FundedMeansLanded'
    BY <2>2, FundedAside DEF CreatePublic, At
  <2>3. CASE Verified
    <3>1. stack # <<>> /\ Top.pc = "verify" /\ ~At("forget")
      BY <2>3 DEF Verified, At
    <3>2. UNCHANGED <<ident, landed>> /\ stray' = stray
      BY <2>3 DEF Verified
    <3>3. CASE funded' = funded
      BY <3>1, <3>2, <3>3, FundedAside
    <3>4. CASE agent \in landed
      <4>1. agent # None
        BY <3>4, IdentityAssumption DEF AccountsOK, Accounts
      <4>2. Starts(Top) /\ ~Maker(Top) /\ Len(stack) \in DOMAIN stack
        BY <3>1, TopProper, TopCall DEF Opening, Maker, Typed
      <4>3. ident # None \/ stray
        BY <3>1, <4>1, <4>2 DEF StepInv, AgentInv, Top
      <4>4. ident # None => agent = ident
        BY <4>1 DEF StepInv, AgentInv
      <4> QED BY <3>2, <3>4, <4>3, <4>4 DEF FundedMeansLanded
    <3> QED BY <2>3, <3>3, <3>4 DEF Verified
  <2> QED BY <1>4, <2>1, <2>2, <2>3 DEF FundAgent
<1>5. CASE Fault
  <2>1. ASSUME NEW a \in BOOLEAN, NEW w \in BOOLEAN, Crash(a, w), a PROVE FundedMeansLanded'
    <3>1. UNCHANGED <<ident, funded, landed>> /\ (stray => stray')
      BY <2>1 DEF Crash, db, chain
    <3>2. At("forget") => stray'
      <4>1. stack # <<>> => Len(stack) \in DOMAIN stack
        BY TopCall DEF Typed
      <4> QED BY <2>1, <4>1 DEF Crash, Working, At, Top
    <3> QED BY <3>1, <3>2 DEF FundedMeansLanded
  <2>2. ASSUME UNCHANGED <<stack, ident, funded, stray, landed>> PROVE FundedMeansLanded'
    BY <2>2 DEF FundedMeansLanded, At, Top
  <2>3. ASSUME NEW a \in BOOLEAN, NEW w \in BOOLEAN, Crash(a, w), ~a
        PROVE  FundedMeansLanded'
    BY <2>2, <2>3 DEF Crash, db, chain
  <2>4. ASSUME NEW st \in {"absent", "damaged"}, FileFault(st) PROVE FundedMeansLanded'
    BY <2>2, <2>4 DEF FileFault, db, chain, history
  <2> QED BY <1>5, <2>1, <2>3, <2>4 DEF Fault
<1>6. CASE Done
  BY <1>6, FundedAside DEF Done, At, db, chain, history
<1>7. CASE UNCHANGED vars
  BY <1>7 DEF vars, db, chain, history, FundedMeansLanded, At, Top
<1> QED BY <1>1, <1>2, <1>3, <1>4, <1>5, <1>6, <1>7
      DEF IdentityNext, Initialize, WalletProof

-------------------------------------------------------------------------------
(***************************************************************************)
(* Backups.  A third invariant: between two calls of backupWallet the      *)
(* backup has the keys in use, except those a history variable names; so   *)
(* has the main file, and so has a wallet that is opened to be asked.      *)
(***************************************************************************)
\* Where an activation is once the wallet is open.
Late == {"mint", "keys", "row", "save", "copy", "identity", "balance", "claim", "register",
         "pinata", "remember", "transfer", "verify"}

Storing(f) == f.pc = "identity" \/ (f.pc \in Saving /\ f.then = "identity")

\* It will ask the wallet for the account, or does.
Verifying(f) == f.then = "ask" /\ f.pc \in Opening \cup {"ask", "check"}

Saves == Working({"save", "copy"})

LateInv ==
  /\ \A d \in DOMAIN stack : stack[d].pc \in Late => opened
  /\ \A d, e \in DOMAIN stack : d < e /\ stack[d].pc \in Late => stack[e].pc = "done"

\* walletProof needs an identity, and then nothing is made.
Barred == \A d \in DOMAIN stack : stack[d].op = "walletProof" => initialized

\* An identity that was not loaded was left by another process, or is being stored.
Fresh ==
  ~initialized /\ ident # None =>
    \/ stack = <<>> /\ ~opened
    \/ \E d \in DOMAIN stack : Storing(stack[d])

\* A wallet is made over a main file that was seen only when the identity is gone.
Anew ==
  \A d \in DOMAIN stack :
    stack[d].pc = "create" /\ stack[d].hadMain => ident = None /\ d = Len(stack)

WhoInv == \A d \in DOMAIN stack : stack[d].pc = "check" => ident \in {None, stack[d].who}

Shaped == (main.st # "wallet" => main.keys = {}) /\ (bak.st # "wallet" => bak.keys = {})

BackedUp == ~Saves => InUse \ unbacked \subseteq bak.keys

MainOK ==
  ~Saves /\ ident # None /\ main.st = "wallet" => ident \in main.keys \cup unbacked \cup spurned

OpenOK ==
  (/\ ident # None /\ wallet.path # "none" /\ (opened \/ At("promote"))
   /\ \E d \in DOMAIN stack : Verifying(stack[d]))
    => ident \in wallet.keys \cup unbacked \cup spurned

ResetOK ==
  At("reset") /\ ident # None =>
    \/ Top.after = "mint" /\ Unopened
    \/ ident \in unbacked \cup spurned

CallInv == LateInv /\ Barred /\ Fresh /\ Anew /\ WhoInv
FileInv == Shaped /\ BackedUp /\ MainOK /\ OpenOK /\ ResetOK

-------------------------------------------------------------------------------
(***************************************************************************)
(* What a step makes of the activation that takes it.                      *)
(***************************************************************************)
Follows(g) ==
  /\ g.op = Top.op
  /\ g.pc \in Late => opened'
  /\ Verifying(g) => Verifying(Top) \/ Top.pc = "forget"
  /\ g.pc = "create" /\ g.hadMain => Top.pc = "forget"
  /\ g.pc = "check" => Top.pc = "ask" /\ g.who = agent /\ agent # None
  /\ g.pc = "reset" =>
       \/ Top.pc = "triage" /\ main.st # "wallet" /\ spurned' = spurned \cup PassedOver
       \/ Top.pc = "check" /\ ~WalletHas /\ g.after = "mint"
  /\ g.pc = "promote" => wallet'.keys = bak.keys
  /\ Top.pc = "save" => g.pc = "copy"
  /\ Top.pc \in {"row", "remember"} => g.pc = "save"
  /\ Storing(Top) \/ Top.pc = "row" => Storing(g) \/ initialized'

Turn ==
  /\ stack # <<>> /\ Top.pc # "done"
  /\ \/ Pop /\ Top.pc \notin Saving \cup {"identity", "row", "remember"}
     \/ \E g \in Calls : Become(g) /\ Follows(g)

LEMMA FundFollows ==
  ASSUME Typed, StepInv, stack # <<>>, Starts(Top), NEW who, opened' = opened,
         Top.pc \notin Saving \cup {"row", "remember"}, Top.pc = "identity" => initialized',
         Become(Fund(Top, who)), Top.pc # "done"
  PROVE  Turn
<1> DEFINE g == Fund(Top, who)
<1>1. Top \in Calls
  BY TopCall DEF Typed
<1>2. g \in Calls /\ g.op = Top.op
      /\ \/ g.pc = "done"
         \/ g.pc = "balance" /\ opened
         \/ g.pc = "ping" /\ g.then = "balance"
  BY <1>1, Funded, FundedProper
<1>3. Become(g)
  OBVIOUS
<1> HIDE DEF g
<1>4. Follows(g)
  BY <1>2 DEF Follows, Verifying, Late, Opening, Storing, Saving
<1> QED BY <1>2, <1>3, <1>4 DEF Turn

LEMMA OpenFollows ==
  ASSUME Typed, StepInv, stack # <<>>, Top.pc \in Opening,
         opened' \/ Top.then = "ask", Goto(Top.then)
  PROVE  Turn
<1> DEFINE g == [Top EXCEPT !.pc = Top.then]
<1>1. Top \in Calls /\ Proper(Top, minted)
  BY TopProper
<1>2. Top.then \in {"ask", "mint", "balance", "done"} /\ Top.then \in Steps
  BY <1>1 DEF Proper, Paying, Starts, Calls
<1>3. /\ g \in Calls /\ g.op = Top.op /\ g.then = Top.then /\ g.pc = Top.then /\ Become(g)
  BY <1>1, <1>2, Moved DEF Goto
<1> HIDE DEF g
<1>4. Follows(g) /\ Top.pc # "done"
  BY <1>2, <1>3 DEF Follows, Verifying, Late, Opening, Storing, Saving
<1> QED BY <1>3, <1>4 DEF Turn

LEMMA CloseFollows ==
  ASSUME Typed, StepInv, stack # <<>>, Top.pc \in Opening, opened' = opened, Closes
  PROVE  Turn
<1>1. Top \in Calls /\ Proper(Top, minted) /\ (Top.then # "done" => Starts(Top))
  BY TopProper
<1>2. Top.pc \notin Saving \cup {"row", "identity", "remember", "done"}
  BY DEF Saving, Opening
<1>3. CASE Top.then = "ask"
  BY <1>3, OpenFollows DEF Closes
<1>4. CASE Top.then = "mint"
  <2>1. GiveUp /\ Starts(Top)
    BY <1>1, <1>4 DEF Closes
  <2>2. CASE Top.loaded
    BY <1>2, <2>1, <2>2, FundFollows DEF GiveUp
  <2>3. CASE ~Top.loaded
    BY <1>2, <2>1, <2>3 DEF GiveUp, Turn
  <2> QED BY <2>2, <2>3
<1>5. CASE Top.then \notin {"ask", "mint"}
  BY <1>2, <1>5 DEF Closes, Turn
<1> QED BY <1>3, <1>4, <1>5

LEMMA WalletTurn ==
  ASSUME Typed, StepInv, InitWallet
  PROVE  Turn
<1>1. stack # <<>> /\ Top.pc \in Opening
  BY DEF InitWallet, Pinged, PingLost, OpenMain, OpenMainLost, OpenBackup, OpenBackupLost,
         Promote, Triage, CreateWallet, CreateFails, At, Opening
<1>2. Top \in Calls /\ Proper(Top, minted)
  BY <1>1, TopProper
<1>3. Top.pc \notin Saving \cup {"row", "identity", "done"} /\ ~Storing(Top)
  BY <1>1 DEF Saving, Opening, Storing
<1>4. {"open", "restore", "create", "triage", "promote", "reset"} \subseteq Steps
  BY DEF Steps, Waits
<1>5. ASSUME NEW g \in Calls, Become(g), g.op = Top.op, g.then = Top.then,
             g.pc \in Opening \ {"promote"} \/ (g.pc = "promote" /\ wallet'.keys = bak.keys),
             g.pc = "create" => ~g.hadMain
      PROVE  Turn
  <2>1. Follows(g)
    BY <1>1, <1>3, <1>5 DEF Follows, Verifying, Late, Opening, Saving
  <2> QED BY <1>1, <1>3, <1>5, <2>1 DEF Turn
<1>6. ASSUME NEW pc \in {"restore", "triage", "create"}, NEW silent \in BOOLEAN,
             NextRung(pc, silent), pc = "create" => ~Top.hadMain
      PROVE  Turn
  <2> DEFINE g == [Top EXCEPT !.pc = pc, !.silent = @ \/ silent]
  <2>1. /\ g \in Calls /\ g.op = Top.op /\ g.then = Top.then /\ g.pc = pc
        /\ g.hadMain = Top.hadMain /\ Become(g)
    BY <1>2, <1>4, <1>6 DEF Calls, NextRung
  <2> HIDE DEF g
  <2> QED BY <1>5, <1>6, <2>1 DEF Opening
<1>7. CASE Pinged
  <2> DEFINE g == [Top EXCEPT !.hadMain = main.st # "absent", !.hadBak = bak.st # "absent",
                        !.silent = FALSE,
                        !.pc = IF main.st # "absent" THEN "open"
                               ELSE IF bak.st # "absent" THEN "restore" ELSE "create"]
  <2>1. /\ g \in Calls /\ g.op = Top.op /\ g.then = Top.then /\ Become(g)
        /\ g.pc \in {"open", "restore", "create"} /\ (g.pc = "create" => ~g.hadMain)
    BY <1>2, <1>4, <1>7 DEF Calls, Pinged
  <2> HIDE DEF g
  <2> QED BY <1>5, <2>1 DEF Opening
<1>8. CASE PingLost \/ CreateFails
  BY <1>1, <1>8, CloseFollows DEF PingLost, CreateFails, WalletFails, memory
<1>9. CASE OpenMain
  BY <1>1, <1>6, <1>9, OpenFollows DEF OpenMain
<1>10. CASE OpenMainLost
  <2> DEFINE g == [Top EXCEPT !.pc = IF Top.hadBak THEN "restore" ELSE "triage",
                              !.silent = TRUE]
  <2>1. /\ g \in Calls /\ g.op = Top.op /\ g.then = Top.then /\ Become(g)
        /\ g.pc \in {"restore", "triage"}
    BY <1>2, <1>4, <1>10 DEF Calls, OpenMainLost
  <2> HIDE DEF g
  <2> QED BY <1>5, <2>1 DEF Opening
<1>11. CASE OpenBackup
  <2>1. CASE Opens("bak", bak) /\ Goto("promote")
    <3> DEFINE g == [Top EXCEPT !.pc = "promote"]
    <3>1. /\ g \in Calls /\ g.op = Top.op /\ g.then = Top.then /\ g.pc = "promote"
          /\ Become(g)
      BY <1>2, <1>4, <2>1, Moved DEF Goto
    <3> HIDE DEF g
    <3>2. wallet'.keys = bak.keys
      BY <2>1 DEF Opens
    <3> QED BY <1>5, <3>1, <3>2
  <2> QED BY <1>6, <1>11, <2>1 DEF OpenBackup
<1>12. CASE OpenBackupLost
  <2> DEFINE g == [Top EXCEPT !.pc = "triage", !.silent = TRUE]
  <2>1. /\ g \in Calls /\ g.op = Top.op /\ g.then = Top.then /\ Become(g)
        /\ g.pc = "triage"
    BY <1>2, <1>4, <1>12 DEF Calls, OpenBackupLost
  <2> HIDE DEF g
  <2> QED BY <1>5, <2>1 DEF Opening
<1>13. CASE Promote
  BY <1>1, <1>13, OpenFollows DEF Promote
<1>14. CASE Triage
  <2> DEFINE g == [Top EXCEPT !.pc = "reset", !.after = "create"]
  <2>1. CASE Become(g) /\ LooksCorrupt /\ spurned' = spurned \cup PassedOver
    <3>1. g \in Calls /\ g.op = Top.op /\ g.pc = "reset"
      BY <1>2, <1>4, <1>14 DEF Calls, Triage
    <3>2. Top.pc = "triage" /\ main.st # "wallet"
      BY <1>14, <2>1 DEF Triage, At, LooksCorrupt
    <3> HIDE DEF g
    <3>3. Follows(g)
      BY <1>3, <2>1, <3>1, <3>2 DEF Follows, Verifying, Late, Opening, Saving
    <3> QED BY <1>1, <1>3, <2>1, <3>1, <3>3 DEF Turn
  <2> QED BY <1>1, <1>6, <1>14, <2>1, CloseFollows DEF Triage, WalletFails, memory
<1>15. CASE CreateWallet
  BY <1>1, <1>15, OpenFollows, CloseFollows DEF CreateWallet
<1> QED BY <1>7, <1>8, <1>9, <1>10, <1>11, <1>12, <1>13, <1>14, <1>15 DEF InitWallet

\* The activation goes on at another place.
LEMMA GotoFollows ==
  ASSUME Typed, LateInv, stack # <<>>, Top.pc \in Late \cup {"reset"}, NEW pc \in Steps,
         Goto(pc), opened' = opened,
         pc \in (Late \cap {Top.pc}) \cup {"copy", "row", "claim", "pinata", "remember",
                                          "verify", "transfer", "keys", "forget"},
         Top.pc = "save" => pc = "copy", Top.pc \notin {"copy", "identity", "row", "remember"},
         Top.pc = "reset" => pc = "forget"
  PROVE  Turn
<1> DEFINE g == [Top EXCEPT !.pc = pc]
<1>1. Top \in Calls /\ Len(stack) \in DOMAIN stack
  BY TopCall DEF Typed
<1>2. g \in Calls /\ g.op = Top.op /\ g.then = Top.then /\ g.pc = pc /\ Become(g)
  BY <1>1, Moved DEF Goto
<1> HIDE DEF g
<1>3. pc \in Late => opened'
  BY <1>1 DEF LateInv, Top, Late
<1>4. Follows(g)
  BY <1>2, <1>3 DEF Follows, Verifying, Opening, Storing, Saving, Late
<1> QED BY <1>2, <1>4 DEF Turn, Late

LEMMA BackUpFollows ==
  ASSUME Typed, LateInv, stack # <<>>, Top.pc \in {"row", "remember", "verify"},
         NEW then \in {"identity", "transfer", "done"}, BackUp(then), opened' = opened,
         Top.pc = "row" => then = "identity"
  PROVE  Turn
<1> DEFINE g == [Top EXCEPT !.pc = "save", !.then = then]
<1>1. Top \in Calls /\ Len(stack) \in DOMAIN stack /\ {"save", then} \subseteq Steps
  BY TopCall DEF Typed, Steps, Waits
<1>2. g \in Calls /\ g.op = Top.op /\ g.then = then /\ g.pc = "save" /\ Become(g)
  BY <1>1 DEF BackUp, Calls
<1> HIDE DEF g
<1>3. opened'
  BY <1>1 DEF LateInv, Top, Late
<1>4. Follows(g)
  BY <1>2, <1>3 DEF Follows, Verifying, Opening, Storing, Saving
<1> QED BY <1>2, <1>4 DEF Turn

LEMMA IdentityTurn ==
  ASSUME Typed, StepInv, LateInv, CreateIdentity
  PROVE  Turn
<1> USE DEF memory
<1>1. stack # <<>>
  BY DEF CreateIdentity, Ask, Checked, CheckLost, Reset, Forget, MintFails, KeysRead,
         StoreIdentity, Save, Copy, IdentityMade, Mint, At
<1>2. Top \in Calls /\ Proper(Top, minted) /\ Len(stack) \in DOMAIN stack
  BY <1>1, TopProper, TopCall DEF Typed
<1>3. {"check", "reset", "forget", "create", "keys", "row", "copy", "identity"} \subseteq Steps
  BY DEF Steps, Waits
<1>4. ASSUME Top.pc \in {"ask", "check", "identity", "mint", "keys"}
      PROVE  Starts(Top) /\ Top.pc \notin Saving \cup {"row"} /\ Top.pc # "done"
  BY <1>1, <1>4, TopProper DEF Opening, Saving
<1>5. CASE Ask \/ Checked \/ CheckLost
  <2>1. Top.pc \in {"ask", "check"} /\ opened' = opened
    BY <1>5 DEF Ask, Checked, CheckLost, At
  <2>2. ASSUME NEW who, Become(Fund(Top, who)) PROVE Turn
    BY <1>1, <1>4, <2>1, <2>2, FundFollows
  <2>3. CASE Top.pc = "ask" /\ agent # None /\ Become([Top EXCEPT !.pc = "check", !.who = agent])
    <3> DEFINE g == [Top EXCEPT !.pc = "check", !.who = agent]
    <3>1. /\ g \in Calls /\ g.op = Top.op /\ g.then = Top.then /\ g.pc = "check"
          /\ g.who = agent /\ Become(g)
      BY <1>2, <1>3, <2>3 DEF Calls, Typed, RowsOK
    <3> HIDE DEF g
    <3>2. Top.then = "ask"
      BY <1>2, <2>3 DEF Proper
    <3>3. Follows(g)
      BY <2>3, <3>1, <3>2 DEF Follows, Verifying, Late, Opening, Storing, Saving
    <3> QED BY <1>1, <2>3, <3>1, <3>3 DEF Turn
  <2>4. CASE /\ Top.pc = "check" /\ ~WalletHas
             /\ Become([Top EXCEPT !.pc = "reset", !.after = "mint"])
    <3> DEFINE g == [Top EXCEPT !.pc = "reset", !.after = "mint"]
    <3>1. /\ g \in Calls /\ g.op = Top.op /\ g.pc = "reset" /\ g.after = "mint"
          /\ Become(g)
      BY <1>2, <2>4 DEF Calls, Steps, Waits
    <3> HIDE DEF g
    <3>3. Follows(g)
      BY <2>4, <3>1 DEF Follows, Verifying, Late, Opening, Storing, Saving
    <3> QED BY <1>1, <2>4, <3>1, <3>3 DEF Turn
  <2> QED BY <1>5, <2>2, <2>3, <2>4 DEF Ask, Checked, CheckLost, At
<1>6. CASE Reset
  BY <1>3, <1>6, GotoFollows DEF Reset, At
<1>7. CASE Forget
  <2> DEFINE g == [Top EXCEPT !.pc = "create"]
             h == [Top EXCEPT !.then = "mint"]
  <2>1. Top.pc = "forget" /\ (Become(g) \/ Become(Enter(h)))
    BY <1>7 DEF Forget, At
  <2>2. g \in Calls /\ g.op = Top.op /\ g.pc = "create"
    BY <1>2, <1>3, Moved
  <2>3. h \in Calls /\ h.op = Top.op /\ h.then = "mint"
    BY <1>2 DEF Calls, Steps, Waits
  <2>4. opened' = opened
    BY <1>7 DEF Forget
  <2> HIDE DEF g, h
  <2>5. /\ Enter(h) \in Calls /\ Enter(h).op = Top.op
        /\ Enter(h).pc \in {"mint", "ping"} /\ (Enter(h).pc = "mint" => opened)
    BY <2>3, Entered
  <2>6. Follows(g) /\ Follows(Enter(h))
    BY <2>1, <2>2, <2>4, <2>5 DEF Follows, Late, Opening, Storing, Saving
  <2> QED BY <1>1, <2>1, <2>2, <2>5, <2>6 DEF Turn
<1>8. CASE MintFails \/ KeysRead
  <2>1. Top.pc \in {"mint", "keys"} /\ opened' = opened
    BY <1>8 DEF MintFails, KeysRead, At
  <2>2. CASE GiveUp
    <3>1. CASE Become(Fund(Top, agent))
      BY <1>1, <1>4, <2>1, <3>1, FundFollows
    <3> QED BY <1>1, <1>4, <2>1, <2>2, <3>1 DEF GiveUp, Turn
  <2>3. CASE Goto("row")
    BY <1>1, <1>3, <2>1, <2>3, GotoFollows DEF Late
  <2> QED BY <1>8, <2>2, <2>3 DEF MintFails, KeysRead
<1>9. ASSUME NEW a \in Privates, Mint(a) PROVE Turn
  BY <1>3, <1>9, GotoFollows DEF Mint, At, Late
<1>10. CASE StoreIdentity
  BY <1>1, <1>10, BackUpFollows DEF StoreIdentity, At
<1>11. CASE Save
  BY <1>1, <1>3, <1>11, GotoFollows DEF Save, At, Late
<1>12. CASE Copy
  <2> DEFINE g == [Top EXCEPT !.pc = Top.then]
  <2>1. Top.pc = "copy" /\ Top.then \in {"identity", "transfer", "done"} /\ opened' = opened
    BY <1>2, <1>12 DEF Copy, At, Proper, Saving
  <2>2. /\ g \in Calls /\ g.op = Top.op /\ g.then = Top.then /\ g.pc = Top.then
        /\ Become(g)
    BY <1>2, <1>12, Moved DEF Copy, Goto, Calls
  <2> HIDE DEF g
  <2>3. opened'
    BY <1>2, <2>1 DEF LateInv, Top, Late
  <2>4. Follows(g)
    BY <2>1, <2>2, <2>3 DEF Follows, Verifying, Opening, Storing, Saving
  <2> QED BY <1>1, <2>1, <2>2, <2>4 DEF Turn
<1>13. CASE IdentityMade
  <2>1. Top.pc = "identity" /\ initialized' /\ opened' = opened /\ Become(Fund(Top, agent))
    BY <1>13 DEF IdentityMade, At
  <2> QED BY <1>1, <1>4, <2>1, FundFollows
<1> QED BY <1>5, <1>6, <1>7, <1>8, <1>9, <1>10, <1>11, <1>12, <1>13 DEF CreateIdentity

LEMMA FundingTurn ==
  ASSUME Typed, StepInv, LateInv, FundAgent
  PROVE  Turn
<1> USE DEF memory
<1>1. stack # <<>> /\ opened' = opened
      /\ Top.pc \in {"balance", "claim", "register", "pinata", "remember", "transfer", "verify"}
  BY DEF FundAgent, BalanceRead, CreatePublic, Registered, PinataClaimed, ClaimFails, Remember,
         Transfer, Verified, At
<1>2. Top \in Calls /\ Len(stack) \in DOMAIN stack
  BY <1>1, TopCall DEF Typed
<1>3. {"transfer", "register", "claim", "pinata", "remember", "verify"} \subseteq Steps
  BY DEF Steps, Waits
<1>4. opened'
  BY <1>1, <1>2 DEF LateInv, Top, Late
<1>5. Top.pc # "done" /\ Top.pc \notin Saving \cup {"identity", "row"} /\ ~Storing(Top)
  BY <1>1 DEF Saving, Storing
<1>6. CASE Pop /\ Top.pc # "remember"
  BY <1>1, <1>5, <1>6 DEF Turn
<1>7. ASSUME NEW who \in Accounts \cup {None}, NEW pc \in {"transfer", "register"},
             Become([Top EXCEPT !.pc = pc, !.who = who]), Top.pc # "remember"
      PROVE  Turn
  <2> DEFINE g == [Top EXCEPT !.pc = pc, !.who = who]
  <2>1. g \in Calls /\ g.op = Top.op /\ g.pc = pc /\ Become(g)
    BY <1>2, <1>3, <1>7 DEF Calls
  <2> HIDE DEF g
  <2>2. Follows(g)
    BY <1>1, <1>4, <1>5, <1>7, <2>1 DEF Follows, Verifying, Opening, Storing, Saving
  <2> QED BY <1>1, <1>5, <2>1, <2>2 DEF Turn
<1>8. ASSUME NEW pc \in {"claim", "pinata", "remember", "verify"}, Goto(pc),
             Top.pc # "remember"
      PROVE  Turn
  BY <1>1, <1>3, <1>8, GotoFollows DEF Late
<1>9. CASE BalanceRead
  <2>1. faucet \in Accounts \cup {None}
    BY DEF Typed, RowsOK
  <2> QED BY <1>7, <1>8, <1>9, <2>1 DEF BalanceRead, At
<1>10. ASSUME NEW p \in Publics, CreatePublic(p) PROVE Turn
  BY <1>7, <1>10 DEF CreatePublic, Accounts, At
<1>11. CASE \/ Registered \/ ClaimFails \/ Transfer
            \/ \E seen \in BOOLEAN : PinataClaimed(seen)
  BY <1>6, <1>8, <1>11 DEF Registered, ClaimFails, Transfer, PinataClaimed, At
<1>12. CASE Remember \/ Verified
  BY <1>1, <1>6, <1>12, BackUpFollows DEF Remember, Verified, At
<1> QED BY <1>9, <1>10, <1>11, <1>12 DEF FundAgent

-------------------------------------------------------------------------------
(***************************************************************************)
(* What a step makes of the stack.                                         *)
(***************************************************************************)
\* The activations below stay, and nothing waits below in a late place.
LEMMA TurnStack ==
  ASSUME Typed, LateInv, Turn
  PROVE  /\ stack # <<>> /\ Len(stack) \in DOMAIN stack /\ Top = stack[Len(stack)]
         /\ \A d \in DOMAIN stack : d # Len(stack) =>
              d \in DOMAIN stack' /\ stack'[d] = stack[d] /\ stack[d].pc \notin Late
         /\ \A d \in DOMAIN stack' :
              /\ d \in DOMAIN stack
              /\ \/ d # Len(stack) /\ stack'[d] = stack[d]
                 \/ d = Len(stack) /\ d = Len(stack') /\ Follows(stack'[d])
         /\ \/ Pop /\ Top.pc \notin Saving \cup {"identity", "row", "remember"}
            \/ Len(stack) \in DOMAIN stack' /\ Follows(stack'[Len(stack)])
         /\ \A pc : At(pc)' => pc \in Waits \/ (Follows(Top') /\ Top'.pc = pc)
<1>1. /\ stack # <<>> /\ Top.pc # "done" /\ Len(stack) \in Nat \ {0}
      /\ DOMAIN stack = 1..Len(stack)
  BY TopCall DEF Typed, Turn
<1>2. \A d \in DOMAIN stack : d # Len(stack) => stack[d].pc \notin Late
  <2>1. \A d \in DOMAIN stack : d # Len(stack) => d < Len(stack) /\ Len(stack) \in DOMAIN stack
    BY <1>1
  <2> QED BY <1>1, <2>1 DEF LateInv, Top
<1>3. CASE Pop /\ Top.pc \notin Saving \cup {"identity", "row", "remember"}
  BY <1>1, <1>2, <1>3, PopStack DEF Typed, Top
<1>4. ASSUME NEW g \in Calls, Become(g), Follows(g)
      PROVE  /\ \A d \in DOMAIN stack : d # Len(stack) => d \in DOMAIN stack' /\ stack'[d] = stack[d]
             /\ \A d \in DOMAIN stack' :
                  /\ d \in DOMAIN stack
                  /\ \/ d # Len(stack) /\ stack'[d] = stack[d]
                     \/ d = Len(stack) /\ d = Len(stack') /\ Follows(stack'[d])
             /\ Len(stack) \in DOMAIN stack' /\ Follows(stack'[Len(stack)])
             /\ Follows(Top')
  <2>1. /\ Len(stack') = Len(stack) /\ DOMAIN stack' = DOMAIN stack
        /\ Top' = g /\ stack'[Len(stack)] = g
        /\ \A d \in DOMAIN stack : d # Len(stack) => stack'[d] = stack[d]
    BY <1>1, <1>4, BecomeStack DEF Typed
  <2> QED BY <1>1, <1>4, <2>1
<1> QED BY <1>1, <1>2, <1>3, <1>4 DEF Turn, At, Top

LEMMA TurnSaves ==
  ASSUME Typed, LateInv, Turn
  PROVE  /\ Saves <=> Top.pc \in Saving
         /\ Top.pc = "save" => Saves'
<1>1. /\ Len(stack) \in DOMAIN stack /\ Top = stack[Len(stack)]
      /\ \A d \in DOMAIN stack : d # Len(stack) => stack[d].pc \notin Late
      /\ \/ Top.pc \notin Saving
         \/ Len(stack) \in DOMAIN stack' /\ Follows(stack'[Len(stack)])
  BY TurnStack
<1> QED BY <1>1 DEF Saves, Working, Saving, Late, Follows

\* No call that asks the wallet begins in a step, or another is at work.
LEMMA TurnVerifies ==
  ASSUME Typed, StepInv, LateInv, Turn
  PROVE  /\ (\E d \in DOMAIN stack' : Verifying(stack'[d])) =>
              (\E d \in DOMAIN stack : Verifying(stack[d])) \/ Top.pc = "forget"
         /\ Top.pc \in {"row", "save", "copy"} =>
              ~ \E d \in DOMAIN stack : Verifying(stack[d])
<1>1. /\ Len(stack) \in DOMAIN stack /\ Top = stack[Len(stack)] /\ stack # <<>>
      /\ \A d \in DOMAIN stack' :
              /\ d \in DOMAIN stack
              /\ \/ d # Len(stack) /\ stack'[d] = stack[d]
                 \/ d = Len(stack) /\ d = Len(stack') /\ Follows(stack'[d])
  BY TurnStack
<1>2. (\E d \in DOMAIN stack' : Verifying(stack'[d])) =>
        (\E d \in DOMAIN stack : Verifying(stack[d])) \/ Top.pc = "forget"
  BY <1>1 DEF Follows
<1>3. ASSUME Top.pc \in {"row", "save", "copy"}, NEW d \in DOMAIN stack, Verifying(stack[d])
      PROVE  FALSE
  <2>1. Starts(Top)
    BY <1>1, <1>3, TopProper DEF Opening
  <2>2. Proper(stack[d], minted) /\ stack[d] \in Calls
    BY <1>3 DEF StepInv, LineInv, Typed, CallsOK
  <2>3. Starts(stack[d])
    BY <1>3, <2>2 DEF Proper, Starts, Verifying, Calls
  <2>4. d = Len(stack)
    BY <1>1, <1>3, <2>1, <2>3 DEF StepInv, LineInv
  <2> QED BY <1>1, <1>3, <2>4 DEF Verifying, Opening
<1> QED BY <1>2, <1>3

LEMMA TurnCalls ==
  ASSUME Typed, StepInv, CallInv, Turn, opened => opened', initialized => initialized',
         ident' = ident \/ (Top.pc = "reset" /\ ident' = None) \/ Top.pc = "row"
  PROVE  CallInv'
<1>1. /\ Len(stack) \in DOMAIN stack /\ Top = stack[Len(stack)] /\ stack # <<>>
      /\ \A d \in DOMAIN stack : d # Len(stack) =>
           d \in DOMAIN stack' /\ stack'[d] = stack[d] /\ stack[d].pc \notin Late
      /\ \A d \in DOMAIN stack' :
           /\ d \in DOMAIN stack
           /\ \/ d # Len(stack) /\ stack'[d] = stack[d]
              \/ d = Len(stack) /\ d = Len(stack') /\ Follows(stack'[d])
      /\ \/ Pop /\ Top.pc \notin Saving \cup {"identity", "row", "remember"}
         \/ Len(stack) \in DOMAIN stack' /\ Follows(stack'[Len(stack)])
  BY TurnStack DEF CallInv
<1>2. LateInv'
  <2>1. \A d \in DOMAIN stack' : stack'[d].pc \in Late => opened'
    BY <1>1 DEF CallInv, LateInv, Follows
  <2>2. ASSUME NEW d \in DOMAIN stack', NEW e \in DOMAIN stack', d < e, stack'[d].pc \in Late
        PROVE  FALSE
    <3>1. DOMAIN stack = 1..Len(stack) /\ Len(stack) \in Nat
      BY DEF Typed, CallsOK
    <3>2. d # Len(stack)
      BY <1>1, <2>2, <3>1
    <3> QED BY <1>1, <2>2, <3>2
  <2> QED BY <2>1, <2>2 DEF LateInv
<1>3. Barred'
  BY <1>1 DEF CallInv, Barred, Follows
<1>4. Fresh'
  <2> SUFFICES ASSUME ~initialized', ident' # None
               PROVE  \E d \in DOMAIN stack' : Storing(stack'[d])
    BY DEF Fresh
  <2>1. Storing(Top) \/ Top.pc = "row"
    <3>1. CASE ident # None
      <4>1. PICK d \in DOMAIN stack : Storing(stack[d])
        BY <1>1, <3>1 DEF CallInv, Fresh
      <4>2. stack[d].pc \in Late
        BY <4>1 DEF Storing, Late, Saving
      <4>3. d = Len(stack)
        BY <1>1, <4>1, <4>2
      <4> QED BY <1>1, <4>1, <4>3
    <3> QED BY <3>1
  <2>2. Top.pc \in Saving \cup {"identity", "row"}
    BY <2>1 DEF Storing
  <2>3. Len(stack) \in DOMAIN stack' /\ Follows(stack'[Len(stack)])
    BY <1>1, <2>2
  <2>4. Storing(stack'[Len(stack)])
    BY <2>1, <2>3 DEF Follows
  <2> QED BY <2>3, <2>4
<1>5. Anew'
  <2> SUFFICES ASSUME NEW d \in DOMAIN stack', stack'[d].pc = "create", stack'[d].hadMain
               PROVE  ident' = None /\ d = Len(stack')
    BY DEF Anew
  <2>1. d = Len(stack) /\ d = Len(stack') /\ Follows(stack'[d])
    BY <1>1 DEF CallInv, Anew
  <2>2. Top.pc = "forget"
    BY <2>1 DEF Follows
  <2>3. ident = None
    BY <1>1, <2>2 DEF StepInv, HeldInv
  <2> QED BY <2>1, <2>2, <2>3
<1>6. WhoInv'
  <2> SUFFICES ASSUME NEW d \in DOMAIN stack', stack'[d].pc = "check"
               PROVE  ident' \in {None, stack'[d].who}
    BY DEF WhoInv
  <2>1. CASE d # Len(stack) /\ stack'[d] = stack[d]
    <3>1. d \in DOMAIN stack /\ ident \in {None, stack'[d].who}
      BY <1>1, <2>1 DEF CallInv, WhoInv
    <3>2. CASE Top.pc = "row"
      <4>1. Starts(Top)
        BY <1>1, <3>2, TopProper DEF Opening
      <4>2. Proper(stack[d], minted) /\ stack[d] \in Calls
        BY <3>1 DEF StepInv, LineInv, Typed, CallsOK
      <4>3. Starts(stack[d])
        BY <2>1, <4>2 DEF Proper, Starts, Calls, Opening
      <4> QED BY <1>1, <2>1, <3>1, <4>1, <4>3 DEF StepInv, LineInv
    <3> QED BY <3>1, <3>2
  <2>2. CASE Follows(stack'[d])
    <3>1. Top.pc = "ask" /\ stack'[d].who = agent /\ agent # None
      BY <2>2 DEF Follows
    <3>2. ident # None => agent = ident
      BY <3>1 DEF StepInv, AgentInv
    <3> QED BY <3>1, <3>2
  <2> QED BY <1>1, <2>1, <2>2
<1> QED BY <1>2, <1>3, <1>4, <1>5, <1>6 DEF CallInv

\* A call that is served barely begins: initialize only when nothing runs.
LEMMA BegunStack ==
  ASSUME Typed, LateInv, Barred, Initialize \/ WalletProof
  PROVE  /\ \A d \in DOMAIN stack : d \in DOMAIN stack' /\ stack'[d] = stack[d]
         /\ \A d \in DOMAIN stack' :
              \/ d \in DOMAIN stack /\ stack'[d] = stack[d]
              \/ /\ d = Len(stack') /\ d \notin DOMAIN stack /\ stack'[d] = Top'
         /\ stack' # <<>> /\ Top'.pc \in {"ping", "ask", "mint", "done"}
         /\ Top'.pc = IF opened THEN Top'.then ELSE "ping"
         /\ Top'.op = "initialize" =>
              /\ stack = <<>> /\ ~initialized
              /\ Top'.then = IF ident # None THEN "ask" ELSE "mint"
         /\ Top'.op = "walletProof" => ident # None /\ Top'.then = "done"
         /\ Top'.op \in {"initialize", "walletProof"}
         /\ initialized' = (initialized \/ ident # None)
         /\ UNCHANGED <<ident, faucet, main, bak, wallet, opened, unbacked, spurned>>
<1>1. ASSUME NEW op \in {"initialize", "walletProof"}, NEW then \in {"ask", "mint", "done"},
             Begin(Boot(op, then))
      PROVE  /\ \A d \in DOMAIN stack : d \in DOMAIN stack' /\ stack'[d] = stack[d]
             /\ \A d \in DOMAIN stack' :
                  \/ d \in DOMAIN stack /\ stack'[d] = stack[d]
                  \/ /\ d = Len(stack') /\ d \notin DOMAIN stack /\ stack'[d] = Top'
             /\ stack' # <<>> /\ Top'.pc \in {"ping", "ask", "mint", "done"}
             /\ Top'.pc = (IF opened THEN Top'.then ELSE "ping")
             /\ Top'.op = op /\ Top'.then = then
  <2>1. /\ Boot(op, then) \in Calls /\ Boot(op, then).op = op /\ Boot(op, then).then = then
    BY DEF Boot, Calls, Steps, Waits
  <2> DEFINE g == Enter(Boot(op, then))
  <2>2. g \in Calls /\ g.pc = (IF opened THEN then ELSE "ping") /\ g.then = then /\ g.op = op
    BY <2>1, Entered
  <2>3. Push(g) /\ Parked(Waits)
    BY <1>1 DEF Begin
  <2> HIDE DEF g
  <2> QED BY <2>2, <2>3, PushStack DEF Typed
<1>2. CASE Initialize
  <2>1. stack = <<>>
    <3>0. \A d \in DOMAIN stack : stack[d] \in Calls
      BY DEF Typed, CallsOK
    <3>1. \A d \in DOMAIN stack : stack[d].op = "initialize" \/ stack[d].op = "walletProof"
      BY <3>0 DEF Calls
    <3>2. DOMAIN stack = {}
      BY <1>2, <3>1 DEF Initialize, FirstCall, Barred
    <3> QED BY <3>2, TopCall DEF Typed
  <2>2. ~initialized
    BY <1>2 DEF Initialize, FirstCall
  <2> QED BY <1>1, <1>2, <2>1, <2>2 DEF Initialize, Begin, db, files, history, backups
<1>3. CASE WalletProof
  BY <1>1, <1>3 DEF WalletProof, Begin, db, files, history, backups
<1> QED BY <1>2, <1>3

LEMMA BegunCalls ==
  ASSUME Typed, StepInv, CallInv, Initialize \/ WalletProof
  PROVE  CallInv'
<1>1. /\ \A d \in DOMAIN stack' :
              \/ d \in DOMAIN stack /\ stack'[d] = stack[d]
              \/ /\ d = Len(stack') /\ d \notin DOMAIN stack /\ stack'[d] = Top'
      /\ \A d \in DOMAIN stack : d \in DOMAIN stack' /\ stack'[d] = stack[d]
      /\ Top'.pc \in {"ping", "ask", "mint", "done"}
      /\ Top'.pc = IF opened THEN Top'.then ELSE "ping"
      /\ Top'.op = "initialize" => stack = <<>> /\ ~initialized
      /\ Top'.op = "walletProof" => ident # None /\ Top'.then = "done"
      /\ Top'.op \in {"initialize", "walletProof"}
      /\ initialized' = (initialized \/ ident # None)
      /\ UNCHANGED <<ident, opened>>
  BY BegunStack DEF CallInv
<1>2. stack = <<>> => DOMAIN stack = {}
  OBVIOUS
<1>3. LateInv'
  <2>1. \A d \in DOMAIN stack' : stack'[d].pc \in Late => opened'
    BY <1>1 DEF CallInv, LateInv, Late
  <2>2. ASSUME NEW d \in DOMAIN stack', NEW e \in DOMAIN stack', d < e, stack'[d].pc \in Late
        PROVE  stack'[e].pc = "done"
    <3>1. d # Len(stack')
      <4>1. stack' \in Seq(Calls)
        BY CallsStep DEF IdentityNext, CallsOK
      <4> QED BY <2>2, <4>1
    <3>2. d \in DOMAIN stack /\ stack[d].pc \in Late
      BY <1>1, <2>2, <3>1
    <3>3. CASE e \in DOMAIN stack
      BY <1>1, <2>2, <3>2, <3>3 DEF CallInv, LateInv
    <3>4. CASE e \notin DOMAIN stack
      BY <1>1, <1>2, <2>2, <3>2, <3>4 DEF CallInv, LateInv
    <3> QED BY <3>3, <3>4
  <2> QED BY <2>1, <2>2 DEF LateInv
<1>4. Barred'
  BY <1>1 DEF CallInv, Barred
<1>5. Fresh'
  BY <1>1 DEF Fresh
<1>6. Anew'
  <2> SUFFICES ASSUME NEW d \in DOMAIN stack', stack'[d].pc = "create", stack'[d].hadMain
               PROVE  FALSE
    BY DEF Anew
  <2>1. d \in DOMAIN stack /\ stack[d].pc = "create" /\ stack[d].hadMain
    BY <1>1
  <2>2. ident = None
    BY <2>1 DEF CallInv, Anew
  <2> QED BY <1>1, <1>2, <2>1, <2>2
<1>7. WhoInv'
  BY <1>1 DEF CallInv, WhoInv
<1> QED BY <1>3, <1>4, <1>5, <1>6, <1>7 DEF CallInv

-------------------------------------------------------------------------------
(***************************************************************************)
(* What a step makes of the files.                                         *)
(***************************************************************************)
AllInv == Typed /\ StepInv /\ CallInv /\ FileInv

\* The keys that are passed over are those of the backup, unless an intact main file was
\* seen.
LEMMA Passing == Shaped => bak.keys \subseteq PassedOver \/ (Top.hadMain /\ main.st = "wallet")
BY DEF Shaped, PassedOver

\* What the files have when no backupWallet is at work.
LEMMA AtRest ==
  ASSUME AllInv, ~Saves
  PROVE  /\ InUse \ unbacked \subseteq bak.keys
         /\ ident # None => ident \in bak.keys \cup unbacked
         /\ ident # None /\ main.st = "wallet" => ident \in main.keys \cup unbacked \cup spurned
BY DEF AllInv, FileInv, BackedUp, MainOK, InUse

\* The wallet that will be asked is still the one, or has the account.
LEMMA TurnOpens ==
  ASSUME AllInv, Turn, ident' = ident, Top.pc # "forget",
         unbacked \subseteq unbacked', spurned \subseteq spurned',
         opened' => opened \/ At("promote") \/ ident \in wallet'.keys \cup unbacked' \cup spurned',
         \/ ident = None \/ ident \in wallet'.keys \cup unbacked' \cup spurned'
         \/ wallet'.path = "none"
         \/ wallet'.path = wallet.path /\ wallet.keys \subseteq wallet'.keys,
         ~Saves
  PROVE  OpenOK'
<1> SUFFICES ASSUME ident # None, wallet'.path # "none", opened' \/ At("promote")',
                    \E d \in DOMAIN stack' : Verifying(stack'[d]),
                    wallet'.path = wallet.path, wallet.keys \subseteq wallet'.keys,
                    ident \notin wallet'.keys \cup unbacked' \cup spurned'
             PROVE  FALSE
  BY DEF OpenOK
<1>1. \E d \in DOMAIN stack : Verifying(stack[d])
  BY TurnVerifies DEF AllInv, CallInv
<1>2. CASE opened \/ At("promote")
  BY <1>1, <1>2 DEF AllInv, FileInv, OpenOK
<1>3. CASE At("promote")'
  <2>1. Follows(Top') /\ Top'.pc = "promote"
    BY <1>3, TurnStack DEF AllInv, CallInv, Waits
  <2>2. wallet'.keys = bak.keys
    BY <2>1 DEF Follows
  <2> QED BY <2>2, AtRest
<1> QED BY <1>2, <1>3

\* A step that leaves the files alone.
LEMMA CalmFiles ==
  ASSUME AllInv, Turn, UNCHANGED <<ident, main, bak, unbacked, spurned, opened>>,
         Top.pc \notin {"row", "save", "copy", "forget", "triage"},
         wallet'.path = wallet.path, wallet.keys \subseteq wallet'.keys,
         Top.pc = "check" => wallet' = wallet,
         faucet' = faucet \/ Top.pc = "remember"
  PROVE  FileInv'
<1>1. ~Saves
  BY TurnSaves DEF AllInv, CallInv, Saving
<1>2. Shaped'
  BY DEF AllInv, FileInv, Shaped
<1>3. BackedUp'
  <2>1. CASE faucet' = faucet
    BY <1>1, <2>1, AtRest DEF BackedUp, InUse
  <2>2. CASE Top.pc = "remember"
    <3>1. Len(stack) \in DOMAIN stack' /\ Follows(stack'[Len(stack)])
      BY <2>2, TurnStack DEF AllInv, CallInv
    <3>2. Saves'
      BY <2>2, <3>1 DEF Follows, Saves, Working
    <3> QED BY <3>2 DEF BackedUp
  <2> QED BY <2>1, <2>2
<1>4. MainOK'
  BY <1>1, AtRest DEF MainOK
<1>5. OpenOK'
  BY <1>1, TurnOpens
<1>6. ResetOK'
  <2> SUFFICES ASSUME At("reset")', ident # None
               PROVE  (Top'.after = "mint" /\ Unopened') \/ ident \in unbacked \cup spurned
    BY DEF ResetOK
  <2>1. Follows(Top') /\ Top'.pc = "reset"
    BY TurnStack DEF AllInv, CallInv, Waits
  <2>2. Top.pc = "check" /\ ~WalletHas /\ Top'.after = "mint"
    BY <2>1 DEF Follows
  <2>3. Top = stack[Len(stack)] /\ Len(stack) \in DOMAIN stack
    BY TurnStack DEF AllInv, CallInv
  <2>4. ident = Top.who
    BY <2>2, <2>3 DEF AllInv, CallInv, WhoInv
  <2>5. ident \notin wallet.keys
    BY <2>2, <2>4 DEF WalletHas
  <2>6. Verifying(Top)
    <3>1. Proper(Top, minted)
      BY <2>3 DEF AllInv, StepInv, LineInv
    <3> QED BY <2>2, <3>1 DEF Proper, Verifying
  <2>7. Unopened \/ ident \in unbacked \cup spurned
    BY <2>3, <2>5, <2>6 DEF AllInv, FileInv, OpenOK, Unopened
  <2> QED BY <2>2, <2>7 DEF Unopened
<1> QED BY <1>2, <1>3, <1>4, <1>5, <1>6 DEF FileInv

LEMMA WalletData ==
  ASSUME InitWallet
  PROVE  /\ UNCHANGED <<ident, faucet, bak, unbacked, initialized, agent>>
         /\ spurned \subseteq spurned' /\ (opened => opened')
<1> USE DEF WalletFails, Opens, NextRung, db, files, memory, history, backups
<1>1. CASE Pinged \/ PingLost \/ CreateFails \/ OpenMain \/ OpenMainLost
  BY <1>1 DEF Pinged, PingLost, CreateFails, OpenMain, OpenMainLost
<1>2. CASE OpenBackup \/ OpenBackupLost \/ Promote \/ Triage \/ CreateWallet
  BY <1>2 DEF OpenBackup, OpenBackupLost, Promote, Triage, CreateWallet
<1> QED BY <1>1, <1>2 DEF InitWallet

LEMMA WalletFiles ==
  ASSUME AllInv, InitWallet
  PROVE  FileInv'
<1>1. Turn
  BY WalletTurn DEF AllInv
<1>2. stack # <<>> /\ Top.pc \in Opening
  BY DEF InitWallet, Pinged, PingLost, OpenMain, OpenMainLost, OpenBackup, OpenBackupLost,
         Promote, Triage, CreateWallet, CreateFails, At, Opening
<1>3. ~Saves /\ Top.pc # "forget"
  BY <1>1, <1>2, TurnSaves DEF AllInv, CallInv, Saving, Opening
<1>4. /\ UNCHANGED <<ident, faucet, bak, unbacked>>
      /\ spurned \subseteq spurned' /\ (opened => opened')
  BY WalletData
<1>5. BackedUp'
  BY <1>3, <1>4, AtRest DEF BackedUp, InUse
<1>6. /\ ident # None => ident \in bak.keys \cup unbacked
      /\ ident # None /\ main.st = "wallet" => ident \in main.keys \cup unbacked \cup spurned
  BY <1>3, AtRest
<1>7. CASE CreateWallet
  <2>1. /\ main' = [st |-> "wallet", keys |-> {}] /\ wallet'.path = "main"
        /\ spurned' = spurned \cup PassedOver /\ Top.pc = "create"
    BY <1>7 DEF CreateWallet, At
  <2>2. ident # None => ident \in unbacked \cup spurned'
    <3>1. Top.hadMain /\ main.st = "wallet" => ident = None
      BY <1>1, <2>1, TurnStack DEF AllInv, CallInv, Anew
    <3> QED BY <1>6, <2>1, <3>1, Passing DEF AllInv, FileInv
  <2>3. MainOK'
    BY <1>4, <2>2 DEF MainOK
  <2>4. OpenOK'
    BY <1>4, <2>2 DEF OpenOK
  <2>5. ResetOK'
    BY <1>4, <2>2 DEF ResetOK
  <2>6. Shaped'
    BY <1>4, <2>1 DEF AllInv, FileInv, Shaped
  <2> QED BY <1>5, <2>3, <2>4, <2>5, <2>6 DEF FileInv
<1>8. CASE Promote
  <2>1. main' = bak /\ At("promote") /\ UNCHANGED <<wallet, spurned>>
    BY <1>8 DEF Promote, history, backups
  <2>2. MainOK'
    BY <1>4, <1>6, <2>1 DEF MainOK
  <2>3. OpenOK'
    BY <1>1, <1>3, <1>4, <2>1, TurnOpens
  <2>4. ~At("reset")'
    BY <1>1, <2>1, TurnStack DEF AllInv, CallInv, Follows, Waits, At
  <2>5. Shaped'
    BY <1>4, <2>1 DEF AllInv, FileInv, Shaped
  <2> QED BY <1>5, <2>2, <2>3, <2>4, <2>5 DEF FileInv, ResetOK
<1>9. CASE Triage
  <2>1. /\ UNCHANGED <<wallet, opened>> /\ Top.pc = "triage"
        /\ main' = main \/ main' = NoFile
    BY <1>9 DEF Triage, At, NextRung, WalletFails, files, memory
  <2>2. MainOK'
    BY <1>4, <1>6, <2>1 DEF MainOK, NoFile
  <2>3. OpenOK'
    BY <1>1, <1>3, <1>4, <2>1, TurnOpens
  <2>4. ResetOK'
    <3> SUFFICES ASSUME At("reset")', ident # None PROVE ident \in unbacked \cup spurned'
      BY <1>4 DEF ResetOK
    <3>1. Follows(Top') /\ Top'.pc = "reset"
      BY <1>1, TurnStack DEF AllInv, CallInv, Waits
    <3>2. main.st # "wallet" /\ spurned' = spurned \cup PassedOver
      BY <2>1, <3>1 DEF Follows
    <3> QED BY <1>6, <3>2, Passing DEF AllInv, FileInv
  <2>5. Shaped'
    BY <1>4, <2>1 DEF AllInv, FileInv, Shaped, NoFile
  <2> QED BY <1>5, <2>2, <2>3, <2>4, <2>5 DEF FileInv
<1>10. CASE OpenMain \/ OpenMainLost \/ OpenBackup \/ OpenBackupLost
  <2>1. UNCHANGED <<main, spurned>> /\ Top.pc \in {"open", "restore"}
    BY <1>10 DEF OpenMain, OpenMainLost, OpenBackup, OpenBackupLost, At, NextRung, files, history,
                 backups
  <2>2. \/ UNCHANGED <<wallet, opened>>
        \/ main.st = "wallet" /\ wallet'.keys = main.keys
        \/ wallet'.keys = bak.keys /\ opened' = opened
    BY <1>10 DEF OpenMain, OpenMainLost, OpenBackup, OpenBackupLost, Opens, NextRung, memory
  <2>3. MainOK'
    BY <1>4, <1>6, <2>1 DEF MainOK
  <2>4. OpenOK'
    <3>1. CASE UNCHANGED <<wallet, opened>>
      BY <1>1, <1>3, <1>4, <2>1, <3>1, TurnOpens
    <3>2. CASE \/ main.st = "wallet" /\ wallet'.keys = main.keys
               \/ wallet'.keys = bak.keys
      <4>1. ident # None => ident \in wallet'.keys \cup unbacked' \cup spurned'
        BY <1>4, <1>6, <3>2
      <4> QED BY <1>4, <4>1 DEF OpenOK
    <3> QED BY <2>2, <3>1, <3>2
  <2>5. ~At("reset")'
    BY <1>1, <2>1, TurnStack DEF AllInv, CallInv, Follows, Waits
  <2>6. Shaped'
    BY <1>4, <2>1 DEF AllInv, FileInv, Shaped
  <2> QED BY <1>5, <2>3, <2>4, <2>5, <2>6 DEF FileInv, ResetOK
<1>11. CASE Pinged \/ PingLost \/ CreateFails
  <2>1. UNCHANGED <<main, wallet, opened, spurned>> /\ Top.pc \in {"ping", "create"}
    BY <1>11 DEF Pinged, PingLost, CreateFails, WalletFails, At, files, memory, history, backups
  <2> QED BY <1>1, <1>4, <2>1, CalmFiles
<1> QED BY <1>7, <1>8, <1>9, <1>10, <1>11 DEF InitWallet

LEMMA IdentityFiles ==
  ASSUME AllInv, CreateIdentity
  PROVE  FileInv'
<1> USE DEF db, files, memory, history, backups
<1>1. Turn
  BY IdentityTurn DEF AllInv, CallInv
<1>2. CASE Ask \/ Checked \/ CheckLost \/ MintFails \/ KeysRead \/ IdentityMade
  <2>1. /\ UNCHANGED <<ident, faucet, main, bak, unbacked, spurned, opened, wallet>>
        /\ Top.pc \in {"ask", "check", "mint", "keys", "identity"}
    BY <1>2 DEF Ask, Checked, CheckLost, MintFails, KeysRead, IdentityMade, At
  <2> QED BY <1>1, <2>1, CalmFiles
<1>3. ASSUME NEW a \in Privates, Mint(a) PROVE FileInv'
  <2>1. /\ UNCHANGED <<ident, faucet, main, bak, unbacked, spurned, opened>> /\ Top.pc = "mint"
        /\ wallet'.path = wallet.path /\ wallet.keys \subseteq wallet'.keys
    BY <1>3 DEF Mint, At, AllInv, Typed, RowsOK
  <2> QED BY <1>1, <2>1, CalmFiles
<1>4. CASE Reset \/ Forget
  <2>1. ident' = None /\ UNCHANGED <<main, bak>> /\ Top.pc \in {"reset", "forget"}
    <3>1. At("forget") => ident = None
      BY DEF AllInv, StepInv, HeldInv, At
    <3> QED BY <1>4, <3>1 DEF Reset, Forget, At
  <2>2. BackedUp'
    <3>1. CASE Reset
      <4>1. ~Saves
        BY <1>1, <2>1, TurnSaves DEF AllInv, CallInv, Saving
      <4>2. InUse' \subseteq InUse /\ unbacked' = unbacked
        BY <2>1, <3>1 DEF Reset, InUse
      <4> QED BY <2>1, <4>1, <4>2, AtRest DEF BackedUp
    <3>2. CASE Forget
      BY <2>1, <3>2 DEF Forget, BackedUp, InUse
    <3> QED BY <1>4, <3>1, <3>2
  <2>3. Shaped'
    BY <2>1 DEF AllInv, FileInv, Shaped
  <2> QED BY <2>1, <2>2, <2>3 DEF FileInv, MainOK, OpenOK, ResetOK
<1>5. CASE StoreIdentity \/ Save \/ Copy
  <2>1. Top.pc \in {"row", "save", "copy"}
    BY <1>5 DEF StoreIdentity, Save, Copy, At
  <2>2. OpenOK'
    BY <1>1, <2>1, TurnVerifies DEF AllInv, CallInv, OpenOK
  <2>3. ResetOK'
    BY <1>1, <2>1, TurnStack DEF AllInv, CallInv, Follows, Waits, ResetOK
  <2>4. Shaped'
    <3>1. CASE StoreIdentity
      BY <3>1 DEF StoreIdentity, AllInv, FileInv, Shaped
    <3>2. CASE Save
      BY <3>2 DEF Save, AllInv, FileInv, Shaped
    <3>3. CASE Copy
      BY <3>3 DEF Copy, AllInv, FileInv, Shaped
    <3> QED BY <1>5, <3>1, <3>2, <3>3
  <2>5. CASE StoreIdentity \/ Save
    <3>1. Top.pc \in {"row", "save"}
      BY <2>5 DEF StoreIdentity, Save, At
    <3>2. Len(stack) \in DOMAIN stack' /\ Follows(stack'[Len(stack)])
      BY <1>1, <3>1, TurnStack DEF AllInv, CallInv, Saving
    <3>3. Saves'
      BY <3>1, <3>2 DEF Follows, Saves, Working
    <3> QED BY <2>2, <2>3, <2>4, <3>3 DEF FileInv, BackedUp, MainOK
  <2>6. CASE Copy
    <3>1. /\ bak' = (IF main.st = "absent" THEN bak ELSE main) /\ UNCHANGED <<main, ident>>
          /\ unbacked' = (unbacked \cup InUse) \ bak'.keys /\ InUse' = InUse
      BY <2>6 DEF Copy, InUse
    <3>2. InUse' \ unbacked' \subseteq bak'.keys
      BY <3>1
    <3>3. ident # None /\ main.st = "wallet" => ident \in main.keys \cup unbacked'
      BY <3>1 DEF InUse
    <3> QED BY <2>2, <2>3, <2>4, <3>1, <3>2, <3>3 DEF FileInv, BackedUp, MainOK
  <2> QED BY <1>5, <2>5, <2>6
<1> QED BY <1>2, <1>3, <1>4, <1>5 DEF CreateIdentity

LEMMA FundingFiles ==
  ASSUME AllInv, FundAgent
  PROVE  FileInv'
<1> USE DEF db, files, memory, history, backups
<1>1. Turn
  BY FundingTurn DEF AllInv, CallInv
<1>2. CASE \/ BalanceRead \/ ClaimFails \/ Remember \/ Transfer \/ Verified \/ Registered
           \/ \E seen \in BOOLEAN : PinataClaimed(seen)
  <2>1. /\ UNCHANGED <<ident, main, bak, unbacked, spurned, opened, wallet>>
        /\ faucet' = faucet \/ Top.pc = "remember"
        /\ Top.pc \in {"balance", "claim", "register", "pinata", "remember", "transfer", "verify"}
    BY <1>2 DEF BalanceRead, ClaimFails, Remember, Transfer, Verified, Registered, PinataClaimed,
                At
  <2> QED BY <1>1, <2>1, CalmFiles
<1>3. ASSUME NEW p \in Publics, CreatePublic(p) PROVE FileInv'
  <2>1. /\ UNCHANGED <<ident, faucet, main, bak, unbacked, spurned, opened>> /\ Top.pc = "claim"
        /\ wallet'.path = wallet.path /\ wallet.keys \subseteq wallet'.keys
    BY <1>3 DEF CreatePublic, At, AllInv, Typed, RowsOK
  <2> QED BY <1>1, <2>1, CalmFiles
<1> QED BY <1>2, <1>3 DEF FundAgent

LEMMA BegunFiles ==
  ASSUME AllInv, Initialize \/ WalletProof
  PROVE  FileInv'
<1>1. /\ \A d \in DOMAIN stack : d \in DOMAIN stack' /\ stack'[d] = stack[d]
      /\ \A d \in DOMAIN stack' :
           \/ d \in DOMAIN stack /\ stack'[d] = stack[d]
           \/ /\ d = Len(stack') /\ d \notin DOMAIN stack /\ stack'[d] = Top'
      /\ Top'.pc \in {"ping", "ask", "mint", "done"}
      /\ Top'.op = "initialize" =>
           /\ stack = <<>> /\ ~initialized
           /\ Top'.then = IF ident # None THEN "ask" ELSE "mint"
      /\ Top'.op = "walletProof" => ident # None /\ Top'.then = "done"
      /\ Top'.op \in {"initialize", "walletProof"}
      /\ UNCHANGED <<ident, faucet, main, bak, wallet, opened, unbacked, spurned>>
  BY BegunStack DEF AllInv, CallInv
<1>2. Saves => Saves'
  BY <1>1 DEF Saves, Working
<1>3. ~At("reset")' /\ ~At("promote")'
  BY <1>1 DEF At
<1>4. Shaped' /\ BackedUp' /\ MainOK' /\ ResetOK'
  BY <1>1, <1>2, <1>3 DEF AllInv, FileInv, Shaped, BackedUp, MainOK, ResetOK, InUse
<1>5. OpenOK'
  <2> SUFFICES ASSUME ident # None, wallet.path # "none", opened,
                      NEW d \in DOMAIN stack', Verifying(stack'[d])
               PROVE  ident \in wallet.keys \cup unbacked \cup spurned
    BY <1>1, <1>3 DEF OpenOK
  <2>1. CASE d \in DOMAIN stack /\ stack'[d] = stack[d]
    BY <2>1 DEF AllInv, FileInv, OpenOK
  <2>2. CASE stack'[d] = Top'
    <3>1. stack = <<>> /\ ~initialized
      BY <1>1, <2>2 DEF Verifying
    <3>2. DOMAIN stack = {}
      BY <3>1
    <3> QED BY <3>1, <3>2 DEF AllInv, CallInv, Fresh
  <2> QED BY <1>1, <2>1, <2>2
<1> QED BY <1>4, <1>5 DEF FileInv

LEMMA DoneKept ==
  ASSUME AllInv, Done
  PROVE  CallInv' /\ FileInv'
<1>1. /\ stack # <<>> /\ Top.pc = "done" /\ Pop
      /\ UNCHANGED <<db, files, wallet, memory, chain, history>>
  BY DEF Done, At
<1>2. /\ Len(stack) \in DOMAIN stack /\ Top = stack[Len(stack)]
      /\ \A d \in DOMAIN stack : d # Len(stack) => d \in DOMAIN stack' /\ stack'[d] = stack[d]
      /\ \A d \in DOMAIN stack' :
           d \in DOMAIN stack /\ d # Len(stack) /\ stack'[d] = stack[d]
      /\ \A pc : At(pc)' => pc \in Waits
  <2>1. /\ Len(stack) \in DOMAIN stack /\ DOMAIN stack = 1..Len(stack) /\ Len(stack) \in Nat \ {0}
    BY <1>1, TopCall DEF AllInv, Typed
  <2>2. /\ DOMAIN stack' = 1..(Len(stack) - 1)
        /\ \A d \in DOMAIN stack' : d \in DOMAIN stack /\ d # Len(stack) /\ stack'[d] = stack[d]
        /\ \A pc : At(pc)' => pc \in Waits
    BY <1>1, PopStack DEF AllInv, Typed
  <2>3. \A d \in DOMAIN stack : d # Len(stack) => d \in DOMAIN stack'
    BY <2>1, <2>2
  <2> QED BY <2>1, <2>2, <2>3 DEF Top
<1>3. UNCHANGED <<ident, faucet, main, bak, wallet, opened, initialized, unbacked, spurned>>
  BY <1>1 DEF db, files, memory, history, backups
<1>4. LateInv' /\ Barred'
  BY <1>2, <1>3 DEF AllInv, CallInv, LateInv, Barred
<1>5. Fresh'
  BY <1>1, <1>2, <1>3 DEF AllInv, CallInv, Fresh, Storing, Saving
<1>6. Anew' /\ WhoInv'
  BY <1>2, <1>3 DEF AllInv, CallInv, Anew, WhoInv
<1>7. Saves => Saves'
  BY <1>1, <1>2 DEF Saves, Working
<1>8. Shaped' /\ BackedUp' /\ MainOK'
  BY <1>3, <1>7 DEF AllInv, FileInv, Shaped, BackedUp, MainOK, InUse
<1>9. OpenOK' /\ ResetOK'
  <2>1. ~At("promote")' /\ ~At("reset")'
    BY <1>2 DEF Waits
  <2> QED BY <1>2, <1>3, <2>1 DEF AllInv, FileInv, OpenOK, ResetOK
<1> QED BY <1>4, <1>5, <1>6, <1>8, <1>9 DEF CallInv, FileInv

LEMMA FaultKept ==
  ASSUME AllInv, Fault
  PROVE  CallInv' /\ FileInv'
<1>1. ASSUME UNCHANGED <<stack, ident, opened, initialized>> PROVE CallInv'
  BY <1>1 DEF AllInv, CallInv, LateInv, Barred, Fresh, Anew, WhoInv
<1>2. ASSUME NEW a \in BOOLEAN, NEW w \in BOOLEAN, Crash(a, w), a PROVE CallInv' /\ FileInv'
  <2> USE <1>2 DEF Crash, db, files, memory
  <2>1. stack' = <<>> /\ ~opened' /\ ident' = ident /\ InUse' = InUse /\ spurned' = spurned
    BY DEF InUse
  <2>2. DOMAIN stack' = {} /\ ~Saves'
    BY <2>1 DEF Saves, Working
  <2>3. CallInv'
    BY <2>1, <2>2 DEF CallInv, LateInv, Barred, Fresh, Anew, WhoInv
  <2>4. main' \in {main, Damaged} /\ bak' \in {bak, Damaged}
    BY DEF Written
  <2>5. Shaped'
    BY <2>4 DEF AllInv, FileInv, Shaped, Damaged
  <2>6. ~Saves => bak' = bak /\ unbacked' = unbacked
    BY DEF Written, Saves, Working
  <2>7. Saves => unbacked' = unbacked \cup (InUse \ (main.keys \cap bak'.keys))
    BY DEF Saves
  <2>8. BackedUp'
    <3>1. CASE Saves
      BY <2>1, <2>7, <3>1 DEF BackedUp
    <3>2. CASE ~Saves
      BY <2>1, <2>6, <3>2, AtRest DEF BackedUp
    <3> QED BY <3>1, <3>2
  <2>9. MainOK'
    <3>1. CASE Saves
      BY <2>1, <2>4, <2>7, <3>1 DEF MainOK, InUse, Damaged
    <3>2. CASE ~Saves
      BY <2>1, <2>4, <2>6, <3>2, AtRest DEF MainOK, Damaged
    <3> QED BY <3>1, <3>2
  <2>10. OpenOK' /\ ResetOK'
    BY <2>1, <2>2 DEF OpenOK, ResetOK, At
  <2> QED BY <2>3, <2>5, <2>8, <2>9, <2>10 DEF FileInv
<1>3. ASSUME NEW a \in BOOLEAN, NEW w \in BOOLEAN, Crash(a, w), ~a PROVE CallInv' /\ FileInv'
  <2>1. /\ UNCHANGED <<stack, ident, faucet, main, bak, opened, initialized, unbacked, spurned>>
        /\ wallet' = wallet \/ wallet'.path = "none"
    BY <1>3 DEF Crash, Closed, db, files, memory
  <2>2. Shaped' /\ BackedUp' /\ MainOK'
    BY <2>1 DEF AllInv, FileInv, Shaped, BackedUp, MainOK, InUse, Saves, Working
  <2>3. OpenOK' /\ ResetOK'
    BY <2>1 DEF AllInv, FileInv, OpenOK, ResetOK, At, Top, Unopened
  <2> QED BY <1>1, <2>1, <2>2, <2>3 DEF FileInv
<1>4. ASSUME NEW st \in {"absent", "damaged"}, FileFault(st) PROVE CallInv' /\ FileInv'
  <2>1. /\ UNCHANGED <<stack, ident, faucet, bak, wallet, opened, initialized, unbacked, spurned>>
        /\ main' = [st |-> st, keys |-> {}] /\ stack = <<>>
    BY <1>4 DEF FileFault, db, memory, history, backups
  <2>2. Shaped' /\ BackedUp' /\ MainOK'
    BY <2>1 DEF AllInv, FileInv, Shaped, BackedUp, MainOK, InUse, Saves, Working
  <2>3. OpenOK' /\ ResetOK'
    BY <2>1 DEF OpenOK, ResetOK, At
  <2> QED BY <1>1, <2>1, <2>2, <2>3 DEF FileInv
<1> QED BY <1>2, <1>3, <1>4 DEF Fault

\* The steps that give the identity another value.
LEMMA IdentSteps ==
  ASSUME CreateIdentity \/ FundAgent
  PROVE  /\ ident' = ident \/ (Top.pc = "reset" /\ ident' = None) \/ Top.pc = "row"
         /\ opened' = opened /\ (initialized => initialized')
<1> USE DEF db, memory
<1>1. CASE CreateIdentity
  <2>1. CASE Ask \/ Checked \/ CheckLost \/ MintFails \/ KeysRead \/ Save \/ Copy \/ IdentityMade
    BY <2>1 DEF Ask, Checked, CheckLost, MintFails, KeysRead, Save, Copy, IdentityMade
  <2>2. CASE Reset \/ Forget \/ StoreIdentity \/ \E a \in Privates : Mint(a)
    BY <2>2 DEF Reset, Forget, StoreIdentity, Mint, At
  <2> QED BY <1>1, <2>1, <2>2 DEF CreateIdentity
<1>2. CASE FundAgent
  <2>1. UNCHANGED <<ident, opened, initialized>>
    BY <1>2 DEF FundAgent, BalanceRead, CreatePublic, Registered, PinataClaimed, ClaimFails,
                Remember, Transfer, Verified
  <2> QED BY <2>1
<1> QED BY <1>1, <1>2

LEMMA AllStep ==
  ASSUME AllInv, [IdentityNext]_vars
  PROVE  CallInv' /\ FileInv'
<1>1. CASE Initialize \/ WalletProof
  BY <1>1, BegunCalls, BegunFiles DEF AllInv
<1>2. CASE Done
  BY <1>2, DoneKept
<1>3. CASE InitWallet
  <2>1. Turn
    BY <1>3, WalletTurn DEF AllInv
  <2>2. CallInv'
    BY <1>3, <2>1, WalletData, TurnCalls DEF AllInv
  <2> QED BY <1>3, <2>2, WalletFiles
<1>4. CASE CreateIdentity
  <2>1. Turn
    BY <1>4, IdentityTurn DEF AllInv, CallInv
  <2>2. CallInv'
    BY <1>4, <2>1, IdentSteps, TurnCalls DEF AllInv
  <2> QED BY <1>4, <2>2, IdentityFiles
<1>5. CASE FundAgent
  <2>1. Turn
    BY <1>5, FundingTurn DEF AllInv, CallInv
  <2>2. CallInv'
    BY <1>5, <2>1, IdentSteps, TurnCalls DEF AllInv
  <2> QED BY <1>5, <2>2, FundingFiles
<1>6. CASE Fault
  BY <1>6, FaultKept
<1>7. CASE UNCHANGED vars
  <2>1. UNCHANGED <<stack, ident, faucet, main, bak, wallet, opened, initialized, unbacked,
                    spurned>>
    BY <1>7 DEF vars, db, files, memory, history, backups
  <2>2. CallInv'
    BY <2>1 DEF AllInv, CallInv, LateInv, Barred, Fresh, Anew, WhoInv
  <2>3. Shaped' /\ BackedUp' /\ MainOK'
    BY <2>1 DEF AllInv, FileInv, Shaped, BackedUp, MainOK, InUse, Saves, Working
  <2>4. OpenOK' /\ ResetOK'
    BY <2>1 DEF AllInv, FileInv, OpenOK, ResetOK, At, Top, Unopened
  <2> QED BY <2>2, <2>3, <2>4 DEF FileInv
<1> QED BY <1>1, <1>2, <1>3, <1>4, <1>5, <1>6, <1>7 DEF IdentityNext

\* Only resetStaleIdentity gives an identity up.
LEMMA GivenUp ==
  ASSUME AllInv, IdentityNext, ident # None, ident' # ident
  PROVE  \/ Top.after = "mint" /\ Unopened
         \/ ident \in spurned
         \/ ident \in unbacked
<1>1. ~ (Initialize \/ WalletProof \/ Done \/ InitWallet \/ Fault)
  <2>1. InitWallet => ident' = ident
    BY WalletData
  <2> QED BY <2>1 DEF Initialize, WalletProof, Begin, Done, Fault, Crash, FileFault, db
<1>2. stack # <<>> /\ (Top.pc = "reset" \/ Top.pc = "row")
  <2>1. CreateIdentity \/ FundAgent
    BY <1>1 DEF IdentityNext
  <2>2. Turn
    BY <2>1, IdentityTurn, FundingTurn DEF AllInv, CallInv
  <2> QED BY <2>1, <2>2, IdentSteps DEF Turn
<1>3. Top.pc # "row"
  <2> SUFFICES ASSUME Top.pc = "row" PROVE FALSE
    OBVIOUS
  <2>1. Starts(Top)
    BY <1>2, TopProper DEF AllInv, Opening
  <2>2. Maker(Top)
    BY <2>1 DEF Maker
  <2> QED BY <1>2, <2>2 DEF AllInv, StepInv, HeldInv
<1> QED BY <1>2, <1>3 DEF AllInv, FileInv, ResetOK, At

-------------------------------------------------------------------------------
(***************************************************************************)
(* Theorems.                                                               *)
(***************************************************************************)
LEMMA StartInit == IdentityInit => StartInv /\ BoundsOK /\ Len(stack) <= MaxDepth
<1> SUFFICES ASSUME IdentityInit PROVE StartInv /\ BoundsOK /\ Len(stack) <= MaxDepth
  OBVIOUS
<1> USE DEF IdentityInit
<1>2. stack = <<>> /\ DOMAIN stack = {} /\ Len(stack) = 0
  OBVIOUS
<1>1. Typed
  <2>1. stack \in Seq(Calls)
    BY <1>2
  <2> QED BY <1>2, <2>1 DEF Typed, CallsOK, RowsOK, Files, NoFile, Closed
<1>3. LineInv /\ HeldInv /\ AgentInv
  BY <1>2 DEF LineInv, HeldInv, AgentInv
<1>4. MintInv
  <2>1. IsFiniteSet(minted) /\ minted \cap Privates = {} /\ Cardinality({}) = 0
    BY FS_EmptySet
  <2> QED BY <2>1 DEF MintInv
<1>5. AccountsOK
  BY DEF AccountsOK, NoFile, Closed
<1>6. PairInv /\ FundedMeansLanded
  BY DEF PairInv, FundedMeansLanded
<1>7. BoundsOK
  <2>1. funded \in BOOLEAN /\ initialized \in BOOLEAN
    OBVIOUS
  <2>2. boots = 0 /\ faults = 0
    OBVIOUS
  <2>3. boots \in Nat /\ boots <= MaxBoots /\ faults \in Nat /\ faults <= MaxFaults
    BY <2>2, IdentityAssumption
  <2> QED BY <2>1, <2>3 DEF BoundsOK
<1> QED BY <1>1, <1>2, <1>3, <1>4, <1>5, <1>6, <1>7, LoopAssumption DEF StartInv, StepInv

LEMMA StartStep == StartInv /\ [IdentityNext]_vars => StartInv'
BY TypedStep, StepInvKept, AccountsStep, PairStep, FundedStep DEF StartInv

LEMMA StartHolds == IdentitySpec => []StartInv
BY StartInit, StartStep, PTL DEF IdentitySpec

\* IdentityTypeOK holds: an account that is named or funded, or whose keys are in the
\* wallet or a file, was made by the wallet.
THEOREM IdentityTyped == IdentitySpec => []IdentityTypeOK
<1> DEFINE I == StartInv /\ BoundsOK /\ Len(stack) <= MaxDepth
<1>1. I /\ [IdentityNext]_vars => I'
  BY StartStep, BoundsStep, DepthStep DEF StartInv
<1>2. I => IdentityTypeOK
  <2> SUFFICES ASSUME I PROVE IdentityTypeOK
    OBVIOUS
  <2>1. \A d \in DOMAIN stack : stack[d].pc \in Paying => stack[d].who \in minted
    BY DEF StartInv, StepInv, LineInv, Proper
  <2>2. /\ {ident, agent} \subseteq Privates \cup {None}
        /\ faucet \in Publics \cup {None}
        /\ minted \subseteq Accounts /\ landed \cup holding \subseteq minted
        /\ main.keys \cup bak.keys \cup wallet.keys \cup unbacked \cup spurned \subseteq minted
    BY DEF StartInv, AccountsOK
  <2>3. /\ {main, bak} \subseteq [st : {"absent", "damaged", "wallet"}, keys : SUBSET Accounts]
        /\ wallet \in [path : {"none", "main", "bak"}, keys : SUBSET Accounts]
    BY DEF StartInv, Typed, RowsOK, Files
  <2>4. funded \in BOOLEAN /\ opened \in BOOLEAN /\ initialized \in BOOLEAN
    BY DEF StartInv, Typed, RowsOK, BoundsOK
  <2> QED BY <2>1, <2>2, <2>3, <2>4 DEF IdentityTypeOK, BoundsOK
<1> QED BY <1>1, <1>2, StartInit, PTL DEF IdentitySpec

\* MintedForAReason holds: one identity is made at a time, and another only when the last
\* was given up, however calls of initialize and walletProof are served inside each other.
THEOREM MintedOnce == IdentitySpec => []MintedForAReason
<1>1. StartInv => MintedForAReason
  <2> SUFFICES ASSUME StartInv PROVE MintedForAReason
    OBVIOUS
  <2>1. /\ IsFiniteSet(minted) /\ aborted \in Nat
        /\ Cardinality(minted \cap Privates) <= aborted + IF Counted THEN 1 ELSE 0
    BY DEF StartInv, StepInv, MintInv
  <2>2. Cardinality(minted \cap Privates) \in Nat
    BY <2>1, FS_Intersection, FS_CardinalityType
  <2> QED BY <2>1, <2>2 DEF MintedForAReason
<1> QED BY <1>1, StartHolds, PTL

\* FundedMeansLanded holds: funded is said of the identity there is, and of its money.
THEOREM FundedHasLanded == IdentitySpec => []FundedMeansLanded
<1>1. StartInv => FundedMeansLanded
  BY DEF StartInv
<1> QED BY <1>1, StartHolds, PTL

\* PairedWithWallet holds: the agent, pilot.db and the open wallet agree on the identity.
THEOREM PairedWhenHeard == IdentitySpec => []PairedWithWallet
<1>1. StartInv => PairedWithWallet
  BY DEF StartInv, PairInv, PairedWithWallet, At
<1> QED BY <1>1, StartHolds, PTL

\* The invariants that speak of the backups hold as well.
LEMMA AllInit == IdentityInit => CallInv /\ FileInv
<1> SUFFICES ASSUME IdentityInit PROVE CallInv /\ FileInv
  OBVIOUS
<1> USE DEF IdentityInit
<1>1. stack = <<>> /\ DOMAIN stack = {} /\ ident = None /\ faucet = None
  OBVIOUS
<1>2. CallInv
  BY <1>1 DEF CallInv, LateInv, Barred, Fresh, Anew, WhoInv
<1>3. FileInv
  BY <1>1 DEF FileInv, Shaped, BackedUp, InUse, MainOK, OpenOK, ResetOK, NoFile, At
<1> QED BY <1>2, <1>3

LEMMA AllHolds == IdentitySpec => [](StartInv /\ CallInv /\ FileInv)
<1>1. IdentityInit => StartInv /\ CallInv /\ FileInv
  BY StartInit, AllInit
<1>2. StartInv /\ CallInv /\ FileInv /\ [IdentityNext]_vars => (StartInv /\ CallInv /\ FileInv)'
  <2> SUFFICES ASSUME StartInv, CallInv, FileInv, [IdentityNext]_vars
               PROVE  StartInv' /\ CallInv' /\ FileInv'
    OBVIOUS
  <2>1. AllInv
    BY DEF StartInv, AllInv
  <2> QED BY <2>1, StartStep, AllStep
<1> QED BY <1>1, <1>2, PTL DEF IdentitySpec

\* KeysOutliveTheWallet holds: between two calls of backupWallet some file that opens has
\* the keys of the identity and of the faucet account, but for those that the last
\* backupWallet did not carry to the backup, or a crash in one left in fewer than both files.
THEOREM KeysStay == IdentitySpec => []KeysOutliveTheWallet
<1>1. StartInv /\ CallInv /\ FileInv => KeysOutliveTheWallet
  <2> SUFFICES ASSUME FileInv, ~Saves, NEW a \in InUse \ unbacked
               PROVE  \E f \in {main, bak} : f.st = "wallet" /\ a \in f.keys
    BY DEF KeysOutliveTheWallet, Saves
  <2>1. a \in bak.keys
    BY DEF FileInv, BackedUp
  <2>2. bak.st = "wallet"
    BY <2>1 DEF FileInv, Shaped
  <2> QED BY <2>1, <2>2
<1> QED BY <1>1, AllHolds, PTL

\* IdentityKept holds: an identity whose keys are backed up is given up only where a wallet
\* that the agent did not open, or that died since, is asked for it, or where an intact
\* backup was passed over; whatever else stays unanswered, is refused, is damaged or crashes,
\* and however calls are served inside each other.
THEOREM KeptForGood == IdentitySpec => IdentityKept
<1>1. StartInv /\ CallInv /\ FileInv /\ [IdentityNext]_vars =>
        [ident # None /\ ident' # ident =>
           \/ Top.after = "mint" /\ Unopened
           \/ ident \in spurned
           \/ ident \in unbacked]_vars
  <2> SUFFICES ASSUME StartInv, CallInv, FileInv, IdentityNext, ident # None, ident' # ident
               PROVE  \/ Top.after = "mint" /\ Unopened
                      \/ ident \in spurned
                      \/ ident \in unbacked
    OBVIOUS
  <2>1. AllInv
    BY DEF StartInv, AllInv
  <2> QED BY <2>1, GivenUp
<1> QED BY <1>1, AllHolds, PTL DEF IdentitySpec, IdentityKept
===============================================================================
