------------------------------ MODULE Deployer ------------------------------
(***************************************************************************)
(* ev-deployer: `init` writes a config, `genesis` merges the configured    *)
(* contracts into a genesis file, `deploy` creates them on a live chain    *)
(* through the CREATE2 factory and keeps its progress in a state file that *)
(* a later run resumes from.  ev-dev merges the same contracts into the    *)
(* genesis of its devnet.                                                  *)
(*                                                                         *)
(* A run of `deploy` is a process of its own: it may be killed between any *)
(* two steps, every RPC call may fail, and a transaction whose answer was  *)
(* lost may be mined at any later time.                                    *)
(***************************************************************************)
EXTENDS Naturals, Sequences, FiniteSets

CONSTANTS
  Chains,      \* chain ids
  Accounts,    \* addresses that configs and genesis files name
  ZeroAddress,
  DETERMINISTIC_DEPLOYER, AdminProxyAddress, Permit2Address,  \* the canonical ones
  DevChain,    \* the chain id of the devnet genesis
  Salts,       \* what the random generator may return
  Configs,     \* the configs an operator may write
  Templates,   \* the flags `init` may be given: contracts, owner of the proxy
  Genesis,     \* the genesis files the chains may begin with
  None,        \* Option::None, and a file that does not exist
  Torn,        \* a file whose writing was cut
  MaxEdits,    \* bound: changes of config or endpoint
  MaxFaults    \* bound: crashes, failed calls, failed transactions

VARIABLES
  config,      \* deploy.toml
  rpc,         \* the chain behind --rpc-url
  genesis,     \* the alloc of the genesis file of every chain
  code,        \* the code at every address of every chain
  live,        \* the chains that have started
  txs,         \* the deploy transactions the chains accepted
  file,        \* the state file
  tmp,         \* the temporary file beside it
  run,         \* the running `deploy`
  manifest,    \* the address manifest of the last complete run
  edits, faults

vars == <<config, rpc, genesis, code, live, txs, file, tmp, run, manifest, edits, faults>>

operator == <<config, rpc, edits>>
chain == <<genesis, code, live, txs>>
disk == <<file, tmp>>

-----------------------------------------------------------------------------
(* Code.  Bytecode is what it was made from; NoCode is empty bytes.        *)

NoCode == <<>>

(* permit2::expected_runtime_bytecode: chain id and address are patched in.*)
expected_runtime_bytecode(chain_id, address) == <<"permit2", chain_id, address>>

FactoryCode == <<"deterministic_deployer">>

compute_address(salt) == <<"create2", salt>>

Address == Accounts \cup {compute_address(s) : s \in Salts}

ASSUME AddressAssumption ==
  /\ {ZeroAddress, DETERMINISTIC_DEPLOYER, AdminProxyAddress, Permit2Address} \subseteq Accounts
  /\ \A s \in Salts : compute_address(s) \notin Accounts

-----------------------------------------------------------------------------
(* Config.  contracts maps the configured names to an address (or None)    *)
(* and, for the proxy, its owner.                                          *)

Has(cfg, name) == name \in DOMAIN cfg.contracts

Placed(cfg) == {n \in DOMAIN cfg.contracts : cfg.contracts[n].address # None}

(* DeployConfig::validate, run by every load.                              *)
validate(cfg) ==
  /\ Has(cfg, "admin_proxy") => cfg.contracts["admin_proxy"].owner # ZeroAddress
  /\ \A n \in {"permit2", "deterministic_deployer"} \cap Placed(cfg) :
       cfg.contracts[n].address # ZeroAddress
  /\ \A m, n \in Placed(cfg) :
       m # n => cfg.contracts[m].address # cfg.contracts[n].address

validate_for_genesis(cfg) == Placed(cfg) = DOMAIN cfg.contracts

(* init::generate_template: the canonical addresses.                       *)
generate_template(chain_id, names, owner) ==
  [chain_id |-> chain_id,
   contracts |-> [n \in names |->
     [address |-> CASE n = "admin_proxy" -> AdminProxyAddress
                    [] n = "permit2" -> Permit2Address
                    [] OTHER -> DETERMINISTIC_DEPLOYER,
      owner |-> IF n = "admin_proxy" THEN owner ELSE None]]]

-----------------------------------------------------------------------------
(* Genesis.  A genesis file maps keys to code; a key is an address and its *)
(* spelling, of which "canonical" is what normalize_addr returns.          *)

(* contracts::admin_proxy::build: the owner is slot 0 of its storage.      *)
AdminProxyContract(c) == <<"admin_proxy", c.owner>>

(* contracts::permit2::build: the runtime code of its address and chain.   *)
Permit2Contract(c, chain_id) == expected_runtime_bytecode(chain_id, c.address)

Built(cfg, name) ==
  CASE name = "permit2" -> Permit2Contract(cfg.contracts[name], cfg.chain_id)
    [] name = "admin_proxy" -> AdminProxyContract(cfg.contracts[name])
    [] OTHER -> FactoryCode

build_alloc(cfg) ==
  [a \in {cfg.contracts[n].address : n \in DOMAIN cfg.contracts} |->
     Built(cfg, CHOOSE n \in DOMAIN cfg.contracts : cfg.contracts[n].address = a)]

Spellings(alloc, a) == {k \in DOMAIN alloc : k[1] = a}

Collides(cfg, alloc) == \E a \in DOMAIN build_alloc(cfg) : Spellings(alloc, a) # {}

(* Mutant: the entry under another spelling is left in place.              *)
MergedKeepsSpelling(cfg, alloc) ==
  LET new == build_alloc(cfg)
      fresh == {<<a, "canonical">> : a \in DOMAIN new}
  IN [k \in DOMAIN alloc \cup fresh |-> IF k \in fresh THEN new[k[1]] ELSE alloc[k]]

(* merge_alloc, once collisions are allowed: one key of each configured    *)
(* address goes, the canonical one is written.  Balances, which it sets to *)
(* zero, are not modelled.                                                 *)
Merged(cfg, alloc) ==
  LET new == build_alloc(cfg)
      gone == {CHOOSE k \in Spellings(alloc, a) : TRUE :
                 a \in {b \in DOMAIN new : Spellings(alloc, b) # {}}}
      fresh == {<<a, "canonical">> : a \in DOMAIN new}
  IN [k \in (DOMAIN alloc \ gone) \cup fresh |->
        IF k \in fresh THEN new[k[1]] ELSE alloc[k]]

-----------------------------------------------------------------------------
(* The state file.  permit2 is the recorded status, "none" for no entry,   *)
(* and the address.                                                        *)

Applied(cfg) == [chain_id |-> cfg.chain_id, permit2 |-> Has(cfg, "permit2")]

DeployState ==
  [salt : Salts, intent : [chain_id : Chains, permit2 : BOOLEAN],
   permit2 : {"none", "deployed", "verified"}, address : Address \cup {None}]

ASSUME FileAssumption ==
  None \notin Salts \cup DeployState /\ Torn \notin DeployState /\ Torn # None

NewState(cfg, salt) ==
  [salt |-> salt, intent |-> Applied(cfg), permit2 |-> "none", address |-> None]

(* Mutant: the chain id may change.                                        *)
validate_immutability_any_chain(st, cfg) == st.intent.permit2 => Has(cfg, "permit2")

validate_immutability(st, cfg) ==
  /\ cfg.chain_id = st.intent.chain_id
  /\ st.intent.permit2 => Has(cfg, "permit2")

ASSUME InputAssumption ==
  /\ DevChain \in Chains
  /\ \A cfg \in Configs : \A n \in DOMAIN cfg.contracts :
       cfg.contracts[n].address \in Accounts \cup {None}
  /\ \A g \in Genesis :
       /\ g = [c \in Chains |-> g[c]]
       /\ \A c \in Chains : \A k \in DOMAIN g[c] : k[1] \in Accounts

-----------------------------------------------------------------------------
(* The run: its step, what it loaded, its copy of the state, the step after *)
(* a save, and the transaction it waits for.                               *)
Idle == [pc |-> "idle", cfg |-> None, rpc |-> None, st |-> None, to |-> "idle", tx |-> 0]

Init ==
  /\ config \in Configs
  /\ rpc \in Chains
  /\ genesis \in Genesis
  /\ code = [c \in Chains |-> [a \in Address |-> NoCode]]
  /\ live = {}
  /\ txs = <<>>
  /\ file = None
  /\ tmp = None
  /\ run = Idle
  /\ manifest = None
  /\ edits = 0
  /\ faults = 0

-----------------------------------------------------------------------------
(* The operator.                                                           *)

Edit ==
  /\ edits < MaxEdits
  /\ edits' = edits + 1
  /\ config' \in Configs
  /\ rpc' \in Chains
  /\ UNCHANGED <<chain, disk, run, manifest, faults>>

InitCommand(flags) ==
  /\ edits < MaxEdits
  /\ edits' = edits + 1
  /\ config' = generate_template(rpc, flags.names, flags.owner)
  /\ UNCHANGED <<rpc, chain, disk, run, manifest, faults>>

(* `genesis --merge-into`: an error writes nothing.  The genesis of the    *)
(* devnet is no file, it is embedded in ev-dev.                            *)
GenesisCommand(c, force) ==
  /\ c \notin live \cup {DevChain}
  /\ validate(config)
  /\ validate_for_genesis(config)
  /\ force \/ ~Collides(config, genesis[c])
  /\ genesis' = [genesis EXCEPT ![c] = Merged(config, @)]
  /\ UNCHANGED <<operator, code, live, txs, disk, run, manifest, faults>>

(* What a chain holds when it starts from a genesis file.                  *)
Loaded(alloc) ==
  [a \in Address |-> IF Spellings(alloc, a) = {} THEN NoCode
                     ELSE alloc[CHOOSE k \in Spellings(alloc, a) : TRUE]]

StartChain(c) ==
  /\ c \notin live
  /\ live' = live \cup {c}
  /\ code' = [code EXCEPT ![c] = Loaded(genesis[c])]
  /\ UNCHANGED <<operator, genesis, txs, disk, run, manifest, faults>>

(* ev-dev with a deploy config: the chain id is the devnet's whatever the  *)
(* config says, collisions are overwritten, and a contract without address *)
(* is a panic.                                                             *)
StartDev ==
  LET cfg == [config EXCEPT !.chain_id = DevChain]
      merged == Merged(cfg, genesis[DevChain])
  IN /\ DevChain \notin live
     /\ live' = live \cup {DevChain}
     /\ validate(config)
     /\ validate_for_genesis(config)
     /\ genesis' = [genesis EXCEPT ![DevChain] = merged]
     /\ code' = [code EXCEPT ![DevChain] = Loaded(merged)]
     /\ UNCHANGED <<operator, txs, disk, run, manifest, faults>>

-----------------------------------------------------------------------------
(* One run of `deploy`.                                                    *)

Goto(pc) == run' = [run EXCEPT !.pc = pc]

(* An error ends the process: memory is lost, files stay.                  *)
Bail == run' = Idle

Save(st, to) == run' = [run EXCEPT !.st = st, !.pc = "write", !.to = to]

(* A config that does not validate ends the run before it touches anything.*)
DeployCommand ==
  /\ run.pc = "idle"
  /\ IF validate(config)
       THEN run' = [Idle EXCEPT !.pc = "chain_id", !.cfg = config, !.rpc = rpc]
       ELSE Bail
  /\ UNCHANGED <<operator, chain, disk, manifest, faults>>

(* Step 1 of run: the endpoint answers and reports the configured chain.   *)
CheckChainId ==
  /\ run.pc = "chain_id"
  /\ IF run.rpc \in live /\ run.rpc = run.cfg.chain_id
       THEN Goto("factory")
       ELSE Bail
  /\ UNCHANGED <<operator, chain, disk, manifest, faults>>

(* There is some code at the factory's address; which one is not compared. *)
CheckFactory ==
  /\ run.pc = "factory"
  /\ IF code[run.rpc][DETERMINISTIC_DEPLOYER] # NoCode THEN Goto("load") ELSE Bail
  /\ UNCHANGED <<operator, chain, disk, manifest, faults>>

(* deploy_contract is skipped when Permit2 is not configured and returns   *)
(* at once when the state has it as deployed or verified.                  *)
Pending(st) == Has(run.cfg, "permit2") /\ st.permit2 = "none"

AfterLoad(st) == IF Pending(st) THEN "probe" ELSE "verify"

(* DeployState::load succeeds: the file is there and parses.               *)
Loads == file \notin {None, Torn}

(* Mutant: a new state is not saved before it is used.                     *)
LoadOrCreateUnsaved ==
  /\ run.pc = "load"
  /\ \/ /\ file = None
        /\ \E salt \in Salts :
             LET st == NewState(run.cfg, salt)
             IN run' = [run EXCEPT !.st = st, !.pc = AfterLoad(st)]
     \/ /\ Loads
        /\ validate_immutability(file, run.cfg)
        /\ run' = [run EXCEPT !.st = file, !.pc = AfterLoad(file)]
     \/ /\ file # None
        /\ Loads => ~validate_immutability(file, run.cfg)
        /\ Bail
  /\ UNCHANGED <<operator, chain, disk, manifest, faults>>

LoadOrCreate ==
  /\ run.pc = "load"
  /\ \/ /\ file = None
        /\ \E salt \in Salts :
             LET st == NewState(run.cfg, salt) IN Save(st, AfterLoad(st))
     \/ /\ Loads
        /\ validate_immutability(file, run.cfg)
        /\ run' = [run EXCEPT !.st = file, !.pc = AfterLoad(file)]
     \/ /\ file # None
        /\ Loads => ~validate_immutability(file, run.cfg)
        /\ Bail
  /\ UNCHANGED <<operator, chain, disk, manifest, faults>>

(* Mutant: the state file itself is rewritten, and the write can be cut.   *)
SaveWriteInPlace ==
  /\ run.pc = "write"
  /\ tmp' = run.st
  /\ file' = Torn
  /\ Goto("rename")
  /\ UNCHANGED <<operator, chain, manifest, faults>>

(* DeployState::save: a temporary file, then a rename over the old one.    *)
SaveWrite ==
  /\ run.pc = "write"
  /\ tmp' = run.st
  /\ Goto("rename")
  /\ UNCHANGED <<operator, chain, file, manifest, faults>>

SaveRename ==
  /\ run.pc = "rename"
  /\ file' = tmp
  /\ tmp' = None
  /\ Goto(run.to)
  /\ UNCHANGED <<operator, chain, manifest, faults>>

Target == compute_address(run.st.salt)

Deployed(st) == [st EXCEPT !.permit2 = "deployed", !.address = compute_address(st.salt)]

(* Idempotency check of deploy_contract.                                   *)
Probe ==
  /\ run.pc = "probe"
  /\ LET existing == code[run.rpc][Target]
     IN \/ existing = NoCode /\ Goto("send")
        \/ /\ existing = expected_runtime_bytecode(run.rpc, Target)
           /\ Save(Deployed(run.st), "verify")
        \/ /\ existing \notin {NoCode, expected_runtime_bytecode(run.rpc, Target)}
           /\ Bail
  /\ UNCHANGED <<operator, chain, disk, manifest, faults>>

(* deploy_create2: the node accepts the transaction, then its receipt is   *)
(* awaited.                                                                *)
SendCreate2 ==
  /\ run.pc = "send"
  /\ txs' = Append(txs, [chain |-> run.rpc, salt |-> run.st.salt, status |-> "pending"])
  /\ run' = [run EXCEPT !.pc = "receipt", !.tx = Len(txs) + 1]
  /\ UNCHANGED <<operator, genesis, code, live, disk, manifest, faults>>

(* Mutant: a receipt is taken for success.                                 *)
GetReceiptAnyStatus ==
  /\ run.pc = "receipt"
  /\ Save(Deployed(run.st), "verify")
  /\ UNCHANGED <<operator, chain, disk, manifest, faults>>

GetReceipt ==
  /\ run.pc = "receipt"
  /\ \/ txs[run.tx].status = "success" /\ Save(Deployed(run.st), "verify")
     \/ txs[run.tx].status = "reverted" /\ Bail
  /\ UNCHANGED <<operator, chain, disk, manifest, faults>>

(* verify_all: what is verified already is not read again; the state is    *)
(* saved either way.                                                       *)
VerifyAll ==
  /\ run.pc = "verify"
  /\ IF run.st.permit2 # "deployed" THEN Save(run.st, "output")
     ELSE IF code[run.rpc][run.st.address]
               = expected_runtime_bytecode(run.rpc, run.st.address)
       THEN Save([run.st EXCEPT !.permit2 = "verified"], "output")
       ELSE Bail
  /\ UNCHANGED <<operator, chain, disk, manifest, faults>>

(* The address the state has, None for an empty manifest.                  *)
build_deploy_manifest(st) == st.address

(* --addresses-out.                                                        *)
Output ==
  /\ run.pc = "output"
  /\ manifest' = build_deploy_manifest(run.st)
  /\ run' = Idle
  /\ UNCHANGED <<operator, chain, disk, faults>>

(* The process is killed, or a call to the node fails.  A write may be cut.*)
Abort ==
  /\ run.pc # "idle"
  /\ faults < MaxFaults
  /\ faults' = faults + 1
  /\ run' = Idle
  /\ tmp' \in IF run.pc = "write" THEN {tmp, Torn} ELSE {tmp}
  /\ UNCHANGED <<operator, chain, file, manifest>>

-----------------------------------------------------------------------------
(* The chain: transactions of one wallet are mined in order.  The factory  *)
(* creates at a free address and reverts at a taken one; other code in its *)
(* place creates nothing; any transaction may fail.                        *)
MineTx(i) ==
  LET c == txs[i].chain
      at == compute_address(txs[i].salt)
      genuine == code[c][DETERMINISTIC_DEPLOYER] = FactoryCode
      free == code[c][at] = NoCode
      Mined(status) == txs' = [txs EXCEPT ![i].status = status]
  IN /\ txs[i].status = "pending"
     /\ \A j \in 1 .. i - 1 : txs[j].chain = c => txs[j].status # "pending"
     /\ \/ /\ genuine /\ free
           /\ Mined("success")
           /\ code' = [code EXCEPT ![c][at] = expected_runtime_bytecode(c, at)]
           /\ UNCHANGED faults
        \/ genuine /\ ~free /\ Mined("reverted") /\ UNCHANGED <<code, faults>>
        \/ ~genuine /\ Mined("success") /\ UNCHANGED <<code, faults>>
        \/ /\ faults < MaxFaults
           /\ faults' = faults + 1
           /\ Mined("reverted")
           /\ UNCHANGED code
     /\ UNCHANGED <<operator, genesis, live, disk, run, manifest>>

-----------------------------------------------------------------------------
Deploy ==
  \/ DeployCommand
  \/ CheckChainId
  \/ CheckFactory
  \/ LoadOrCreate
  \/ SaveWrite
  \/ SaveRename
  \/ Probe
  \/ SendCreate2
  \/ GetReceipt
  \/ VerifyAll
  \/ Output

Next ==
  \/ Edit
  \/ \E flags \in Templates : InitCommand(flags)
  \/ \E c \in Chains, force \in BOOLEAN : GenesisCommand(c, force)
  \/ \E c \in Chains : StartChain(c)
  \/ StartDev
  \/ Deploy
  \/ Abort
  \/ \E i \in 1 .. Len(txs) : MineTx(i)

(* The operator runs `deploy` again until it is content, and the chain     *)
(* mines what it accepted.                                                 *)
Fairness == WF_vars(Deploy) /\ WF_vars(\E i \in 1 .. Len(txs) : MineTx(i))

Spec == Init /\ [][Next]_vars /\ Fairness

-----------------------------------------------------------------------------
(* Properties.                                                             *)

Verified == Loads /\ file.permit2 = "verified"

(* Every transaction that create2 sent carries the salt and the chain of   *)
(* the state file, whatever crashed in between: deploy_contract runs only  *)
(* after `run` has saved a new state, and validate_immutability keeps the  *)
(* file on its chain.  Otherwise a resumed run would create a second       *)
(* contract and lose the first.                                            *)
OneDeployment ==
  \A i \in 1 .. Len(txs) :
    Loads /\ txs[i].salt = file.salt /\ txs[i].chain = file.intent.chain_id

(* What the state file and the manifest say of Permit2 is true on the      *)
(* chain: a recorded status needs the code (a claim of "deployed" under a  *)
(* factory that is not the real one excepted), "verified" needs it         *)
(* whatever the factory, and a manifest lists the recorded address.        *)
RecordsAreTrue ==
  Loads =>
    LET there == code[file.intent.chain_id][compute_address(file.salt)]
                   = expected_runtime_bytecode(file.intent.chain_id, compute_address(file.salt))
        genuine == code[file.intent.chain_id][DETERMINISTIC_DEPLOYER] = FactoryCode
    IN /\ file.permit2 = "verified" => there
       /\ file.permit2 = "deployed" /\ genuine => there
       /\ manifest # None => file.permit2 = "verified" /\ manifest = compute_address(file.salt)

(* The pipeline implements DeployOnce: seen through the state file, a run  *)
(* and its crashes, retries and late transactions are one deployment.      *)
Promise ==
  INSTANCE DeployOnce WITH
    salt <- IF Loads THEN file.salt ELSE None,
    genuine <- Loads /\ code[file.intent.chain_id][DETERMINISTIC_DEPLOYER] = FactoryCode,
    created <- Loads /\ code[file.intent.chain_id][compute_address(file.salt)] # NoCode,
    record <- IF Loads THEN file.permit2 ELSE "none"

ImplementsDeployOnce == Promise!Spec

(* merge_alloc on a genesis that spells every address once: whatever the   *)
(* spelling and the code of an entry it replaces, afterwards every         *)
(* configured address has one entry, the contract built for it (for the    *)
(* chain id of the config, or of the devnet), and all others are as        *)
(* before.                                                                 *)
SpelledOnce(alloc) == \A j, k \in DOMAIN alloc : j[1] = k[1] => j = k

MergeKeepsAccounts ==
  [][\A c \in Chains :
       genesis'[c] # genesis[c] /\ SpelledOnce(genesis[c]) =>
         LET cfg == IF c \in live' THEN [config EXCEPT !.chain_id = DevChain] ELSE config
             placed == {config.contracts[n].address : n \in DOMAIN config.contracts}
         IN /\ SpelledOnce(genesis'[c])
            /\ \A n \in DOMAIN config.contracts :
                 genesis'[c][<<config.contracts[n].address, "canonical">>] = Built(cfg, n)
            /\ \A k \in DOMAIN genesis[c] :
                 k[1] \notin placed => k \in DOMAIN genesis'[c] /\ genesis'[c][k] = genesis[c][k]
            /\ {k[1] : k \in DOMAIN genesis'[c]} = {k[1] : k \in DOMAIN genesis[c]} \cup placed]_vars

(* A config that names Permit2 and the chain behind the endpoint, on a     *)
(* chain with the factory, and a state file of that chain.                 *)
Resumable ==
  /\ validate(config)
  /\ Has(config, "permit2")
  /\ rpc = config.chain_id
  /\ rpc \in live
  /\ code[rpc][DETERMINISTIC_DEPLOYER] = FactoryCode
  /\ Loads => file.intent.chain_id = rpc

(* README of bin/ev-deployer: "re-running with the same state file resumes *)
(* where it left off".  Once the setup stays resumable, running `deploy`   *)
(* again and again verifies the contract, from whatever file, temporary    *)
(* file and half-mined transactions the cut runs left.                     *)
EventuallyVerified == <>[]Resumable => <>Verified

=============================================================================
