--------------------------- MODULE DeployerProofs ---------------------------
(***************************************************************************)
(* Proofs about Deployer, for any chains, configs, genesis files, salts    *)
(* and any number of crashes: the records are true, there is one           *)
(* deployment, and the pipeline implements DeployOnce.                     *)
(***************************************************************************)
EXTENDS Deployer, TLAPS

Tx == [chain : Chains, salt : Salts, status : {"pending", "success", "reverted"}]

Steps ==
  {"idle", "chain_id", "factory", "load", "write", "rename", "probe", "send",
   "receipt", "verify", "output"}

At(c, s) == code[c][compute_address(s)]

Genuine(c) == code[c][DETERMINISTIC_DEPLOYER] = FactoryCode

There(c, s) == At(c, s) = expected_runtime_bytecode(c, compute_address(s))

(* The chains: functions on addresses, with live chains only ever started. *)
ChainsOK ==
  /\ code = [c \in Chains |-> code[c]]
  /\ \A c \in Chains : code[c] = [a \in Address |-> code[c][a]]
  /\ live \subseteq Chains
  /\ genesis = [c \in Chains |-> genesis[c]]
  /\ \A c \in Chains : \A k \in DOMAIN genesis[c] : k[1] \in Accounts
  /\ \A n \in DOMAIN config.contracts : config.contracts[n].address \in Accounts \cup {None}

(* The state file: never torn, of a live chain, with the address of its    *)
(* salt once there is a status.                                            *)
FileOK ==
  /\ file \in DeployState \cup {None}
  /\ file # None =>
       /\ file.intent.chain_id \in live
       /\ file.address = IF file.permit2 = "none" THEN None ELSE compute_address(file.salt)

(* Transactions carry the salt and chain of the file, and one that         *)
(* succeeded on a real factory has left the contract.                      *)
TxsOK ==
  /\ txs \in Seq(Tx)
  /\ \A i \in 1 .. Len(txs) :
       /\ file # None
       /\ txs[i].salt = file.salt
       /\ txs[i].chain = file.intent.chain_id
       /\ txs[i].status = "success" /\ Genuine(txs[i].chain) =>
            There(txs[i].chain, txs[i].salt)

(* Only the deployment of the file puts code at a CREATE2 address.         *)
CodeOK ==
  \A c \in Chains, s \in Salts :
    \/ At(c, s) = NoCode
    \/ /\ There(c, s)
       /\ file # None
       /\ s = file.salt
       /\ c = file.intent.chain_id

RecordOK ==
  file # None =>
    /\ file.permit2 = "verified" => There(file.intent.chain_id, file.salt)
    /\ file.permit2 = "deployed" /\ Genuine(file.intent.chain_id) =>
         There(file.intent.chain_id, file.salt)

ManifestOK ==
  manifest # None =>
    file # None /\ file.permit2 = "verified" /\ manifest = compute_address(file.salt)

(* What a state being saved may be, seen from the file it replaces: new,   *)
(* deployed, verified, or the same.                                        *)
SaveOK ==
  LET st == run.st
  IN \/ /\ file = None
        /\ st.permit2 = "none"
        /\ st.address = None
        /\ run.to \in {"probe", "verify"}
     \/ /\ file # None
        /\ file.permit2 = "none"
        /\ st = Deployed(file)
        /\ Genuine(file.intent.chain_id) => There(file.intent.chain_id, file.salt)
        /\ run.to = "verify"
     \/ /\ file # None
        /\ file.permit2 = "deployed"
        /\ st = [file EXCEPT !.permit2 = "verified"]
        /\ There(file.intent.chain_id, file.salt)
        /\ run.to = "output"
     \/ /\ st = file
        /\ st.permit2 # "deployed"
        /\ run.to = "output"

(* The run: past the checks its chain is live and configured, and outside  *)
(* a save its copy of the state is the file.                               *)
RunOK ==
  /\ run.pc \in Steps
  /\ run = [pc |-> run.pc, cfg |-> run.cfg, rpc |-> run.rpc, st |-> run.st, to |-> run.to,
            tx |-> run.tx]
  /\ run.pc \notin {"idle", "chain_id"} => run.rpc \in live /\ run.cfg.chain_id = run.rpc
  /\ run.pc \notin {"idle", "chain_id", "factory", "load"} =>
       run.st \in DeployState /\ run.st.intent.chain_id = run.rpc
  /\ run.pc \in {"probe", "send", "receipt", "verify", "output"} => run.st = file
  /\ run.pc \in {"probe", "send", "receipt"} => run.st.permit2 = "none"
  /\ run.pc = "output" => run.st.permit2 # "deployed"
  /\ run.pc = "rename" => tmp = run.st
  /\ run.pc \in {"write", "rename"} => SaveOK
  /\ run.pc = "receipt" => run.tx \in 1 .. Len(txs)

IInv == ChainsOK /\ FileOK /\ TxsOK /\ CodeOK /\ RecordOK /\ ManifestOK /\ RunOK

-----------------------------------------------------------------------------
(* The state file is never torn, so it loads exactly when it is there.     *)
LEMMA LoadsIffPresent ==
  ASSUME FileOK
  PROVE  Loads <=> file # None
BY FileAssumption, Zenon DEF FileOK, Loads

(* CREATE2 addresses of different salts differ, and none is a named one.   *)
LEMMA Create2Addresses ==
  /\ \A s, t \in Salts : compute_address(s) = compute_address(t) => s = t
  /\ \A s \in Salts : compute_address(s) \in Address
  /\ \A s \in Salts : compute_address(s) \notin Accounts
  /\ DETERMINISTIC_DEPLOYER \in Address
  /\ \A s \in Salts : compute_address(s) # DETERMINISTIC_DEPLOYER
<1>1. \A s, t \in Salts : compute_address(s) = compute_address(t) => s = t
  BY Zenon DEF compute_address
<1>2. QED
  BY <1>1, AddressAssumption, Zenon DEF Address

(* The inductive invariant holds initially.                                *)
LEMMA InitIInv ==
  Init => IInv
<1> SUFFICES ASSUME Init PROVE IInv
  BY Zenon
<1>1. ChainsOK
  BY InputAssumption, Zenon DEF Init, ChainsOK
<1>2. FileOK
  BY Zenon DEF Init, FileOK
<1>3. TxsOK
  BY DEF Init, TxsOK
<1>4. CodeOK
  BY Create2Addresses, Zenon DEF Init, CodeOK, At
<1>5. RecordOK /\ ManifestOK
  BY Zenon DEF Init, RecordOK, ManifestOK
<1>6. RunOK
  BY Zenon DEF Init, RunOK, Idle, Steps
<1>7. QED
  BY <1>1, <1>2, <1>3, <1>4, <1>5, <1>6, Zenon DEF IInv

-----------------------------------------------------------------------------
(* Steps of the run that touch neither the file, the transactions nor the  *)
(* chains preserve IInv if they preserve RunOK.                            *)
LEMMA FrameOfRun ==
  ASSUME IInv, UNCHANGED <<config, chain, file, manifest>>, RunOK'
  PROVE  IInv'
<1>1. ChainsOK' /\ FileOK' /\ ManifestOK'
  BY Zenon DEF IInv, ChainsOK, FileOK, ManifestOK, chain
<1>2. TxsOK' /\ CodeOK' /\ RecordOK'
  BY Zenon DEF IInv, TxsOK, CodeOK, RecordOK, At, There, Genuine, chain
<1>3. QED
  BY <1>1, <1>2, Zenon DEF IInv

(* An ended run satisfies RunOK.                                           *)
LEMMA IdleRun ==
  ASSUME run' = Idle
  PROVE  RunOK'
BY Zenon DEF RunOK, Idle, Steps

(* The checks before the state is loaded, and the end of a run.            *)
LEMMA ChecksPreserve ==
  ASSUME IInv, DeployCommand \/ CheckChainId \/ CheckFactory \/ Abort
  PROVE  IInv'
<1>1. CASE DeployCommand
  <2>1. CASE run' = Idle
    BY <1>1, <2>1, IdleRun, FrameOfRun, Zenon DEF DeployCommand, operator, chain, disk
  <2>2. CASE run' = [Idle EXCEPT !.pc = "chain_id", !.cfg = config, !.rpc = rpc]
    <3>1. RunOK'
      BY <2>2, Zenon DEF RunOK, Idle, Steps
    <3>2. QED
      BY <1>1, <3>1, FrameOfRun, Zenon DEF DeployCommand, operator, chain, disk
  <2>3. QED
    BY <1>1, <2>1, <2>2, Zenon DEF DeployCommand, Bail
<1>2. CASE CheckChainId
  <2>1. CASE run' = Idle
    BY <1>2, <2>1, IdleRun, FrameOfRun, Zenon DEF CheckChainId, operator, chain, disk
  <2>2. CASE run.rpc \in live /\ run.rpc = run.cfg.chain_id /\ Goto("factory")
    <3>1. RunOK'
      BY <1>2, <2>2, Zenon DEF IInv, RunOK, Steps, Goto, CheckChainId, chain, disk
    <3>2. QED
      BY <1>2, <3>1, FrameOfRun, Zenon DEF CheckChainId, operator, chain, disk
  <2>3. QED
    BY <1>2, <2>1, <2>2, Zenon DEF CheckChainId, Bail
<1>3. CASE CheckFactory
  <2>1. CASE run' = Idle
    BY <1>3, <2>1, IdleRun, FrameOfRun, Zenon DEF CheckFactory, operator, chain, disk
  <2>2. CASE Goto("load")
    <3>1. RunOK'
      BY <1>3, <2>2, Zenon DEF IInv, RunOK, Steps, Goto, CheckFactory, chain, disk
    <3>2. QED
      BY <1>3, <3>1, FrameOfRun, Zenon DEF CheckFactory, operator, chain, disk
  <2>3. QED
    BY <1>3, <2>1, <2>2, Zenon DEF CheckFactory, Bail
<1>4. CASE Abort
  BY <1>4, IdleRun, FrameOfRun, Zenon DEF Abort, operator, chain
<1>5. QED
  BY <1>1, <1>2, <1>3, <1>4, Zenon

(* A new state is new to an absent file; a loaded one is the file's.       *)
LEMMA LoadPreserves ==
  ASSUME IInv, LoadOrCreate
  PROVE  IInv'
<1>1. UNCHANGED <<config, chain, file, manifest>> /\ run.pc = "load"
  BY Zenon DEF LoadOrCreate, operator, chain, disk
<1>2. ASSUME file = None, NEW salt \in Salts,
             Save(NewState(run.cfg, salt), AfterLoad(NewState(run.cfg, salt)))
      PROVE  RunOK'
  <2> DEFINE st == NewState(run.cfg, salt)
             to == AfterLoad(st)
  <2>1. run.cfg.chain_id \in live /\ run.cfg.chain_id = run.rpc /\ live \subseteq Chains
    BY <1>1, Zenon DEF IInv, RunOK, ChainsOK
  <2>2. st \in DeployState /\ st.intent.chain_id = run.rpc
    BY <2>1 DEF NewState, DeployState, Applied, Has
  <2>3. st.permit2 = "none" /\ st.address = None
    BY Zenon DEF NewState
  <2>4. to \in {"probe", "verify"}
    BY Zenon DEF AfterLoad
  <2>5. run' = [run EXCEPT !.st = st, !.pc = "write", !.to = to]
    BY <1>2, Zenon DEF Save
  <2> HIDE DEF st, to
  <2>6. run' = [pc |-> "write", cfg |-> run.cfg, rpc |-> run.rpc, st |-> st, to |-> to,
                tx |-> run.tx]
    BY <2>5, Zenon DEF IInv, RunOK
  <2>7. SaveOK'
    BY <1>1, <1>2, <2>3, <2>4, <2>6, Zenon DEF SaveOK
  <2>8. QED
    BY <1>1, <2>1, <2>2, <2>6, <2>7, Zenon DEF RunOK, Steps, chain
<1>3. ASSUME Loads,
             validate_immutability(file, run.cfg),
             run' = [run EXCEPT !.st = file, !.pc = AfterLoad(file)]
      PROVE  RunOK'
  <2>1. file \in DeployState /\ file.intent.chain_id = run.rpc
    BY <1>1, <1>3, Zenon DEF IInv, FileOK, RunOK, Loads, validate_immutability
  <2>2. \/ AfterLoad(file) = "probe" /\ file.permit2 = "none"
        \/ AfterLoad(file) = "verify"
    BY Zenon DEF AfterLoad, Pending
  <2>3. run' = [pc |-> AfterLoad(file), cfg |-> run.cfg, rpc |-> run.rpc, st |-> file,
                to |-> run.to, tx |-> run.tx]
    BY <1>3, Zenon DEF IInv, RunOK
  <2>4. run.rpc \in live /\ run.cfg.chain_id = run.rpc /\ UNCHANGED <<live, file>>
    BY <1>1, Zenon DEF IInv, RunOK, chain
  <2>5. QED
    BY <2>1, <2>2, <2>3, <2>4, Zenon DEF RunOK, Steps
<1>4. Bail => RunOK'
  BY IdleRun, Zenon DEF Bail
<1>5. RunOK'
  BY <1>2, <1>3, <1>4, Zenon DEF LoadOrCreate
<1>6. QED
  BY <1>1, <1>5, FrameOfRun, Zenon

(* The temporary file of a complete write is the run's state.              *)
LEMMA WritePreserves ==
  ASSUME IInv, SaveWrite
  PROVE  IInv'
<1>1. UNCHANGED <<config, chain, file, manifest>> /\ run.pc = "write" /\ tmp' = run.st
  BY Zenon DEF SaveWrite, operator
<1>2. run' = [pc |-> "rename", cfg |-> run.cfg, rpc |-> run.rpc, st |-> run.st,
              to |-> run.to, tx |-> run.tx]
  BY Zenon DEF SaveWrite, Goto, IInv, RunOK
<1>3. SaveOK'
  BY <1>1, <1>2, Zenon DEF IInv, RunOK, SaveOK, There, Genuine, At, chain
<1>4. RunOK'
  BY <1>1, <1>2, <1>3, Zenon DEF IInv, RunOK, Steps, chain
<1>5. QED
  BY <1>1, <1>4, FrameOfRun, Zenon

(* Saving a deployed state is justified by what the run has seen.          *)
LEMMA SaveDeployed ==
  ASSUME IInv, UNCHANGED <<config, chain, file, manifest>>,
         run.pc \in {"probe", "receipt"},
         Genuine(run.rpc) => There(run.rpc, run.st.salt),
         Save(Deployed(run.st), "verify")
  PROVE  IInv'
<1> DEFINE st == Deployed(file)
<1>1. /\ run.st = file /\ file \in DeployState /\ file.permit2 = "none"
      /\ file.intent.chain_id = run.rpc /\ file # None
      /\ run.rpc \in live /\ run.cfg.chain_id = run.rpc
  BY FileAssumption, Zenon DEF IInv, RunOK
<1>2. st \in DeployState /\ st.intent.chain_id = run.rpc
  BY <1>1, Create2Addresses, Zenon DEF Deployed, DeployState
<1>3. run' = [pc |-> "write", cfg |-> run.cfg, rpc |-> run.rpc, st |-> st,
              to |-> "verify", tx |-> run.tx]
  BY <1>1, Zenon DEF Save, IInv, RunOK
<1>4. SaveOK'
  BY <1>1, <1>3, Zenon DEF SaveOK, There, Genuine, At, chain
<1> HIDE DEF st
<1>5. RunOK'
  BY <1>1, <1>2, <1>3, <1>4, Zenon DEF RunOK, Steps, chain
<1>6. QED
  BY <1>5, FrameOfRun, Zenon

(* The idempotency check: code that is there is the contract.              *)
LEMMA ProbePreserves ==
  ASSUME IInv, Probe
  PROVE  IInv'
<1>1. UNCHANGED <<config, chain, file, manifest>> /\ run.pc = "probe"
  BY Zenon DEF Probe, operator, disk
<1>2. CASE Goto("send")
  <2>1. run' = [pc |-> "send", cfg |-> run.cfg, rpc |-> run.rpc, st |-> run.st,
                to |-> run.to, tx |-> run.tx]
    BY <1>2, Zenon DEF Goto, IInv, RunOK
  <2>2. RunOK'
    BY <1>1, <2>1, Zenon DEF IInv, RunOK, Steps, chain
  <2>3. QED
    BY <1>1, <2>2, FrameOfRun, Zenon
<1>3. CASE /\ code[run.rpc][Target] = expected_runtime_bytecode(run.rpc, Target)
           /\ Save(Deployed(run.st), "verify")
  <2>1. There(run.rpc, run.st.salt)
    BY <1>3, Zenon DEF There, At, Target
  <2>2. QED
    BY <1>1, <1>3, <2>1, SaveDeployed, Zenon
<1>4. CASE Bail
  BY <1>1, <1>4, IdleRun, FrameOfRun, Zenon DEF Bail
<1>5. QED
  BY <1>2, <1>3, <1>4, Zenon DEF Probe

(* A receipt of success on a real factory means that the code is there.    *)
LEMMA ReceiptPreserves ==
  ASSUME IInv, GetReceipt
  PROVE  IInv'
<1>1. UNCHANGED <<config, chain, file, manifest>> /\ run.pc = "receipt"
  BY Zenon DEF GetReceipt, operator, disk
<1>2. CASE txs[run.tx].status = "success" /\ Save(Deployed(run.st), "verify")
  <2>1. run.tx \in 1 .. Len(txs) /\ run.st = file /\ run.st.intent.chain_id = run.rpc
    BY <1>1, Zenon DEF IInv, RunOK
  <2>2. Genuine(run.rpc) => There(run.rpc, run.st.salt)
    BY <1>2, <2>1, Zenon DEF IInv, TxsOK
  <2>3. QED
    BY <1>1, <1>2, <2>2, SaveDeployed, Zenon
<1>3. CASE Bail
  BY <1>1, <1>3, IdleRun, FrameOfRun, Zenon DEF Bail
<1>4. QED
  BY <1>2, <1>3, Zenon DEF GetReceipt

(* verify_all writes "verified" only beside the code.                      *)
LEMMA VerifyPreserves ==
  ASSUME IInv, VerifyAll
  PROVE  IInv'
<1>1. UNCHANGED <<config, chain, file, manifest>> /\ run.pc = "verify"
  BY Zenon DEF VerifyAll, operator, disk
<1>2. /\ run.st = file /\ file \in DeployState /\ file # None
      /\ file.intent.chain_id = run.rpc /\ run.rpc \in live /\ run.cfg.chain_id = run.rpc
  BY <1>1, FileAssumption, Zenon DEF IInv, RunOK
<1>3. ASSUME NEW st \in DeployState, st.intent.chain_id = run.rpc, Save(st, "output"),
             \/ st = file /\ st.permit2 # "deployed"
             \/ /\ file.permit2 = "deployed"
                /\ st = [file EXCEPT !.permit2 = "verified"]
                /\ There(run.rpc, file.salt)
      PROVE  IInv'
  <2>1. run' = [pc |-> "write", cfg |-> run.cfg, rpc |-> run.rpc, st |-> st,
                to |-> "output", tx |-> run.tx]
    BY <1>3, Zenon DEF Save, IInv, RunOK
  <2>2. SaveOK'
    BY <1>1, <1>2, <1>3, <2>1, Zenon DEF SaveOK, There, At, chain
  <2>3. RunOK'
    BY <1>1, <1>2, <1>3, <2>1, <2>2, Zenon DEF RunOK, Steps, chain
  <2>4. QED
    BY <1>1, <2>3, FrameOfRun, Zenon
<1>4. CASE run.st.permit2 # "deployed" /\ Save(run.st, "output")
  BY <1>2, <1>3, <1>4, Zenon
<1>5. CASE /\ run.st.permit2 = "deployed"
           /\ code[run.rpc][run.st.address] = expected_runtime_bytecode(run.rpc, run.st.address)
           /\ Save([run.st EXCEPT !.permit2 = "verified"], "output")
  <2> DEFINE st == [file EXCEPT !.permit2 = "verified"]
  <2>1. file.address = compute_address(file.salt)
    BY <1>2, <1>5, Zenon DEF IInv, FileOK
  <2>2. There(run.rpc, file.salt)
    BY <1>2, <1>5, <2>1, Zenon DEF There, At
  <2>3. st \in DeployState /\ st.intent.chain_id = run.rpc
    BY <1>2, Zenon DEF DeployState
  <2>4. Save(st, "output")
    BY <1>2, <1>5, Zenon
  <2>5. file.permit2 = "deployed" /\ st = [file EXCEPT !.permit2 = "verified"]
    BY <1>2, <1>5, Zenon
  <2> HIDE DEF st
  <2>6. QED
    BY <1>3, <2>2, <2>3, <2>4, <2>5, Zenon
<1>6. CASE Bail
  BY <1>1, <1>6, IdleRun, FrameOfRun, Zenon DEF Bail
<1>7. QED
  BY <1>4, <1>5, <1>6, Zenon DEF VerifyAll

(* The manifest has the address of a state that is verified, or nothing.   *)
LEMMA OutputPreserves ==
  ASSUME IInv, Output
  PROVE  IInv'
<1>1. UNCHANGED <<config, chain, file>> /\ run.pc = "output" /\ run' = Idle
  BY Zenon DEF Output, operator, disk
<1>2. run.st = file /\ file \in DeployState /\ file # None /\ file.permit2 # "deployed"
  BY <1>1, FileAssumption, Zenon DEF IInv, RunOK
<1>3. file.permit2 \in {"none", "verified"}
  BY <1>2, Zenon DEF DeployState
<1>4. ManifestOK'
  BY <1>1, <1>2, <1>3, Zenon DEF Output, build_deploy_manifest, IInv, FileOK, ManifestOK
<1>5. RunOK'
  BY <1>1, IdleRun, Zenon
<1>6. ChainsOK' /\ FileOK'
  BY <1>1, Zenon DEF IInv, ChainsOK, FileOK, chain
<1>7. TxsOK' /\ CodeOK' /\ RecordOK'
  BY <1>1, Zenon DEF IInv, TxsOK, CodeOK, RecordOK, At, There, Genuine, chain
<1>8. QED
  BY <1>4, <1>5, <1>6, <1>7, Zenon DEF IInv

(* A rename changes the salt and the chain of the file only where there    *)
(* was none, and then no transaction and no code depends on it.            *)
LEMMA RenamePreserves ==
  ASSUME IInv, SaveRename
  PROVE  IInv'
<1>1. /\ UNCHANGED <<config, chain, manifest>> /\ run.pc = "rename"
      /\ file' = run.st /\ run.st \in DeployState /\ run.st # None
      /\ run.st.intent.chain_id = run.rpc /\ run.rpc \in live
      /\ run.cfg.chain_id = run.rpc
  BY FileAssumption, Zenon DEF SaveRename, operator, IInv, RunOK
<1>2. SaveOK
  BY <1>1, Zenon DEF IInv, RunOK
<1>3. run' = [pc |-> run.to, cfg |-> run.cfg, rpc |-> run.rpc, st |-> run.st,
              to |-> run.to, tx |-> run.tx]
  BY Zenon DEF SaveRename, Goto, IInv, RunOK
<1>4. file # None => /\ file \in DeployState
                     /\ file'.salt = file.salt /\ file'.intent = file.intent
  <2>1. file # None => file \in DeployState
    BY Zenon DEF IInv, FileOK
  <2>2. QED
    BY <1>1, <1>2, <2>1, Zenon DEF SaveOK, Deployed, DeployState
<1>5. ChainsOK'
  BY <1>1, Zenon DEF IInv, ChainsOK, chain
<1>6. FileOK'
  <2>1. file'.address = IF file'.permit2 = "none" THEN None ELSE compute_address(file'.salt)
    BY <1>1, <1>2, <1>4, Zenon DEF SaveOK, Deployed, DeployState, IInv, FileOK
  <2>2. QED
    BY <1>1, <2>1, Zenon DEF FileOK, chain
<1>7. TxsOK'
  <2>1. txs' = txs /\ code' = code /\ file' # None
    BY <1>1, Zenon DEF chain
  <2>2. QED
    BY <1>4, <2>1, Zenon DEF IInv, TxsOK, Genuine, There, At
<1>8. CodeOK'
  <2>1. code' = code /\ file' # None
    BY <1>1, Zenon DEF chain
  <2>2. QED
    BY <1>4, <2>1, Zenon DEF IInv, CodeOK, There, At
<1>9. RecordOK' /\ ManifestOK'
  <2>1. code' = code /\ manifest' = manifest
    BY <1>1, Zenon DEF chain
  <2>2. CASE file = None
    BY <1>1, <1>2, <2>1, <2>2, Zenon DEF SaveOK, IInv, RecordOK, ManifestOK
  <2>3. CASE file # None /\ file.permit2 = "none" /\ run.st = Deployed(file)
    <3>1. file'.permit2 = "deployed"
      BY <1>1, <1>4, <2>3, Zenon DEF Deployed, DeployState
    <3>2. Genuine(file.intent.chain_id) => There(file.intent.chain_id, file.salt)
      BY <1>2, <1>4, <2>3, Zenon DEF SaveOK, Deployed, DeployState
    <3>3. QED
      BY <1>4, <2>1, <2>3, <3>1, <3>2, Zenon DEF IInv, RecordOK, ManifestOK, Genuine, There, At
  <2>4. CASE /\ file # None /\ file.permit2 = "deployed"
             /\ run.st = [file EXCEPT !.permit2 = "verified"]
             /\ There(file.intent.chain_id, file.salt)
    BY <1>1, <1>4, <2>1, <2>4, Zenon DEF DeployState, IInv, RecordOK, ManifestOK, Genuine, There, At
  <2>5. CASE file # None /\ run.st = file
    BY <1>1, <1>4, <2>1, <2>5, Zenon DEF IInv, RecordOK, ManifestOK, Genuine, There, At
  <2>6. QED
    BY <1>1, <1>2, <2>2, <2>3, <2>4, <2>5, Zenon DEF SaveOK
<1>10. RunOK'
  <2>1. /\ run.to \in {"probe", "verify", "output"}
        /\ run.to = "probe" => run.st.permit2 = "none"
        /\ run.to = "output" => run.st.permit2 # "deployed"
    BY <1>1, <1>2, <1>4, Zenon DEF SaveOK, Deployed, DeployState
  <2>2. live' = live
    BY <1>1, Zenon DEF chain
  <2>3. QED
    BY <1>1, <1>3, <2>1, <2>2, Zenon DEF RunOK, Steps
<1>11. QED
  BY <1>5, <1>6, <1>7, <1>8, <1>9, <1>10, Zenon DEF IInv

(* A transaction is sent only with the salt and on the chain of the file.  *)
LEMMA SendPreserves ==
  ASSUME IInv, SendCreate2
  PROVE  IInv'
<1> DEFINE tx == [chain |-> run.rpc, salt |-> run.st.salt, status |-> "pending"]
<1>1. /\ UNCHANGED <<config, genesis, code, live, file, manifest>> /\ run.pc = "send"
      /\ txs' = Append(txs, tx)
      /\ run' = [run EXCEPT !.pc = "receipt", !.tx = Len(txs) + 1]
  BY Zenon DEF SendCreate2, operator, disk
<1>2. /\ run.st = file /\ file \in DeployState /\ file # None
      /\ file.intent.chain_id = run.rpc /\ run.rpc \in live /\ run.cfg.chain_id = run.rpc
      /\ file.permit2 = "none" /\ txs \in Seq(Tx)
  BY <1>1, FileAssumption, Zenon DEF IInv, RunOK, TxsOK
<1>3. /\ tx \in Tx /\ tx.salt = file.salt /\ tx.chain = file.intent.chain_id
      /\ tx.status = "pending"
  BY <1>2, Zenon DEF Tx, DeployState
<1> HIDE DEF tx
<1>4. /\ txs' \in Seq(Tx) /\ Len(txs') = Len(txs) + 1 /\ Len(txs) \in Nat
      /\ \A i \in 1 .. Len(txs) : txs'[i] = txs[i]
      /\ txs'[Len(txs) + 1] = tx
  BY <1>1, <1>2, <1>3
<1>5. TxsOK'
  <2> SUFFICES ASSUME NEW i \in 1 .. Len(txs')
               PROVE  /\ txs'[i].salt = file.salt
                      /\ txs'[i].chain = file.intent.chain_id
                      /\ txs'[i].status = "success" /\ Genuine(txs'[i].chain) =>
                           There(txs'[i].chain, txs'[i].salt)
    BY <1>1, <1>2, <1>4, Zenon DEF TxsOK, Genuine, There, At
  <2>1. CASE i \in 1 .. Len(txs)
    BY <1>4, <2>1, Zenon DEF IInv, TxsOK
  <2>2. CASE i = Len(txs) + 1
    BY <1>3, <1>4, <2>2, Zenon
  <2>3. QED
    BY <1>4, <2>1, <2>2
<1>6. RunOK'
  <2>1. run' = [pc |-> "receipt", cfg |-> run.cfg, rpc |-> run.rpc, st |-> run.st,
                to |-> run.to, tx |-> Len(txs) + 1]
    BY <1>1, Zenon DEF IInv, RunOK
  <2>2. Len(txs) + 1 \in 1 .. Len(txs')
    BY <1>4
  <2>3. QED
    BY <1>1, <1>2, <2>1, <2>2, Zenon DEF RunOK, Steps
<1>7. ChainsOK' /\ FileOK' /\ ManifestOK'
  BY <1>1, Zenon DEF IInv, ChainsOK, FileOK, ManifestOK
<1>8. CodeOK' /\ RecordOK'
  BY <1>1, Zenon DEF IInv, CodeOK, RecordOK, At, There, Genuine
<1>9. QED
  BY <1>5, <1>6, <1>7, <1>8, Zenon DEF IInv

(* Code that appears at the address of the file leaves the factory alone,  *)
(* and what was there stays there.                                         *)
LEMMA MinePreserves ==
  ASSUME IInv, NEW i \in 1 .. Len(txs), MineTx(i)
  PROVE  IInv'
<1> DEFINE c == file.intent.chain_id
           at == compute_address(file.salt)
<1>1. UNCHANGED <<config, rpc, genesis, live, file, tmp, run, manifest>>
  BY Zenon DEF MineTx, operator, disk
<1>2. /\ txs \in Seq(Tx) /\ txs[i] \in Tx /\ file # None /\ file \in DeployState
      /\ txs[i].salt = file.salt /\ txs[i].chain = c /\ c \in live
      /\ c \in Chains /\ file.salt \in Salts
  <2>1. txs \in Seq(Tx) /\ file # None /\ txs[i].salt = file.salt /\ txs[i].chain = c
    BY Zenon DEF IInv, TxsOK
  <2>2. txs[i] \in Tx
    BY <2>1
  <2>3. QED
    BY <2>1, <2>2, Zenon DEF IInv, FileOK, ChainsOK, DeployState
<1>3. PICK status \in {"success", "reverted"} :
        /\ txs' = [txs EXCEPT ![i].status = status]
        /\ \/ /\ Genuine(c) /\ code[c][at] = NoCode
              /\ code' = [code EXCEPT ![c][at] = expected_runtime_bytecode(c, at)]
           \/ code' = code /\ (status = "success" => ~Genuine(c))
  BY <1>2, Zenon DEF MineTx, Genuine
<1>4. /\ \A d \in Chains : Genuine(d)' <=> Genuine(d)
      /\ \A d \in Chains, s \in Salts :
           \/ At(d, s)' = At(d, s)
           \/ /\ d = c /\ s = file.salt /\ At(d, s) = NoCode
              /\ At(d, s)' = expected_runtime_bytecode(c, at)
  <2>1. CASE code' = code
    BY <2>1, Zenon DEF Genuine, At
  <2>2. CASE /\ code[c][at] = NoCode
             /\ code' = [code EXCEPT ![c][at] = expected_runtime_bytecode(c, at)]
    <3>1. /\ code = [d \in Chains |-> code[d]]
          /\ \A d \in Chains : code[d] = [a \in Address |-> code[d][a]]
      BY Zenon DEF IInv, ChainsOK
    <3>2. \A d \in Chains, a \in Address :
            code'[d][a] = IF d = c /\ a = at THEN expected_runtime_bytecode(c, at)
                          ELSE code[d][a]
      BY <1>2, <2>2, <3>1, Zenon
    <3>3. QED
      BY <1>2, <2>2, <3>2, Create2Addresses DEF Genuine, At
  <2>3. QED
    BY <1>3, <2>1, <2>2, Zenon
<1>5. \A d \in Chains, s \in Salts : There(d, s) => There(d, s)'
  BY <1>4, Zenon DEF There, NoCode, expected_runtime_bytecode
<1>6. status = "success" /\ Genuine(c) => There(c, file.salt)'
  <2>1. CASE code' = [code EXCEPT ![c][at] = expected_runtime_bytecode(c, at)]
    <3>1. /\ code = [d \in Chains |-> code[d]]
          /\ \A d \in Chains : code[d] = [a \in Address |-> code[d][a]]
      BY Zenon DEF IInv, ChainsOK
    <3>2. at \in Address
      BY <1>2, Create2Addresses, Zenon
    <3>3. code'[c][at] = expected_runtime_bytecode(c, at)
      BY <1>2, <2>1, <3>1, <3>2, Zenon
    <3>4. QED
      BY <1>1, <3>3, Zenon DEF There, At
  <2>2. QED
    BY <1>3, <2>1, Zenon
<1>7. ChainsOK'
  <2>1. /\ code' = [d \in Chains |-> code'[d]]
        /\ \A d \in Chains : code'[d] = [a \in Address |-> code'[d][a]]
    BY <1>3 DEF IInv, ChainsOK
  <2>2. QED
    BY <1>1, <2>1, Zenon DEF IInv, ChainsOK
<1>8. FileOK' /\ ManifestOK'
  BY <1>1, Zenon DEF IInv, FileOK, ManifestOK
<1>9. CodeOK'
  <2> SUFFICES ASSUME NEW d \in Chains, NEW s \in Salts
               PROVE  \/ At(d, s)' = NoCode
                      \/ /\ There(d, s)' /\ file # None /\ s = file.salt /\ d = c
    BY <1>1, Zenon DEF CodeOK
  <2>1. CASE At(d, s)' = At(d, s)
    BY <1>5, <2>1, Zenon DEF IInv, CodeOK
  <2>2. CASE d = c /\ s = file.salt /\ At(d, s)' = expected_runtime_bytecode(c, at)
    BY <1>2, <2>2, Zenon DEF There, At
  <2>3. QED
    BY <1>4, <2>1, <2>2, Zenon
<1>10. RecordOK'
  BY <1>1, <1>2, <1>4, <1>5, Zenon DEF IInv, RecordOK
<1>11. TxsOK'
  <2>1. /\ txs' \in Seq(Tx) /\ Len(txs') = Len(txs)
        /\ \A j \in 1 .. Len(txs) :
             /\ txs'[j].salt = txs[j].salt /\ txs'[j].chain = txs[j].chain
             /\ txs'[j].status = IF j = i THEN status ELSE txs[j].status
    BY <1>2, <1>3 DEF Tx
  <2>2. ASSUME NEW j \in 1 .. Len(txs), txs'[j].status = "success", Genuine(c)'
        PROVE  There(c, file.salt)'
    <3>1. Genuine(c)
      BY <1>1, <1>2, <1>4, <2>2, Zenon DEF Genuine
    <3>2. CASE j = i
      BY <1>6, <2>1, <2>2, <3>1, <3>2, Zenon
    <3>3. CASE j # i
      BY <1>1, <1>2, <1>5, <2>1, <2>2, <3>1, <3>3, Zenon DEF IInv, TxsOK, There, At
    <3>4. QED
      BY <3>2, <3>3, Zenon
  <2>3. QED
    BY <1>1, <1>2, <2>1, <2>2, Zenon DEF IInv, TxsOK
<1>12. RunOK'
  <2>1. Len(txs') = Len(txs)
    BY <1>2, <1>3
  <2>2. SaveOK => SaveOK'
    BY <1>1, <1>2, <1>4, <1>5, Zenon DEF SaveOK
  <2>3. QED
    BY <1>1, <2>1, <2>2, Zenon DEF IInv, RunOK
<1>13. QED
  BY <1>7, <1>8, <1>9, <1>10, <1>11, <1>12, Zenon DEF IInv

-----------------------------------------------------------------------------
(* Merging keeps every key of a genesis file an address that files name.   *)
LEMMA MergedKeys ==
  ASSUME NEW cfg, NEW alloc,
         \A k \in DOMAIN alloc : k[1] \in Accounts,
         \A n \in DOMAIN cfg.contracts : cfg.contracts[n].address \in Accounts
  PROVE  \A k \in DOMAIN Merged(cfg, alloc) : k[1] \in Accounts
<1>1. \A a \in DOMAIN build_alloc(cfg) : a \in Accounts
  BY Zenon DEF build_alloc
<1>2. \A k \in DOMAIN Merged(cfg, alloc) :
        k \in DOMAIN alloc \/ \E a \in DOMAIN build_alloc(cfg) : k = <<a, "canonical">>
  BY Zenon DEF Merged
<1>3. QED
  BY <1>1, <1>2

(* A config that passes validate_for_genesis has an address everywhere.    *)
LEMMA PlacedConfig ==
  ASSUME ChainsOK, validate_for_genesis(config)
  PROVE  \A n \in DOMAIN config.contracts : config.contracts[n].address \in Accounts
BY Zenon DEF ChainsOK, validate_for_genesis, Placed

(* A chain starts without code at any CREATE2 address.                     *)
LEMMA LoadedCode ==
  ASSUME NEW alloc, \A k \in DOMAIN alloc : k[1] \in Accounts
  PROVE  /\ Loaded(alloc) = [a \in Address |-> Loaded(alloc)[a]]
         /\ \A s \in Salts : Loaded(alloc)[compute_address(s)] = NoCode
<1>1. \A s \in Salts : Spellings(alloc, compute_address(s)) = {}
  BY Create2Addresses, Zenon DEF Spellings
<1>2. QED
  BY <1>1, Create2Addresses DEF Loaded

(* The operator changes its config and its endpoint only.                  *)
LEMMA OperatorPreserves ==
  ASSUME IInv, Edit \/ \E flags \in Templates : InitCommand(flags)
  PROVE  IInv'
<1>1. UNCHANGED <<chain, file, tmp, run, manifest>>
  BY Zenon DEF Edit, InitCommand, disk
<1>2. \A n \in DOMAIN config'.contracts : config'.contracts[n].address \in Accounts \cup {None}
  <2>1. CASE Edit
    BY <2>1, InputAssumption, Zenon DEF Edit
  <2>2. ASSUME NEW flags \in Templates, InitCommand(flags)
        PROVE  \A n \in DOMAIN config'.contracts : config'.contracts[n].address \in Accounts
    <3>1. config' = generate_template(rpc, flags.names, flags.owner)
      BY <2>2, Zenon DEF InitCommand
    <3>2. QED
      BY <3>1, AddressAssumption, Zenon DEF generate_template
  <2>3. QED
    BY <2>1, <2>2, Zenon
<1>3. ChainsOK'
  BY <1>1, <1>2, Zenon DEF IInv, ChainsOK, chain
<1>4. FileOK' /\ TxsOK' /\ CodeOK' /\ RecordOK' /\ ManifestOK'
  BY <1>1, Zenon DEF IInv, FileOK, TxsOK, CodeOK, RecordOK, ManifestOK, At, There, Genuine, chain
<1>5. RunOK'
  BY <1>1, Zenon DEF IInv, RunOK, SaveOK, There, Genuine, At, chain
<1>6. QED
  BY <1>3, <1>4, <1>5, Zenon DEF IInv

(* `genesis` changes the file of a chain that has not started.             *)
LEMMA GenesisPreserves ==
  ASSUME IInv, NEW c \in Chains, NEW force \in BOOLEAN, GenesisCommand(c, force)
  PROVE  IInv'
<1>1. UNCHANGED <<config, code, live, txs, file, tmp, run, manifest>>
  BY Zenon DEF GenesisCommand, operator, disk
<1>2. \A k \in DOMAIN Merged(config, genesis[c]) : k[1] \in Accounts
  BY PlacedConfig, MergedKeys, Zenon DEF GenesisCommand, IInv, ChainsOK
<1>3. genesis' = [genesis EXCEPT ![c] = Merged(config, genesis[c])]
  BY Zenon DEF GenesisCommand
<1>4. ChainsOK'
  <2> DEFINE new == Merged(config, genesis[c])
  <2> HIDE DEF new
  <2>1. genesis' = [genesis EXCEPT ![c] = new] /\ \A k \in DOMAIN new : k[1] \in Accounts
    BY <1>2, <1>3, Zenon DEF new
  <2>2. QED
    BY <1>1, <2>1, Zenon DEF IInv, ChainsOK
<1>5. FileOK' /\ TxsOK' /\ CodeOK' /\ RecordOK' /\ ManifestOK'
  BY <1>1, Zenon DEF IInv, FileOK, TxsOK, CodeOK, RecordOK, ManifestOK, At, There, Genuine
<1>6. RunOK'
  BY <1>1, Zenon DEF IInv, RunOK, SaveOK, There, Genuine, At
<1>7. QED
  BY <1>4, <1>5, <1>6, Zenon DEF IInv

(* The start of a chain is the start of one no file, transaction or run    *)
(* depends on.                                                             *)
LEMMA ChainStarts ==
  ASSUME IInv, NEW c \in Chains, c \notin live, live' = live \cup {c},
         NEW alloc, \A k \in DOMAIN alloc : k[1] \in Accounts,
         genesis' = [genesis EXCEPT ![c] = alloc],
         code' = [code EXCEPT ![c] = Loaded(alloc)],
         UNCHANGED <<config, txs, file, tmp, run, manifest>>
  PROVE  IInv'
<1> DEFINE new == Loaded(alloc)
<1>1. new = [a \in Address |-> new[a]] /\ \A s \in Salts : new[compute_address(s)] = NoCode
  BY LoadedCode, Zenon
<1>2. code' = [code EXCEPT ![c] = new]
  BY Zenon
<1> HIDE DEF new
<1>3. ChainsOK'
  BY <1>1, <1>2, Zenon DEF IInv, ChainsOK
<1>4. /\ \A d \in Chains \ {c} : code'[d] = code[d]
      /\ \A s \in Salts : At(c, s)' = NoCode
  <2>1. code'[c] = new /\ \A d \in Chains \ {c} : code'[d] = code[d]
    BY <1>2, Zenon DEF IInv, ChainsOK
  <2>2. QED
    BY <1>1, <2>1, Zenon DEF At
<1>5. \A d \in Chains \ {c} :
        /\ Genuine(d)' <=> Genuine(d)
        /\ \A s \in Salts : At(d, s)' = At(d, s) /\ (There(d, s)' <=> There(d, s))
  BY <1>4, Zenon DEF Genuine, There, At
<1>6. file # None => /\ file \in DeployState /\ file.salt \in Salts
                     /\ file.intent.chain_id \in Chains \ {c}
  BY Zenon DEF IInv, FileOK, ChainsOK, DeployState
<1>7. FileOK' /\ ManifestOK'
  BY Zenon DEF IInv, FileOK, ManifestOK
<1>8. TxsOK'
  BY <1>5, <1>6, Zenon DEF IInv, TxsOK
<1>9. CodeOK'
  BY <1>4, <1>5, Zenon DEF IInv, CodeOK
<1>10. RecordOK'
  BY <1>5, <1>6, Zenon DEF IInv, RecordOK
<1>11. RunOK'
  <2>1. SaveOK => SaveOK'
    BY <1>5, <1>6, Zenon DEF SaveOK
  <2>2. QED
    BY <2>1, Zenon DEF IInv, RunOK
<1>12. QED
  BY <1>3, <1>7, <1>8, <1>9, <1>10, <1>11, Zenon DEF IInv

(* A chain starts from its genesis file, a devnet from the merged one.     *)
LEMMA StartsPreserve ==
  ASSUME IInv, (\E c \in Chains : StartChain(c)) \/ StartDev
  PROVE  IInv'
<1>1. ASSUME NEW c \in Chains, StartChain(c)
      PROVE  IInv'
  <2>1. /\ \A k \in DOMAIN genesis[c] : k[1] \in Accounts
        /\ genesis' = [genesis EXCEPT ![c] = genesis[c]]
    BY <1>1, Zenon DEF StartChain, IInv, ChainsOK
  <2>2. QED
    BY <1>1, <2>1, ChainStarts, Zenon DEF StartChain, operator, disk
<1>2. CASE StartDev
  <2> DEFINE cfg == [config EXCEPT !.chain_id = DevChain]
             merged == Merged(cfg, genesis[DevChain])
  <2>1. \A n \in DOMAIN config.contracts : config.contracts[n].address \in Accounts
    BY <1>2, PlacedConfig, Zenon DEF StartDev, IInv
  <2>2. cfg.contracts = config.contracts
    OBVIOUS
  <2>3. DevChain \in Chains /\ \A k \in DOMAIN genesis[DevChain] : k[1] \in Accounts
    BY InputAssumption, Zenon DEF IInv, ChainsOK
  <2>4. /\ DevChain \notin live /\ live' = live \cup {DevChain}
        /\ genesis' = [genesis EXCEPT ![DevChain] = merged]
        /\ code' = [code EXCEPT ![DevChain] = Loaded(merged)]
        /\ UNCHANGED <<config, txs, file, tmp, run, manifest>>
    BY <1>2, Zenon DEF StartDev, operator, disk
  <2> HIDE DEF cfg
  <2>5. \A k \in DOMAIN merged : k[1] \in Accounts
    BY <2>1, <2>2, <2>3, MergedKeys, Zenon
  <2> HIDE DEF merged
  <2>6. QED
    BY <2>3, <2>4, <2>5, ChainStarts, Zenon
<1>3. QED
  BY <1>1, <1>2, Zenon

-----------------------------------------------------------------------------
(* Every step of the system preserves IInv.                                *)
LEMMA NextIInv ==
  IInv /\ [Next]_vars => IInv'
<1> SUFFICES ASSUME IInv, [Next]_vars PROVE IInv'
  BY Zenon
<1>1. CASE UNCHANGED vars
  <2>1. RunOK'
    BY <1>1 DEF IInv, RunOK, SaveOK, There, Genuine, At, vars
  <2>2. QED
    BY <1>1, <2>1, FrameOfRun, Zenon DEF vars, chain
<1>2. CASE Deploy \/ Abort
  BY <1>2, ChecksPreserve, LoadPreserves, WritePreserves, RenamePreserves, ProbePreserves,
     SendPreserves, ReceiptPreserves, VerifyPreserves, OutputPreserves, Zenon DEF Deploy
<1>3. QED
  BY <1>1, <1>2, OperatorPreserves, GenesisPreserves, StartsPreserve, MinePreserves, Zenon DEF Next

(* Invariance of IInv, without any use of fairness.                        *)
THEOREM Invariance ==
  Spec => []IInv
BY InitIInv, NextIInv, PTL DEF Spec

(* create2 transactions carry the salt and chain of the state file, for    *)
(* any chains, salts and configs and any number of crashes.                *)
THEOREM OneDeploymentHolds ==
  Spec => []OneDeployment
<1>1. IInv => OneDeployment
  BY LoadsIffPresent, Zenon DEF IInv, TxsOK, OneDeployment
<1>2. QED
  BY <1>1, Invariance, PTL

(* What the state file and the manifest record is true on the chain.       *)
THEOREM RecordsHold ==
  Spec => []RecordsAreTrue
<1>1. IInv => RecordsAreTrue
  BY LoadsIffPresent, Zenon DEF IInv, RecordOK, ManifestOK, RecordsAreTrue, There, Genuine, At
<1>2. QED
  BY <1>1, Invariance, PTL

-----------------------------------------------------------------------------
(* Merging.  In a file that spells every address once, the key that goes   *)
(* for a configured address is the only one it has.                        *)
Places(cfg) == {cfg.contracts[n].address : n \in DOMAIN cfg.contracts}

(* What merge_alloc leaves: the keys of other addresses and the canonical  *)
(* ones.                                                                   *)
LEMMA MergedAlloc ==
  ASSUME NEW cfg, NEW alloc, SpelledOnce(alloc)
  PROVE  LET merged == Merged(cfg, alloc)
         IN /\ DOMAIN merged = {k \in DOMAIN alloc : k[1] \notin Places(cfg)}
                                \cup {<<a, "canonical">> : a \in Places(cfg)}
            /\ \A k \in DOMAIN alloc : k[1] \notin Places(cfg) => merged[k] = alloc[k]
<1> DEFINE new == build_alloc(cfg)
           gone == {CHOOSE k \in Spellings(alloc, a) : TRUE :
                      a \in {b \in DOMAIN new : Spellings(alloc, b) # {}}}
           fresh == {<<a, "canonical">> : a \in DOMAIN new}
<1>1. DOMAIN new = Places(cfg)
  BY Zenon DEF build_alloc, Places
<1> HIDE DEF new
<1>2. Merged(cfg, alloc) =
        [k \in (DOMAIN alloc \ gone) \cup fresh |-> IF k \in fresh THEN new[k[1]] ELSE alloc[k]]
  BY Zenon DEF Merged, new
<1>3. ASSUME NEW k \in DOMAIN alloc PROVE k \in gone <=> k[1] \in Places(cfg)
  <2>1. ASSUME k \in gone PROVE k[1] \in Places(cfg)
    <3>1. PICK a \in DOMAIN new : /\ Spellings(alloc, a) # {}
                                  /\ k = CHOOSE j \in Spellings(alloc, a) : TRUE
      BY <2>1, Zenon
    <3>2. k \in Spellings(alloc, a)
      BY <3>1, Zenon
    <3>3. QED
      BY <1>1, <3>2, Zenon DEF Spellings
  <2>2. ASSUME k[1] \in Places(cfg) PROVE k \in gone
    <3>1. k \in Spellings(alloc, k[1]) /\ k[1] \in DOMAIN new
      BY <1>1, <2>2, Zenon DEF Spellings
    <3>2. \A j \in Spellings(alloc, k[1]) : j = k
      BY Zenon DEF SpelledOnce, Spellings
    <3>3. k = CHOOSE j \in Spellings(alloc, k[1]) : TRUE
      BY <3>1, <3>2, Zenon
    <3>4. QED
      BY <3>1, <3>3, Zenon
  <2>3. QED
    BY <2>1, <2>2, Zenon
<1>4. \A k \in fresh : k[1] \in Places(cfg)
  BY <1>1
<1>5. fresh = {<<a, "canonical">> : a \in Places(cfg)}
  BY <1>1, Zenon
<1> HIDE DEF gone, fresh
<1>6. DOMAIN Merged(cfg, alloc) = (DOMAIN alloc \ gone) \cup fresh
  BY <1>2, Zenon
<1>7. \A k \in DOMAIN alloc : k[1] \notin Places(cfg) => Merged(cfg, alloc)[k] = alloc[k]
  BY <1>2, <1>3, <1>4, Zenon
<1>8. QED
  BY <1>3, <1>5, <1>6, <1>7, Zenon

(* The canonical entries are the contracts of a config.                    *)
Written(new, cfg) ==
  \A n \in DOMAIN cfg.contracts :
    new[<<cfg.contracts[n].address, "canonical">>] = Built(cfg, n)

(* merge_alloc writes the contract of every address that only one of them  *)
(* has.                                                                    *)
LEMMA MergedWritten ==
  ASSUME NEW cfg, NEW alloc,
         \A m, n \in DOMAIN cfg.contracts :
           cfg.contracts[m].address = cfg.contracts[n].address => m = n
  PROVE  Written(Merged(cfg, alloc), cfg)
<1> SUFFICES ASSUME NEW n \in DOMAIN cfg.contracts
             PROVE  Merged(cfg, alloc)[<<cfg.contracts[n].address, "canonical">>] = Built(cfg, n)
  BY Zenon DEF Written
<1> DEFINE new == build_alloc(cfg)
           a == cfg.contracts[n].address
           gone == {CHOOSE k \in Spellings(alloc, b) : TRUE :
                      b \in {d \in DOMAIN new : Spellings(alloc, d) # {}}}
           fresh == {<<b, "canonical">> : b \in DOMAIN new}
<1>1. n = CHOOSE m \in DOMAIN cfg.contracts : cfg.contracts[m].address = a
  BY Zenon
<1>2. a \in DOMAIN new /\ new[a] = Built(cfg, CHOOSE m \in DOMAIN cfg.contracts :
                                                 cfg.contracts[m].address = a)
  BY Zenon DEF build_alloc
<1> HIDE DEF new, a
<1>3. Merged(cfg, alloc) =
        [k \in (DOMAIN alloc \ gone) \cup fresh |-> IF k \in fresh THEN new[k[1]] ELSE alloc[k]]
  BY Zenon DEF Merged, new
<1>4. <<a, "canonical">> \in fresh
  BY <1>2, Zenon
<1>5. <<a, "canonical">>[1] = a
  OBVIOUS
<1> HIDE DEF gone, fresh
<1>6. Merged(cfg, alloc)[<<a, "canonical">>] = new[a]
  BY <1>3, <1>4, <1>5, Zenon
<1>7. QED
  BY <1>1, <1>2, <1>6, Zenon DEF a

(* What MergeKeepsAccounts says of one chain besides.                      *)
Kept(old, new, placed) ==
  /\ SpelledOnce(new)
  /\ \A k \in DOMAIN old : k[1] \notin placed => k \in DOMAIN new /\ new[k] = old[k]
  /\ {k[1] : k \in DOMAIN new} = {k[1] : k \in DOMAIN old} \cup placed

(* merge_alloc keeps what it must, for any config and file.                *)
LEMMA MergedKept ==
  ASSUME NEW cfg, NEW alloc, SpelledOnce(alloc)
  PROVE  Kept(alloc, Merged(cfg, alloc), Places(cfg))
<1> DEFINE merged == Merged(cfg, alloc)
           placed == Places(cfg)
<1>1. /\ DOMAIN merged = {k \in DOMAIN alloc : k[1] \notin placed}
                          \cup {<<a, "canonical">> : a \in placed}
      /\ \A k \in DOMAIN alloc : k[1] \notin placed => merged[k] = alloc[k]
  BY MergedAlloc, Zenon
<1> HIDE DEF merged, placed
<1>2. ASSUME NEW j \in DOMAIN merged, NEW k \in DOMAIN merged, j[1] = k[1] PROVE j = k
  <2>1. CASE j[1] \in placed
    <3>1. j = <<j[1], "canonical">> /\ k = <<k[1], "canonical">>
      BY <1>1, <1>2, <2>1
    <3>2. QED
      BY <1>2, <3>1, Zenon
  <2>2. CASE j[1] \notin placed
    <3>1. j \in DOMAIN alloc /\ k \in DOMAIN alloc
      BY <1>1, <1>2, <2>2
    <3>2. QED
      BY <1>2, <3>1, Zenon DEF SpelledOnce
  <2>3. QED
    BY <2>1, <2>2, Zenon
<1>3. {k[1] : k \in DOMAIN merged} = {k[1] : k \in DOMAIN alloc} \cup placed
  <2>1. ASSUME NEW k \in DOMAIN merged PROVE k[1] \in {j[1] : j \in DOMAIN alloc} \cup placed
    BY <1>1
  <2>2. ASSUME NEW k \in DOMAIN alloc PROVE k[1] \in {j[1] : j \in DOMAIN merged}
    <3>1. CASE k[1] \in placed
      <4>1. <<k[1], "canonical">> \in DOMAIN merged
        BY <1>1, <3>1, Zenon
      <4>2. QED
        BY <4>1
    <3>2. CASE k[1] \notin placed
      BY <1>1, <3>2, Zenon
    <3>3. QED
      BY <3>1, <3>2, Zenon
  <2>3. ASSUME NEW a \in placed PROVE a \in {j[1] : j \in DOMAIN merged}
    <3>1. <<a, "canonical">> \in DOMAIN merged
      BY <1>1, Zenon
    <3>2. QED
      BY <3>1
  <2>4. QED
    BY <2>1, <2>2, <2>3, Zenon
<1>4. QED
  BY <1>1, <1>2, <1>3, Zenon DEF Kept, SpelledOnce, merged, placed

(* Whatever the spelling of an entry that `genesis` or ev-dev replaces,    *)
(* the address has one entry, the contract of the config, and every other  *)
(* account its own, for any configs and genesis files.                     *)
THEOREM MergesKeepAccounts ==
  Spec => MergeKeepsAccounts
<1>1. ASSUME IInv, [Next]_vars, NEW c \in Chains, genesis'[c] # genesis[c], SpelledOnce(genesis[c])
      PROVE  LET cfg == IF c \in live' THEN [config EXCEPT !.chain_id = DevChain] ELSE config
             IN /\ Kept(genesis[c], genesis'[c], Places(config))
                /\ Written(genesis'[c], cfg) /\ cfg.contracts = config.contracts
  <2>1. ASSUME NEW d \in Chains, NEW cfg, cfg.contracts = config.contracts,
               validate(config), validate_for_genesis(config),
               genesis' = [genesis EXCEPT ![d] = Merged(cfg, genesis[d])]
        PROVE  /\ c = d /\ Kept(genesis[c], genesis'[c], Places(config))
               /\ Written(genesis'[c], cfg)
    <3>1. c = d /\ genesis'[c] = Merged(cfg, genesis[c])
      BY <1>1, <2>1, Zenon DEF IInv, ChainsOK
    <3>2. Kept(genesis[c], Merged(cfg, genesis[c]), Places(cfg)) /\ Places(cfg) = Places(config)
      BY <1>1, <2>1, MergedKept, Zenon DEF Places
    <3>3. \A m, n \in DOMAIN cfg.contracts :
            cfg.contracts[m].address = cfg.contracts[n].address => m = n
      BY <2>1, Zenon DEF validate, validate_for_genesis
    <3>4. Written(Merged(cfg, genesis[c]), cfg)
      BY <3>3, MergedWritten, Zenon
    <3>5. QED
      BY <3>1, <3>2, <3>4, Zenon
  <2>2. ASSUME NEW d \in Chains, NEW force \in BOOLEAN, GenesisCommand(d, force)
        PROVE  /\ Kept(genesis[c], genesis'[c], Places(config))
               /\ Written(genesis'[c], config) /\ c \notin live'
    BY <2>1, <2>2, Zenon DEF GenesisCommand
  <2>3. ASSUME StartDev
        PROVE  /\ Kept(genesis[c], genesis'[c], Places(config))
               /\ Written(genesis'[c], [config EXCEPT !.chain_id = DevChain]) /\ c \in live'
    <3> DEFINE cfg == [config EXCEPT !.chain_id = DevChain]
    <3>1. cfg.contracts = config.contracts
      OBVIOUS
    <3>2. /\ genesis' = [genesis EXCEPT ![DevChain] = Merged(cfg, genesis[DevChain])]
          /\ validate(config) /\ validate_for_genesis(config) /\ DevChain \in live'
      BY <2>3, Zenon DEF StartDev
    <3> HIDE DEF cfg
    <3>3. c = DevChain /\ Kept(genesis[c], genesis'[c], Places(config)) /\ Written(genesis'[c], cfg)
      BY <2>1, <3>1, <3>2, InputAssumption, Zenon
    <3>4. QED
      BY <3>2, <3>3, Zenon DEF cfg
  <2>4. [config EXCEPT !.chain_id = DevChain].contracts = config.contracts
    OBVIOUS
  <2>5. CASE UNCHANGED genesis
    BY <1>1, <2>5, Zenon
  <2>6. CASE StartDev
    BY <2>3, <2>4, <2>6, Zenon
  <2>7. CASE \E d \in Chains, force \in BOOLEAN : GenesisCommand(d, force)
    BY <2>2, <2>7, Zenon
  <2>8. QED
    <3>1. CASE Deploy \/ Abort
      BY <2>5, <3>1, Zenon DEF Deploy, Abort, DeployCommand, CheckChainId, CheckFactory, LoadOrCreate,
         SaveWrite, SaveRename, Probe, SendCreate2, GetReceipt, VerifyAll, Output, chain
    <3>2. CASE Edit \/ \E flags \in Templates : InitCommand(flags)
      BY <2>5, <3>2, Zenon DEF Edit, InitCommand, chain
    <3>3. CASE \/ \E d \in Chains : StartChain(d)
               \/ \E i \in 1 .. Len(txs) : MineTx(i)
      BY <2>5, <3>3, Zenon DEF StartChain, MineTx
    <3>4. QED
      BY <1>1, <2>5, <2>6, <2>7, <3>1, <3>2, <3>3, Zenon DEF Next, vars
<1>2. IInv /\ [Next]_vars =>
        [\A c \in Chains :
           genesis'[c] # genesis[c] /\ SpelledOnce(genesis[c]) =>
             LET cfg == IF c \in live' THEN [config EXCEPT !.chain_id = DevChain] ELSE config
                 placed == {config.contracts[n].address : n \in DOMAIN config.contracts}
             IN /\ SpelledOnce(genesis'[c])
                /\ \A n \in DOMAIN config.contracts :
                     genesis'[c][<<config.contracts[n].address, "canonical">>] = Built(cfg, n)
                /\ \A k \in DOMAIN genesis[c] :
                     k[1] \notin placed => k \in DOMAIN genesis'[c] /\ genesis'[c][k] = genesis[c][k]
                /\ {k[1] : k \in DOMAIN genesis'[c]}
                     = {k[1] : k \in DOMAIN genesis[c]} \cup placed]_vars
  BY <1>1, Zenon DEF Kept, Places, Written
<1>3. QED
  BY <1>2, Invariance, PTL DEF Spec, MergeKeepsAccounts

-----------------------------------------------------------------------------
(* The refinement.  Seen through the state file, a step of the pipeline is *)
(* a step of DeployOnce or none.                                           *)

(* Nothing is deployed at the start of either specification.               *)
LEMMA PromiseInit ==
  Init => Promise!Init
BY Zenon DEF Init, Promise!Init, Loads

(* A step that leaves the file and the chain of the file alone.            *)
LEMMA PromiseStutters ==
  ASSUME UNCHANGED file,
         Loads => UNCHANGED <<code[file.intent.chain_id][DETERMINISTIC_DEPLOYER],
                              code[file.intent.chain_id][compute_address(file.salt)]>>
  PROVE  UNCHANGED Promise!vars
<1>1. Loads' <=> Loads
  BY Zenon DEF Loads
<1>2. CASE Loads
  BY <1>1, <1>2, Zenon DEF Promise!vars
<1>3. CASE ~Loads
  BY <1>1, <1>3, Zenon DEF Promise!vars
<1>4. QED
  BY <1>2, <1>3, Zenon

(* The rename of a save is where the state file changes.                   *)
LEMMA RenameRefines ==
  ASSUME IInv, SaveRename
  PROVE  [Promise!Next]_(Promise!vars)
<1>1. IInv'
  BY RenamePreserves, Zenon
<1>2. code' = code /\ file' = run.st /\ run.st \in DeployState /\ SaveOK
  BY Zenon DEF SaveRename, chain, IInv, RunOK
<1>3. (Loads <=> file # None) /\ Loads'
  BY <1>2, LoadsIffPresent, FileAssumption, Zenon DEF IInv, Loads
<1>4. CASE file = None
  <2>1. file'.permit2 = "none" /\ file'.salt \in Salts /\ file'.intent.chain_id \in Chains
    BY <1>2, <1>4, FileAssumption, Zenon DEF SaveOK, DeployState
  <2>2. code'[file'.intent.chain_id][compute_address(file'.salt)] = NoCode
    BY <1>2, <1>4, <2>1, Zenon DEF IInv, CodeOK, At
  <2>3. Promise!Choose
    BY <1>3, <1>4, <2>1, <2>2, Zenon DEF Promise!Choose
  <2>4. QED
    BY <2>3, Zenon DEF Promise!Next
<1>5. CASE file # None
  <2>1. file \in DeployState /\ file'.salt = file.salt /\ file'.intent = file.intent
    BY <1>2, <1>5, Zenon DEF IInv, FileOK, SaveOK, Deployed, DeployState
  <2>2. There(file.intent.chain_id, file.salt) =>
          code[file.intent.chain_id][compute_address(file.salt)] # NoCode
    BY DEF There, At, NoCode, expected_runtime_bytecode
  <2>3. file.salt # None
    BY <2>1, FileAssumption, Zenon DEF DeployState
  <2>4. CASE run.st = file
    BY <1>2, <2>4, PromiseStutters, Zenon
  <2>5. CASE /\ file.permit2 = "none" /\ file'.permit2 = "deployed"
             /\ Genuine(file.intent.chain_id) => There(file.intent.chain_id, file.salt)
    <3>1. Promise!Claim
      BY <1>2, <1>3, <1>5, <2>1, <2>2, <2>3, <2>5, Zenon DEF Promise!Claim, Genuine
    <3>2. QED
      BY <3>1, Zenon DEF Promise!Next
  <2>6. CASE /\ file.permit2 = "deployed" /\ file'.permit2 = "verified"
             /\ There(file.intent.chain_id, file.salt)
    <3>1. Promise!Verify
      BY <1>2, <1>3, <1>5, <2>1, <2>2, <2>6, Zenon DEF Promise!Verify
    <3>2. QED
      BY <3>1, Zenon DEF Promise!Next
  <2>7. QED
    BY <1>2, <1>5, <2>1, <2>4, <2>5, <2>6, Zenon DEF SaveOK, Deployed, DeployState
<1>6. QED
  BY <1>4, <1>5, Zenon

(* A transaction that creates the contract is the creation.                *)
LEMMA MineRefines ==
  ASSUME IInv, NEW i \in 1 .. Len(txs), MineTx(i)
  PROVE  [Promise!Next]_(Promise!vars)
<1> DEFINE c == file.intent.chain_id
           at == compute_address(file.salt)
<1>1. /\ file' = file /\ Loads /\ Loads' /\ file \in DeployState /\ c \in Chains
      /\ txs[i].salt = file.salt /\ txs[i].chain = c
  BY LoadsIffPresent, Zenon DEF MineTx, disk, IInv, TxsOK, FileOK, ChainsOK, Loads
<1>2. CASE code' = code
  BY <1>1, <1>2, PromiseStutters, Zenon
<1>3. CASE /\ Genuine(c) /\ code[c][at] = NoCode
           /\ code' = [code EXCEPT ![c][at] = expected_runtime_bytecode(c, at)]
  <2>1. /\ code = [d \in Chains |-> code[d]]
        /\ code[c] = [a \in Address |-> code[c][a]]
    BY <1>1, Zenon DEF IInv, ChainsOK
  <2>2. file.salt \in Salts /\ file.salt # None
    BY <1>1, FileAssumption, Zenon DEF DeployState
  <2>3. at \in Address /\ DETERMINISTIC_DEPLOYER \in Address /\ at # DETERMINISTIC_DEPLOYER
    BY <2>2, Create2Addresses, Zenon
  <2>4. /\ code'[c][at] = expected_runtime_bytecode(c, at)
        /\ code'[c][DETERMINISTIC_DEPLOYER] = code[c][DETERMINISTIC_DEPLOYER]
    BY <1>1, <1>3, <2>1, <2>3, Zenon
  <2>5. code'[c][at] # NoCode
    BY <2>4 DEF NoCode, expected_runtime_bytecode
  <2>6. Promise!Create
    BY <1>1, <1>3, <2>2, <2>4, <2>5, Zenon DEF Promise!Create, Genuine
  <2>7. QED
    BY <2>6, Zenon DEF Promise!Next
<1>4. QED
  BY <1>1, <1>2, <1>3, Zenon DEF MineTx, Genuine

(* The chain of the file has started before the file was written.          *)
LEMMA StartsRefine ==
  ASSUME IInv, (\E c \in Chains : StartChain(c)) \/ StartDev
  PROVE  UNCHANGED Promise!vars
<1>1. /\ file' = file
      /\ \E c \in Chains \ live : \E new : code' = [code EXCEPT ![c] = new]
  BY InputAssumption, Zenon DEF StartChain, StartDev, disk
<1>2. Loads => file.intent.chain_id \in live /\ file.intent.chain_id \in Chains
  BY LoadsIffPresent, Zenon DEF IInv, FileOK, ChainsOK
<1>3. Loads => code'[file.intent.chain_id] = code[file.intent.chain_id]
  BY <1>1, <1>2, Zenon DEF IInv, ChainsOK
<1>4. QED
  BY <1>1, <1>3, PromiseStutters, Zenon

(* Every step is a step of DeployOnce or none.                             *)
LEMMA PromiseNext ==
  IInv /\ [Next]_vars => [Promise!Next]_(Promise!vars)
<1> SUFFICES ASSUME IInv, [Next]_vars PROVE [Promise!Next]_(Promise!vars)
  BY Zenon
<1>1. CASE UNCHANGED <<file, code>>
  BY <1>1, PromiseStutters, Zenon
<1>2. CASE SaveRename
  BY <1>2, RenameRefines, Zenon
<1>3. CASE \E i \in 1 .. Len(txs) : MineTx(i)
  BY <1>3, MineRefines, Zenon
<1>4. CASE (\E c \in Chains : StartChain(c)) \/ StartDev
  BY <1>4, StartsRefine, Zenon
<1>5. SaveRename \/ (\E i \in 1 .. Len(txs) : MineTx(i)) \/ (\E c \in Chains : StartChain(c))
        \/ StartDev \/ UNCHANGED <<file, code>>
  <2>1. CASE UNCHANGED vars
    BY <2>1, Zenon DEF vars
  <2>2. CASE Edit \/ \E flags \in Templates : InitCommand(flags)
    BY <2>2, Zenon DEF Edit, InitCommand, chain, disk
  <2>3. CASE \E c \in Chains, force \in BOOLEAN : GenesisCommand(c, force)
    BY <2>3, Zenon DEF GenesisCommand, disk
  <2>4. CASE DeployCommand \/ CheckChainId \/ CheckFactory \/ LoadOrCreate
    BY <2>4, Zenon DEF DeployCommand, CheckChainId, CheckFactory, LoadOrCreate, chain, disk
  <2>5. CASE SaveWrite \/ Probe \/ SendCreate2 \/ GetReceipt
    BY <2>5, Zenon DEF SaveWrite, Probe, SendCreate2, GetReceipt, chain, disk
  <2>6. CASE VerifyAll \/ Output \/ Abort
    BY <2>6, Zenon DEF VerifyAll, Output, Abort, chain, disk
  <2>7. QED
    BY <2>1, <2>2, <2>3, <2>4, <2>5, <2>6, Zenon DEF Next, Deploy
<1>6. QED
  BY <1>1, <1>2, <1>3, <1>4, <1>5, Zenon

(* `deploy` implements DeployOnce: seen through the state file its crashes,*)
(* retries and late transactions are one deployment.                       *)
THEOREM Refinement ==
  Spec => ImplementsDeployOnce
<1>1. ImplementsDeployOnce <=> Promise!Init /\ [][Promise!Next]_(Promise!vars)
  BY Zenon DEF ImplementsDeployOnce, Promise!Spec
<1>2. QED
  BY <1>1, PromiseInit, PromiseNext, Invariance, PTL DEF Spec

=============================================================================
