----------------------------- MODULE DeployOnce -----------------------------
(***************************************************************************)
(* What `ev-deployer deploy` promises to whoever keeps its state file      *)
(* (README of bin/ev-deployer, "State file and resumability"): the salt,   *)
(* and so the address, is chosen once; the contract is created there at    *)
(* most once; the file claims it only when it is there, and calls it       *)
(* verified only when it is there.  Crashes, retries and lost answers do   *)
(* not show.                                                               *)
(***************************************************************************)
CONSTANTS
  Salts,
  None       \* no salt chosen yet

VARIABLES
  salt,      \* the salt of the deployment
  genuine,   \* the factory of the chain is the deterministic deployer
  created,   \* the contract is on the chain, at the address of the salt
  record     \* what the file says of it

vars == <<salt, genuine, created, record>>

Init ==
  /\ salt = None
  /\ genuine = FALSE
  /\ created = FALSE
  /\ record = "none"

Choose ==
  /\ salt = None
  /\ salt' \in Salts
  /\ genuine' \in BOOLEAN
  /\ UNCHANGED <<created, record>>

Create ==
  /\ salt # None
  /\ genuine
  /\ ~created
  /\ created' = TRUE
  /\ UNCHANGED <<salt, genuine, record>>

(* Without the real factory a transaction succeeds and creates nothing.    *)
Claim ==
  /\ salt # None
  /\ record = "none"
  /\ genuine => created
  /\ record' = "deployed"
  /\ UNCHANGED <<salt, genuine, created>>

Verify ==
  /\ record = "deployed"
  /\ created
  /\ record' = "verified"
  /\ UNCHANGED <<salt, genuine, created>>

Next == Choose \/ Create \/ Claim \/ Verify

Spec == Init /\ [][Next]_vars

=============================================================================
