----------------------------- MODULE ConfigStore -----------------------------
(***************************************************************************)
(* What the configuration file promises to the processes that share it: a  *)
(* register. A save takes effect as a whole, at one moment before it says  *)
(* that it did, or not at all; a load gets what was stored when it began;  *)
(* a process that dies changes nothing.                                    *)
(***************************************************************************)
CONSTANTS
  Processes,
  Values,    \* whole configurations
  Nothing    \* no file, nothing asked for, nothing loaded

VARIABLES
  stored,   \* the configuration
  wanted,   \* what a process is about to save
  outcome,  \* how its last save ended
  loaded    \* what its load in progress is going to return

storeVars == <<stored, wanted, outcome, loaded>>

StoreInit ==
  /\ stored \in Values \union {Nothing}
  /\ wanted = [p \in Processes |-> Nothing]
  /\ outcome = [p \in Processes |-> "none"]
  /\ loaded = [p \in Processes |-> {}]

StoreBegin(p, v) ==
  /\ wanted[p] = Nothing
  /\ wanted' = [wanted EXCEPT ![p] = v]
  /\ outcome' = [outcome EXCEPT ![p] = "none"]
  /\ UNCHANGED <<stored, loaded>>

StoreCommit(p) ==
  /\ wanted[p] # Nothing
  /\ stored' = wanted[p]
  /\ wanted' = [wanted EXCEPT ![p] = Nothing]
  /\ outcome' = [outcome EXCEPT ![p] = "saved"]
  /\ UNCHANGED loaded

StoreAbort(p) ==
  /\ wanted[p] # Nothing
  /\ wanted' = [wanted EXCEPT ![p] = Nothing]
  /\ outcome' = [outcome EXCEPT ![p] = "failed"]
  /\ UNCHANGED <<stored, loaded>>

StoreLoad(p) ==
  /\ loaded' = [loaded EXCEPT ![p] = {stored}]
  /\ UNCHANGED <<stored, wanted, outcome>>

StoreReturn(p) ==
  /\ loaded' = [loaded EXCEPT ![p] = {}]
  /\ UNCHANGED <<stored, wanted, outcome>>

StoreDie(p) ==
  /\ wanted' = [wanted EXCEPT ![p] = Nothing]
  /\ outcome' = [outcome EXCEPT ![p] = "none"]
  /\ loaded' = [loaded EXCEPT ![p] = {}]
  /\ UNCHANGED stored

StoreNext ==
  \E p \in Processes :
    \/ \E v \in Values : StoreBegin(p, v)
    \/ StoreCommit(p) \/ StoreAbort(p)
    \/ StoreLoad(p) \/ StoreReturn(p) \/ StoreDie(p)

StoreSpec == StoreInit /\ [][StoreNext]_storeVars
=============================================================================
