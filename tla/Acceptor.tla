------------------------------ MODULE Acceptor ------------------------------
(***************************************************************************)
(* The block Acceptor of the node (src/node/src/chain/acceptor.rs): block  *)
(* acceptance with rolling finality, the revert to the last finalized      *)
(* state, crash and restart (init_consensus).                              *)
(*                                                                         *)
(* Data is abstracted to what finality tells apart.  A block is named by   *)
(* the path of fork choices from genesis, so its height is the path's      *)
(* length and its parent is the path without its last element.  The VM is *)
(* deterministic, so the state root (state_hash) a block commits to is     *)
(* named by the block itself: the VM "is at state b" when its current      *)
(* commit is the one obtained by accepting the chain ending in b.          *)
(* Transactions, mempool, candidates, provisioners and the consensus task  *)
(* are not represented here.                                               *)
(***************************************************************************)
EXTENDS Naturals, Sequences, FiniteSets

CONSTANTS
  Forks,      \* the different blocks that can be proposed on the same parent
  MaxHeight,  \* bound on the height of the chain explored
  Threshold,  \* CONSENSUS_ROLLING_FINALITY_THRESHOLD
  NoBlock     \* marker of a ledger height that holds no block

ASSUME ForksAssumption == Forks # {}
ASSUME MaxHeightAssumption == MaxHeight \in Nat \ {0}
ASSUME ThresholdAssumption == Threshold \in Nat

Labels == {"Accepted", "Attested", "Final"}

(* Every block of height at most MaxHeight; Genesis is the empty path.     *)
BlockIds == UNION {[1..n -> Forks] : n \in 0..MaxHeight}
Genesis == << >>
Height(b) == Len(b)

(* a is b or an ancestor of b                                              *)
Ancestor(a, b) == Len(a) <= Len(b) /\ SubSeq(b, 1, Len(a)) = a

(* BlockWithLabel                                                          *)
Entries == [blk : BlockIds, label : Labels]

Heights == 0..MaxHeight

ASSUME NoBlockAssumption == NoBlock \notin Entries

VARIABLES
  ledger,   \* DB: height -> stored block and label (fetch_block_label_by_height)
  mdHash,   \* DB metadata MD_HASH_KEY: the hash the node reloads its tip from
  vmHead,   \* VM: state root of its current, not yet finalized, commit
  vmFinal,  \* VM: last finalized state root (finalize_state)
  tip,      \* Acceptor.tip, in memory: the most recently accepted block
  alive     \* the node process is running

vars == <<ledger, mdHash, vmHead, vmFinal, tip, alive>>

(* The DB indexes blocks by their header height.                           *)
TypeOK ==
  /\ ledger \in [Heights -> Entries \cup {NoBlock}]
  /\ \A h \in Heights : ledger[h] # NoBlock => Height(ledger[h].blk) = h
  /\ mdHash \in BlockIds
  /\ vmHead \in BlockIds
  /\ vmFinal \in BlockIds
  /\ tip \in Entries
  /\ alive \in BOOLEAN

HighestOf(S) == CHOOSE h \in S : \A g \in S : g <= h

GenesisEntry == [blk |-> Genesis, label |-> "Final"]

(***************************************************************************)
(* rolling_finality: the label of a new block of height current.  The scan *)
(* goes down from current - 1 to max(current - Threshold, 0) and stops at  *)
(* the first label that is not Attested: Accepted gives Attested, Final    *)
(* gives Final (break); a scan through Attested blocks only gives Final.   *)
(* A missing label panics; the result is then "Missing".                   *)
(***************************************************************************)
RollingFinality(lg, attested, tipIsFinal, current) ==
  LET target == IF current >= Threshold THEN current - Threshold ELSE 0
      stops  == {h \in target..(current - 1) :
                   lg[h] = NoBlock \/ lg[h].label # "Attested"}
  IN IF ~attested THEN "Accepted"
     ELSE IF tipIsFinal \/ stops = {} THEN "Final"
     ELSE IF lg[HighestOf(stops)] = NoBlock THEN "Missing"
     ELSE IF lg[HighestOf(stops)].label = "Accepted" THEN "Attested"
     ELSE "Final"

(* A fresh node: the genesis block is stored, Final, and is the tip.       *)
InitFresh ==
  /\ ledger = [h \in Heights |-> IF h = 0 THEN GenesisEntry ELSE NoBlock]
  /\ mdHash = Genesis
  /\ vmHead = Genesis
  /\ vmFinal = Genesis
  /\ tip = GenesisEntry
  /\ alive = TRUE

(***************************************************************************)
(* A node about to start on a DB written by earlier runs (spec 8, scenario *)
(* 6): the ledger holds a chain c, each label the one rolling_finality     *)
(* gives it, MD_HASH_KEY names c, and the VM reopens at its last finalized *)
(* commit, the highest Final block.                                        *)
(***************************************************************************)
ChainLedger(c, lab) ==
  [h \in Heights |-> IF h = 0 THEN GenesisEntry
                     ELSE IF h <= Len(c)
                          THEN [blk |-> SubSeq(c, 1, h), label |-> lab[h]]
                          ELSE NoBlock]

InitFromDisk ==
  \E c \in BlockIds \ {Genesis}, lab \in [1..MaxHeight -> Labels] :
    LET lg == ChainLedger(c, lab)
    IN /\ \A h \in 1..Len(c) :
            \E a \in BOOLEAN : lab[h] = RollingFinality(lg, a, lg[h - 1].label = "Final", h)
       /\ \A h \in (Len(c) + 1)..MaxHeight : lab[h] = "Accepted"
       /\ ledger = lg
       /\ mdHash = c
       /\ vmFinal = lg[HighestOf({h \in Heights : lg[h] # NoBlock /\ lg[h].label = "Final"})].blk
       /\ vmHead = vmFinal
       /\ tip = lg[Len(c)]
       /\ alive = FALSE

Init == InitFresh \/ InitFromDisk

(* Mutant: the height index is off by one.                                 *)
StoreOffByOne(b, lbl) == [ledger EXCEPT ![Height(b) - 1] = [blk |-> b, label |-> lbl]]

(* db.store_block: the block and its label, indexed by height              *)
Store(b, lbl) == [ledger EXCEPT ![Height(b)] = [blk |-> b, label |-> lbl]]

(* The accept transaction: store_block and, in the same transactional      *)
(* update, MD_HASH_KEY set to the block's hash (spec 4.6 step 4).          *)
Persist(b, lbl) == ledger' = Store(b, lbl) /\ mdHash' = b

NewBlock(f) == Append(tip.blk, f)

NewLabel(f, attested) ==
  RollingFinality(ledger, attested, tip.label = "Final", Height(NewBlock(f)))

(* What every path of try_accept_block that gets past vm.accept needs:     *)
(* the lock holder is alive, the block extends the tip (header checks) and *)
(* the VM is at the tip's state, so assert_eq! on state_root holds.        *)
AcceptPre(f, attested) ==
  /\ alive
  /\ Height(tip.blk) < MaxHeight
  /\ vmHead = tip.blk
  /\ NewLabel(f, attested) \in Labels

(* Mutant: finalize_state is called whatever the label.                    *)
AcceptBlockAlwaysFinalize(f, attested) ==
  /\ AcceptPre(f, attested)
  /\ LET b == NewBlock(f)
         lbl == NewLabel(f, attested)
     IN /\ Persist(b, lbl)
        /\ vmHead' = b
        /\ tip' = [blk |-> b, label |-> lbl]
        /\ vmFinal' = b
  /\ UNCHANGED alive

(***************************************************************************)
(* try_accept_block, success: vm.accept and store_block in one DB          *)
(* transaction, selective provisioner update, tip update, finalize_state   *)
(* when the label is Final.  attested is pni = 0, the header check's      *)
(* verdict on the block.                                                   *)
(***************************************************************************)
AcceptBlock(f, attested) ==
  /\ AcceptPre(f, attested)
  /\ LET b == NewBlock(f)
         lbl == NewLabel(f, attested)
     IN /\ Persist(b, lbl)
        /\ vmHead' = b
        /\ tip' = [blk |-> b, label |-> lbl]
        /\ vmFinal' = IF lbl = "Final" THEN b ELSE vmFinal
  /\ UNCHANGED alive

(* try_accept_block, the DB transaction fails after vm.accept: the ledger  *)
(* update rolls back, the VM keeps the new commit, the call returns Err.   *)
AcceptDbFailure(f, attested) ==
  /\ AcceptPre(f, attested)
  /\ vmHead' = NewBlock(f)
  /\ UNCHANGED <<ledger, mdHash, vmFinal, tip, alive>>

(* try_accept_block, the block is committed, selective_update fails and    *)
(* the fallback vm.get_provisioners fails too: Err before the tip update.  *)
AcceptResyncFailure(f, attested) ==
  /\ AcceptPre(f, attested)
  /\ Persist(NewBlock(f), NewLabel(f, attested))
  /\ vmHead' = NewBlock(f)
  /\ UNCHANGED <<vmFinal, tip, alive>>

(* try_accept_block, the block is committed Final and the tip updated, but *)
(* vm.finalize_state fails: Err.                                           *)
AcceptFinalizeFailure(f, attested) ==
  /\ AcceptPre(f, attested)
  /\ NewLabel(f, attested) = "Final"
  /\ Persist(NewBlock(f), "Final")
  /\ vmHead' = NewBlock(f)
  /\ tip' = [blk |-> NewBlock(f), label |-> "Final"]
  /\ UNCHANGED <<vmFinal, alive>>

(* The process dies; the VM reopens at its last finalized commit.          *)
Crash ==
  /\ alive
  /\ alive' = FALSE
  /\ vmHead' = vmFinal
  /\ UNCHANGED <<ledger, mdHash, vmFinal, tip>>

(* try_accept_block on a VM that is not at the tip's state: the assert_eq! *)
(* on the returned state_root panics inside the DB transaction.            *)
AcceptStateMismatch ==
  /\ alive
  /\ Height(tip.blk) < MaxHeight
  /\ vmHead # tip.blk
  /\ Crash

(***************************************************************************)
(* try_revert(LastFinalizedState), whose only caller is init_consensus.    *)
(* vm.revert_to_finalized() moves the VM to target first.  Then, in one DB *)
(* transaction, the walk goes down from the tip's height while height !=  *)
(* 0, deleting every block whose state_hash is not target; it errors on a  *)
(* missing block and when it reaches 0.  RevertFound is the height where   *)
(* it stops with success.                                                  *)
(***************************************************************************)
RevertFound(curr, target) ==
  {h \in 1..curr : /\ \A g \in h..curr : ledger[g] # NoBlock
                   /\ ledger[h].blk = target}

Reverted(curr, hf) ==
  [h \in Heights |-> IF hf < h /\ h <= curr THEN NoBlock ELSE ledger[h]]

(* Mutant: update_tip is not called after the walk; the tip stays the      *)
(* block the walk started from.                                            *)
RevertFromNoTipUpdate(t) ==
  LET hf == HighestOf(RevertFound(Height(t.blk), vmFinal))
  IN /\ ledger' = Reverted(Height(t.blk), hf)
     /\ mdHash' = ledger[hf].blk
     /\ tip' = t
     /\ vmHead' = vmFinal

(* The walk succeeds: blocks above the target are deleted and update_tip   *)
(* writes MD_HASH_KEY and sets the tip to the target with its label.  The  *)
(* walk and update_tip are two DB transactions; they are one step here.    *)
RevertFrom(t) ==
  LET hf == HighestOf(RevertFound(Height(t.blk), vmFinal))
  IN /\ ledger' = Reverted(Height(t.blk), hf)
     /\ mdHash' = ledger[hf].blk
     /\ tip' = ledger[hf]
     /\ vmHead' = vmFinal

(* The tip the node is restarted with: the block at MD_HASH_KEY and its    *)
(* stored label.                                                           *)
Reloaded == ledger[Height(mdHash)]

(* init_consensus when the VM state matches the reloaded tip (or the tip   *)
(* is genesis): no revert.                                                 *)
Restart ==
  /\ ~alive
  /\ Height(Reloaded.blk) = 0 \/ Reloaded.blk = vmHead
  /\ tip' = Reloaded
  /\ alive' = TRUE
  /\ UNCHANGED <<ledger, mdHash, vmHead, vmFinal>>

(* init_consensus when they differ: try_revert(LastFinalizedState) from    *)
(* the reloaded tip.  If the revert fails, init_consensus returns Err and  *)
(* the node does not start.                                                *)
RestartWithRevert ==
  /\ ~alive
  /\ Height(Reloaded.blk) > 0
  /\ Reloaded.blk # vmHead
  /\ RevertFound(Height(Reloaded.blk), vmFinal) # {}
  /\ RevertFrom(Reloaded)
  /\ alive' = TRUE
  /\ UNCHANGED vmFinal

Next ==
  \/ \E f \in Forks, attested \in BOOLEAN :
       \/ AcceptBlock(f, attested)
       \/ AcceptDbFailure(f, attested)
       \/ AcceptResyncFailure(f, attested)
       \/ AcceptFinalizeFailure(f, attested)
  \/ AcceptStateMismatch
  \/ Crash
  \/ Restart
  \/ RestartWithRevert

Spec == Init /\ [][Next]_vars

(***************************************************************************)
(* get_latest_final_block: the tip if it is Final, else the highest Final  *)
(* block found scanning heights (0..prev_height).rev(), prev_height being  *)
(* the tip's height - 1; NoBlock stands for the Err result.                *)
(***************************************************************************)
GetLatestFinalBlock ==
  IF tip.label = "Final" THEN tip.blk
  ELSE LET prev   == Height(tip.blk) - 1
           finals == {h \in Heights : h < prev /\ ledger[h] # NoBlock
                                        /\ ledger[h].label = "Final"}
       IN IF finals = {} THEN NoBlock ELSE ledger[HighestOf(finals)].blk

-----------------------------------------------------------------------------
(* The VM's commits as the abstract specification VmCommits sees them.    *)
VM == INSTANCE VmCommits WITH head <- vmHead, final <- vmFinal

-----------------------------------------------------------------------------
(* Properties                                                              *)

(* The Acceptor implements VmCommits: whatever the accept failures,       *)
(* crashes, reverts and restarts, the VM only ever commits a child of its  *)
(* current commit (try_accept_block, guarded by assert_eq! on state_root), *)
(* finalizes only that new commit (finalize_state), and otherwise only     *)
(* returns to its finalized commit (try_revert, restart).                  *)
VmRefinement == VM!Spec

(* Whenever the node is up, the ledger from genesis to the tip is exactly  *)
(* the tip's chain, and the stored tip is the in-memory tip: accept,       *)
(* revert and restart never leave a hole or a foreign block below the tip  *)
(* (rolling_finality panics on a hole).                                    *)
LedgerChain ==
  alive =>
    /\ \A h \in 0..Height(tip.blk) :
         ledger[h] # NoBlock /\ ledger[h].blk = SubSeq(tip.blk, 1, h)
    /\ ledger[Height(tip.blk)] = tip

(* The block the VM has finalized is always stored at its height, labelled *)
(* Final: neither an accept on a stale tip, nor a failed accept, nor a     *)
(* revert, nor a restart ever deletes or replaces it.                      *)
FinalizedBlockKept ==
  ledger[Height(vmFinal)] = [blk |-> vmFinal, label |-> "Final"]

(* Spec 8, rolling finality: a block stored with label Final is never      *)
(* deleted, replaced or relabelled (by a revert or by a later accept).     *)
FinalLabelIrreversible ==
  [][\A h \in Heights :
       ledger[h] # NoBlock /\ ledger[h].label = "Final" => ledger'[h] = ledger[h]
    ]_vars

(* Spec 8, revert convergence: whenever init_consensus finds the VM and    *)
(* the reloaded tip apart and calls try_revert(LastFinalizedState), the    *)
(* walk finds the finalized state if it is on the reloaded tip's chain.    *)
RevertConverges ==
  /\ ~alive
  /\ Height(Reloaded.blk) > 0
  /\ Reloaded.blk # vmHead
  /\ Ancestor(vmFinal, Reloaded.blk)
  => RevertFound(Height(Reloaded.blk), vmFinal) # {}

(* get_latest_final_block returns the highest Final block at or below the  *)
(* tip.                                                                    *)
LatestFinalBlockCorrect ==
  alive =>
    GetLatestFinalBlock =
      ledger[HighestOf({h \in 0..Height(tip.blk) :
                          ledger[h] # NoBlock /\ ledger[h].label = "Final"})].blk
=============================================================================
