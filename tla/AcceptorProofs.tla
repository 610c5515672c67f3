--------------------------- MODULE AcceptorProofs ---------------------------
(***************************************************************************)
(* Proofs about the Acceptor: type correctness, and that the block the VM  *)
(* has finalized stays stored and labelled Final, and the ledger below the *)
(* tip is the tip's chain, for every number of forks, height bound and     *)
(* finality threshold.                                                     *)
(***************************************************************************)
EXTENDS Acceptor, TLAPS, WellFoundedInduction

-----------------------------------------------------------------------------
(* Lemmas on the data the model is built from.                            *)

(* A non-empty set of naturals bounded by N has a greatest element: the   *)
(* least element of its mirror image {N - x} under the well-founded <.     *)
LEMMA MaxExists ==
  ASSUME NEW S \in SUBSET Nat, NEW N \in Nat, S # {}, \A s \in S : s <= N
  PROVE  \E h \in S : \A g \in S : g <= h
<1> DEFINE T == {N - x : x \in S}
<1>1. \A x \in S : N - x \in Nat
  OBVIOUS
<1>2. T \subseteq Nat /\ T # {}
  BY <1>1
<1>3. PICK t \in T : \A y \in T : ~(<<y, t>> \in OpToRel(<, Nat))
  BY <1>2, NatLessThanWellFounded, WFMin
<1>4. PICK h \in S : t = N - h
  OBVIOUS
<1>5. ASSUME NEW g \in S PROVE g <= h
  <2>1. N - g \in T /\ N - g \in Nat /\ t \in Nat
    BY <1>1, <1>2
  <2>2. ~(N - g < t)
    BY <1>3, <2>1 DEF OpToRel
  <2> QED
    BY <1>4, <2>2
<1> QED
  BY <1>5

(* HighestOf picks that greatest element.                                  *)
LEMMA HighestOfSpec ==
  ASSUME NEW S \in SUBSET Nat, NEW N \in Nat, S # {}, \A s \in S : s <= N
  PROVE  /\ HighestOf(S) \in S
         /\ \A g \in S : g <= HighestOf(S)
BY MaxExists DEF HighestOf

(* The blocks are the sequences of fork choices of length at most         *)
(* MaxHeight.                                                              *)
LEMMA BlockIdsSeq ==
  ASSUME NEW b
  PROVE  b \in BlockIds <=> b \in Seq(Forks) /\ Len(b) <= MaxHeight
BY MaxHeightAssumption DEF BlockIds

(* Prefixes of a block: their length, their own prefixes, and the         *)
(* prefixes of a child.                                                    *)
LEMMA PrefixFacts ==
  ASSUME NEW b \in Seq(Forks), NEW k \in 0..Len(b)
  PROVE  /\ SubSeq(b, 1, k) \in Seq(Forks)
         /\ Len(SubSeq(b, 1, k)) = k
         /\ \A j \in 0..k : SubSeq(SubSeq(b, 1, k), 1, j) = SubSeq(b, 1, j)
         /\ \A f \in Forks : SubSeq(Append(b, f), 1, k) = SubSeq(b, 1, k)
         /\ SubSeq(b, 1, Len(b)) = b
         /\ SubSeq(b, 1, 0) = << >>
OBVIOUS

(* A block is its own ancestor, and an ancestor of b is one of b's child. *)
LEMMA AncestorFacts ==
  ASSUME NEW a \in Seq(Forks), NEW b \in Seq(Forks), NEW f \in Forks
  PROVE  /\ Ancestor(b, b)
         /\ Ancestor(a, b) => Ancestor(a, Append(b, f))
BY PrefixFacts DEF Ancestor

(* MD_HASH_KEY names a block whose whole chain is stored.                  *)
MdChain ==
  \A h \in 0..Height(mdHash) :
    ledger[h] # NoBlock /\ ledger[h].blk = SubSeq(mdHash, 1, h)

(* The VM's current commit descends from its finalized one.                *)
VmChain == Ancestor(vmFinal, vmHead)

(* The inductive invariant.                                                *)
IInv ==
  /\ TypeOK
  /\ LedgerChain
  /\ FinalizedBlockKept
  /\ MdChain
  /\ VmChain

-----------------------------------------------------------------------------
(* The genesis entry, and entries built from a prefix of a block.         *)
LEMMA EntryFacts ==
  ASSUME NEW c \in BlockIds, NEW h \in 0..Len(c), NEW l \in Labels
  PROVE  /\ SubSeq(c, 1, h) \in BlockIds
         /\ [blk |-> SubSeq(c, 1, h), label |-> l] \in Entries
         /\ Height(SubSeq(c, 1, h)) = h
<1>1. c \in Seq(Forks) /\ Len(c) <= MaxHeight
  BY BlockIdsSeq
<1>2. SubSeq(c, 1, h) \in Seq(Forks) /\ Len(SubSeq(c, 1, h)) = h
  BY <1>1, PrefixFacts
<1>3. Len(SubSeq(c, 1, h)) <= MaxHeight
  BY <1>1, <1>2, MaxHeightAssumption
<1>4. SubSeq(c, 1, h) \in BlockIds
  BY <1>2, <1>3, BlockIdsSeq
<1> QED
  BY <1>2, <1>4 DEF Entries, Height

LEMMA GenesisFacts ==
  /\ Genesis \in BlockIds
  /\ GenesisEntry \in Entries
  /\ Height(Genesis) = 0
<1>1. Genesis \in Seq(Forks) /\ Len(Genesis) <= MaxHeight
  BY MaxHeightAssumption DEF Genesis
<1>2. Genesis \in BlockIds
  BY <1>1, BlockIdsSeq
<1> QED
  BY <1>2 DEF GenesisEntry, Entries, Labels, Height, Genesis

(* A fresh node and a node about to start on an existing DB both satisfy  *)
(* the inductive invariant.                                                *)
LEMMA InitIInv == Init => IInv
<1> USE MaxHeightAssumption
<1>1. CASE InitFresh
  <2>1. TypeOK
    BY <1>1, GenesisFacts DEF InitFresh, TypeOK, Heights, Height, GenesisEntry
  <2>2. Ancestor(Genesis, Genesis)
    BY DEF Ancestor, Genesis
  <2>3. LedgerChain /\ FinalizedBlockKept /\ MdChain
    BY <1>1, GenesisFacts
    DEF InitFresh, LedgerChain, FinalizedBlockKept, MdChain, Heights, Height,
        GenesisEntry, Genesis
  <2> QED
    BY <1>1, <2>1, <2>2, <2>3 DEF InitFresh, IInv, VmChain, GenesisEntry
<1>2. CASE InitFromDisk
  <2>1. PICK c \in BlockIds \ {Genesis}, lab \in [1..MaxHeight -> Labels] :
          /\ ledger = ChainLedger(c, lab)
          /\ mdHash = c
          /\ vmFinal = ChainLedger(c, lab)[HighestOf({h \in Heights :
                 ChainLedger(c, lab)[h] # NoBlock /\ ChainLedger(c, lab)[h].label = "Final"})].blk
          /\ vmHead = vmFinal
          /\ tip = ChainLedger(c, lab)[Len(c)]
          /\ alive = FALSE
    BY <1>2 DEF InitFromDisk
  <2> DEFINE F == {h \in Heights : ledger[h] # NoBlock /\ ledger[h].label = "Final"}
             hf == HighestOf(F)
  <2>2. c \in Seq(Forks) /\ 1 <= Len(c) /\ Len(c) <= MaxHeight
    BY <2>1, BlockIdsSeq DEF Genesis
  <2>3. ASSUME NEW h \in 0..Len(c)
        PROVE  /\ ledger[h] # NoBlock
               /\ ledger[h].blk = SubSeq(c, 1, h)
               /\ ledger[h] \in Entries
               /\ Height(ledger[h].blk) = h
    <3>1. CASE h = 0
      <4>1. ledger[h] = GenesisEntry
        BY <2>1, <3>1 DEF ChainLedger, Heights
      <4>2. SubSeq(c, 1, 0) = Genesis
        BY <2>2, PrefixFacts DEF Genesis
      <4> QED
        BY <3>1, <4>1, <4>2, GenesisFacts, NoBlockAssumption DEF GenesisEntry
    <3>2. CASE h # 0
      <4>1. h \in 1..MaxHeight /\ lab[h] \in Labels
        BY <2>2, <3>2
      <4>2. ledger[h] = [blk |-> SubSeq(c, 1, h), label |-> lab[h]]
        BY <2>1, <2>2, <3>2, <4>1 DEF ChainLedger, Heights
      <4>3. [blk |-> SubSeq(c, 1, h), label |-> lab[h]] \in Entries
            /\ Height(SubSeq(c, 1, h)) = h
        BY <4>1, EntryFacts
      <4>4. ledger[h] \in Entries /\ ledger[h].blk = SubSeq(c, 1, h)
        BY <4>2, <4>3
      <4>5. ledger[h] # NoBlock
        BY <4>4, NoBlockAssumption
      <4> QED
        BY <4>3, <4>4, <4>5
    <3> QED
      BY <3>1, <3>2
  <2>4. ASSUME NEW h \in Heights, h > Len(c) PROVE ledger[h] = NoBlock
    BY <2>1, <2>2, <2>4 DEF ChainLedger, Heights
  <2>5. ledger \in [Heights -> Entries \cup {NoBlock}]
    <3>1. DOMAIN ledger = Heights
      BY <2>1 DEF ChainLedger
    <3>2. \A h \in Heights : ledger[h] \in Entries \cup {NoBlock}
      BY <2>2, <2>3, <2>4 DEF Heights
    <3> QED
      BY <2>1, <3>1, <3>2 DEF ChainLedger
  <2>6. \A h \in Heights : ledger[h] # NoBlock => Height(ledger[h].blk) = h
    BY <2>2, <2>3, <2>4 DEF Heights
  <2>7. MdChain
    BY <2>1, <2>3 DEF MdChain, Height
  <2>8. hf \in F
    <3>1. 0 \in F
      <4>1. ledger[0] = GenesisEntry
        BY <2>1 DEF ChainLedger, Heights
      <4> QED
        BY <4>1, GenesisFacts, NoBlockAssumption DEF GenesisEntry, Heights
    <3>2. F \subseteq Nat /\ \A h \in F : h <= MaxHeight
      BY DEF Heights
    <3> QED
      BY <3>1, <3>2, HighestOfSpec
  <2>9. hf \in 0..Len(c) /\ ledger[hf].label = "Final"
    BY <2>8, <2>4 DEF Heights
  <2>10. vmFinal = ledger[hf].blk /\ vmHead = vmFinal /\ tip = ledger[Len(c)]
    BY <2>1
  <2>11. TypeOK
    <3>1. ledger[hf] \in Entries /\ ledger[Len(c)] \in Entries
      BY <2>2, <2>3, <2>9
    <3> QED
      BY <2>1, <2>5, <2>6, <2>10, <3>1 DEF TypeOK, Entries
  <2>12. FinalizedBlockKept
    BY <2>3, <2>9, <2>10 DEF FinalizedBlockKept, Entries
  <2>13. VmChain
    <3>1. vmFinal \in Seq(Forks)
      BY <2>11, BlockIdsSeq DEF TypeOK
    <3> QED
      BY <2>10, <3>1, PrefixFacts DEF VmChain, Ancestor
  <2> QED
    BY <2>1, <2>7, <2>11, <2>12, <2>13 DEF IInv, LedgerChain
<1> QED
  BY <1>1, <1>2 DEF Init

(* What every path of try_accept_block past vm.accept relies on: the new  *)
(* block is the tip's child, one height above the tip and above the       *)
(* finalized block, and storing it changes only its own height.           *)
LEMMA AcceptFacts ==
  ASSUME IInv, NEW f \in Forks, NEW a \in BOOLEAN, AcceptPre(f, a),
         NEW l \in Labels
  PROVE  LET b == NewBlock(f) IN
         /\ b \in BlockIds
         /\ Height(b) = Height(tip.blk) + 1
         /\ Height(b) \in Heights
         /\ \A k \in 0..Height(tip.blk) : SubSeq(b, 1, k) = SubSeq(tip.blk, 1, k)
         /\ SubSeq(b, 1, Height(b)) = b
         /\ Height(vmFinal) < Height(b)
         /\ Ancestor(vmFinal, b)
         /\ Ancestor(tip.blk, b)
         /\ NewLabel(f, a) \in Labels
         /\ Store(b, l) \in [Heights -> Entries \cup {NoBlock}]
         /\ Store(b, l)[Height(b)] = [blk |-> b, label |-> l]
         /\ \A h \in Heights \ {Height(b)} : Store(b, l)[h] = ledger[h]
<1> USE MaxHeightAssumption
<1> DEFINE b == NewBlock(f)
<1>1. tip.blk \in Seq(Forks) /\ vmHead = tip.blk /\ alive
      /\ Height(tip.blk) < MaxHeight
  BY BlockIdsSeq DEF IInv, TypeOK, Entries, AcceptPre
<1>2. b \in Seq(Forks) /\ Height(b) = Height(tip.blk) + 1
  BY <1>1 DEF NewBlock, Height
<1>3. b \in BlockIds /\ Height(b) \in Heights
  BY <1>1, <1>2, BlockIdsSeq DEF Height, Heights
<1>4. \A k \in 0..Height(tip.blk) : SubSeq(b, 1, k) = SubSeq(tip.blk, 1, k)
  BY <1>1, PrefixFacts DEF NewBlock, Height
<1>5. SubSeq(b, 1, Height(b)) = b
  BY <1>2, PrefixFacts DEF Height
<1>6. vmFinal \in Seq(Forks)
  BY BlockIdsSeq DEF IInv, TypeOK
<1>7. Ancestor(vmFinal, tip.blk)
  BY <1>1 DEF IInv, VmChain
<1>8. Height(vmFinal) < Height(b)
  BY <1>2, <1>7 DEF Ancestor, Height
<1>9. Ancestor(vmFinal, b) /\ Ancestor(tip.blk, b)
  BY <1>1, <1>6, <1>7, AncestorFacts DEF NewBlock
<1>10. Store(b, l) \in [Heights -> Entries \cup {NoBlock}]
       /\ Store(b, l)[Height(b)] = [blk |-> b, label |-> l]
       /\ \A h \in Heights \ {Height(b)} : Store(b, l)[h] = ledger[h]
  <2>1. [blk |-> b, label |-> l] \in Entries
    BY <1>3 DEF Entries
  <2> QED
    BY <1>3, <2>1 DEF Store, IInv, TypeOK
<1> QED
  BY <1>2, <1>3, <1>4, <1>5, <1>8, <1>9, <1>10 DEF AcceptPre

(* The accept transaction, storing the tip's child and pointing           *)
(* MD_HASH_KEY at it, keeps the ledger typed and indexed by height, keeps *)
(* the finalized block, and extends the tip's chain by the new block,     *)
(* which is then the chain of MD_HASH_KEY.                                 *)
LEMMA StoreKeeps ==
  ASSUME IInv, NEW f \in Forks, NEW a \in BOOLEAN, AcceptPre(f, a),
         NEW l \in Labels,
         ledger' = Store(NewBlock(f), l),
         mdHash' = NewBlock(f),
         \/ vmFinal' = vmFinal
         \/ vmFinal' = NewBlock(f) /\ l = "Final"
  PROVE  /\ ledger' \in [Heights -> Entries \cup {NoBlock}]
         /\ \A h \in Heights : ledger'[h] # NoBlock => Height(ledger'[h].blk) = h
         /\ FinalizedBlockKept'
         /\ MdChain'
         /\ \A h \in 0..Height(NewBlock(f)) :
              ledger'[h] # NoBlock /\ ledger'[h].blk = SubSeq(NewBlock(f), 1, h)
         /\ \A h \in 0..Height(tip.blk) : ledger'[h] = ledger[h]
<1> USE MaxHeightAssumption
<1> DEFINE b == NewBlock(f)
<1>1. /\ b \in BlockIds
      /\ Height(b) = Height(tip.blk) + 1
      /\ Height(b) \in Heights
      /\ \A k \in 0..Height(tip.blk) : SubSeq(b, 1, k) = SubSeq(tip.blk, 1, k)
      /\ SubSeq(b, 1, Height(b)) = b
      /\ Height(vmFinal) < Height(b)
      /\ Store(b, l) \in [Heights -> Entries \cup {NoBlock}]
      /\ Store(b, l)[Height(b)] = [blk |-> b, label |-> l]
      /\ \A h \in Heights \ {Height(b)} : Store(b, l)[h] = ledger[h]
  BY AcceptFacts
<1>2. alive /\ Height(tip.blk) \in Heights
  BY DEF AcceptPre, IInv, TypeOK, Entries, Heights, Height
<1>3. \A h \in 0..Height(tip.blk) : ledger'[h] = ledger[h]
  BY <1>1, <1>2 DEF Heights
<1>4. ASSUME NEW h \in Heights, ledger'[h] # NoBlock
      PROVE  Height(ledger'[h].blk) = h
  BY <1>1, <1>4 DEF IInv, TypeOK, Height
<1>5. FinalizedBlockKept'
  <2>1. CASE vmFinal' = vmFinal
    <3>1. Height(vmFinal) \in Heights
      BY BlockIdsSeq DEF IInv, TypeOK, Heights, Height
    <3> QED
      BY <1>1, <2>1, <3>1 DEF IInv, FinalizedBlockKept, Height
  <2>2. CASE vmFinal' = b /\ l = "Final"
    <3>1. ledger'[Height(b)] = [blk |-> b, label |-> "Final"]
      BY <1>1, <2>2
    <3>2. Height(vmFinal') = Height(b)
      BY <2>2
    <3> QED
      BY <2>2, <3>1, <3>2 DEF FinalizedBlockKept
  <2> QED
    BY <2>1, <2>2
<1>7. ASSUME NEW h \in 0..Height(b)
      PROVE  ledger'[h] # NoBlock /\ ledger'[h].blk = SubSeq(b, 1, h)
  <2>1. CASE h = Height(b)
    <3>1. [blk |-> b, label |-> l] \in Entries
      BY <1>1 DEF Entries
    <3> QED
      BY <1>1, <2>1, <3>1, NoBlockAssumption
  <2>2. CASE h # Height(b)
    <3>1. h \in 0..Height(tip.blk)
      BY <1>1, <1>2, <2>2 DEF Heights
    <3>2. ledger[h] # NoBlock /\ ledger[h].blk = SubSeq(tip.blk, 1, h)
      BY <1>2, <3>1 DEF IInv, LedgerChain
    <3> QED
      BY <1>1, <1>3, <3>1, <3>2
  <2> QED
    BY <2>1, <2>2
<1>6. MdChain'
  BY <1>7 DEF MdChain
<1> QED
  BY <1>1, <1>3, <1>4, <1>5, <1>6, <1>7

(* The successful path of try_accept_block keeps the invariant.          *)
LEMMA AcceptBlockIInv ==
  ASSUME IInv, NEW f \in Forks, NEW a \in BOOLEAN, AcceptBlock(f, a)
  PROVE  IInv'
<1> USE MaxHeightAssumption
<1> DEFINE b == NewBlock(f)
           lbl == NewLabel(f, a)
<1>1. /\ AcceptPre(f, a)
      /\ lbl \in Labels
      /\ ledger' = Store(b, lbl)
      /\ vmHead' = b
      /\ tip' = [blk |-> b, label |-> lbl]
      /\ \/ vmFinal' = vmFinal
         \/ vmFinal' = b /\ lbl = "Final"
      /\ mdHash' = b
      /\ alive' = alive
  BY DEF AcceptBlock, AcceptPre, Persist
<1>2. /\ ledger' \in [Heights -> Entries \cup {NoBlock}]
      /\ \A h \in Heights : ledger'[h] # NoBlock => Height(ledger'[h].blk) = h
      /\ FinalizedBlockKept'
      /\ MdChain'
      /\ \A h \in 0..Height(b) : ledger'[h] # NoBlock /\ ledger'[h].blk = SubSeq(b, 1, h)
  BY <1>1, StoreKeeps
<1>3. /\ b \in BlockIds
      /\ Store(b, lbl)[Height(b)] = [blk |-> b, label |-> lbl]
      /\ Ancestor(vmFinal, b)
  BY <1>1, AcceptFacts
<1>4. b \in Seq(Forks)
  BY <1>3, BlockIdsSeq
<1>5. TypeOK'
  <2>1. vmFinal' \in BlockIds
    BY <1>1, <1>3 DEF IInv, TypeOK
  <2>2. tip' \in Entries
    BY <1>1, <1>3 DEF Entries
  <2> QED
    BY <1>1, <1>2, <1>3, <2>1, <2>2 DEF IInv, TypeOK
<1>6. LedgerChain'
  BY <1>1, <1>2, <1>3 DEF LedgerChain
<1>7. VmChain'
  <2>1. Ancestor(b, b)
    BY <1>4, AncestorFacts
  <2> QED
    BY <1>1, <1>3, <2>1 DEF VmChain
<1> QED
  BY <1>2, <1>5, <1>6, <1>7 DEF IInv

(* A revert walk that succeeds from a block whose chain is stored stops  *)
(* exactly at the finalized block: the new tip and MD_HASH_KEY are the     *)
(* finalized block, and only the heights above it are deleted.             *)
LEMMA RevertKeeps ==
  ASSUME IInv, NEW t \in Entries,
         \A h \in 0..Height(t.blk) :
            ledger[h] # NoBlock /\ ledger[h].blk = SubSeq(t.blk, 1, h),
         RevertFound(Height(t.blk), vmFinal) # {},
         RevertFrom(t),
         vmFinal' = vmFinal,
         alive' = TRUE
  PROVE  IInv'
<1> USE MaxHeightAssumption
<1> DEFINE curr == Height(t.blk)
           hf == HighestOf(RevertFound(curr, vmFinal))
<1>1. t.blk \in Seq(Forks) /\ curr \in 0..MaxHeight /\ curr = Len(t.blk)
  BY BlockIdsSeq DEF Entries, Height
<1>2. hf \in RevertFound(curr, vmFinal)
  <2>1. RevertFound(curr, vmFinal) \subseteq Nat
        /\ \A h \in RevertFound(curr, vmFinal) : h <= curr
    BY <1>1 DEF RevertFound, Heights
  <2>2. RevertFound(curr, vmFinal) # {} /\ curr \in Nat
    BY <1>1
  <2> QED
    BY <2>1, <2>2, HighestOfSpec, Zenon
<1>3. hf \in 1..curr /\ ledger[hf] # NoBlock /\ ledger[hf].blk = vmFinal
  BY <1>2 DEF RevertFound
<1>4. Height(vmFinal) = hf /\ hf \in Heights
  BY <1>1, <1>3 DEF IInv, TypeOK, Heights
<1>5. ledger[hf] = [blk |-> vmFinal, label |-> "Final"]
  BY <1>4 DEF IInv, FinalizedBlockKept
<1>6. vmFinal = SubSeq(t.blk, 1, hf) /\ vmFinal \in Seq(Forks) /\ vmFinal \in BlockIds
  <2>1. hf \in 0..Height(t.blk)
    BY <1>1, <1>3
  <2>2. vmFinal = SubSeq(t.blk, 1, hf)
    BY <1>3, <2>1
  <2>3. vmFinal \in BlockIds
    BY DEF IInv, TypeOK
  <2> QED
    BY <2>2, <2>3, BlockIdsSeq
<1>7. /\ ledger' = Reverted(curr, hf)
      /\ mdHash' = vmFinal
      /\ tip' = ledger[hf]
      /\ vmHead' = vmFinal
  BY <1>3 DEF RevertFrom
<1>8. /\ \A h \in 0..hf : ledger'[h] = ledger[h]
      /\ \A h \in Heights : ledger'[h] = ledger[h] \/ ledger'[h] = NoBlock
      /\ DOMAIN ledger' = Heights
  BY <1>1, <1>4, <1>7 DEF Reverted, Heights
<1>9. ASSUME NEW h \in 0..hf
      PROVE  ledger'[h] # NoBlock /\ ledger'[h].blk = SubSeq(vmFinal, 1, h)
  <2>1. ledger[h] # NoBlock /\ ledger[h].blk = SubSeq(t.blk, 1, h)
    BY <1>1, <1>3
  <2>2. SubSeq(vmFinal, 1, h) = SubSeq(t.blk, 1, h)
    BY <1>1, <1>3, <1>6, PrefixFacts DEF Height
  <2> QED
    BY <1>8, <2>1, <2>2
<1>10. TypeOK'
  <2>1. ledger' \in [Heights -> Entries \cup {NoBlock}]
    BY <1>7 DEF IInv, TypeOK, Reverted
  <2>2. \A h \in Heights : ledger'[h] # NoBlock => Height(ledger'[h].blk) = h
    BY <1>8 DEF IInv, TypeOK
  <2>3. tip' \in Entries
    BY <1>4, <1>5, <1>6, <1>7 DEF Entries, Labels
  <2> QED
    BY <1>6, <1>7, <2>1, <2>2, <2>3 DEF TypeOK
<1>11. FinalizedBlockKept'
  BY <1>3, <1>4, <1>5, <1>8 DEF FinalizedBlockKept, Height
<1>12. MdChain' /\ LedgerChain'
  BY <1>3, <1>4, <1>5, <1>7, <1>8, <1>9 DEF MdChain, LedgerChain, Height
<1>13. Ancestor(vmFinal, vmFinal)
  BY <1>6, PrefixFacts DEF Ancestor
<1> QED
  BY <1>5, <1>7, <1>10, <1>11, <1>12, <1>13 DEF IInv, VmChain

(* The failure paths of try_accept_block keep the invariant: the VM      *)
(* moves to the new block with or without the ledger, never the finalized *)
(* state.                                                                  *)
LEMMA AcceptFailuresIInv ==
  ASSUME IInv, NEW f \in Forks, NEW a \in BOOLEAN,
         \/ AcceptDbFailure(f, a)
         \/ AcceptResyncFailure(f, a)
         \/ AcceptFinalizeFailure(f, a)
  PROVE  IInv'
<1> USE MaxHeightAssumption
<1> DEFINE b == NewBlock(f)
           lbl == NewLabel(f, a)
<1>1. AcceptPre(f, a) /\ lbl \in Labels /\ vmHead' = b /\ alive' = alive
      /\ vmFinal' = vmFinal
  BY DEF AcceptDbFailure, AcceptResyncFailure, AcceptFinalizeFailure, AcceptPre
<1>2. b \in BlockIds /\ Ancestor(vmFinal, b) /\ Ancestor(tip.blk, b)
      /\ Store(b, "Final")[Height(b)] = [blk |-> b, label |-> "Final"]
  BY <1>1, AcceptFacts DEF Labels
<1>3. VmChain'
  BY <1>1, <1>2 DEF VmChain
<1>4. CASE AcceptDbFailure(f, a)
  <2>1. UNCHANGED <<ledger, mdHash, tip>>
    BY <1>4 DEF AcceptDbFailure
  <2> QED
    BY <1>1, <1>2, <1>3, <2>1
    DEF IInv, TypeOK, LedgerChain, FinalizedBlockKept, MdChain, Height
<1>5. CASE AcceptResyncFailure(f, a)
  <2>1. ledger' = Store(b, lbl) /\ mdHash' = b /\ tip' = tip
    BY <1>5 DEF AcceptResyncFailure, Persist
  <2>2. /\ ledger' \in [Heights -> Entries \cup {NoBlock}]
        /\ \A h \in Heights : ledger'[h] # NoBlock => Height(ledger'[h].blk) = h
        /\ FinalizedBlockKept'
        /\ MdChain'
        /\ \A h \in 0..Height(tip.blk) : ledger'[h] = ledger[h]
    BY <1>1, <2>1, StoreKeeps
  <2>3. LedgerChain'
    BY <1>1, <2>1, <2>2 DEF IInv, LedgerChain, AcceptPre, Height
  <2> QED
    BY <1>1, <1>2, <1>3, <2>1, <2>2, <2>3 DEF IInv, TypeOK
<1>6. CASE AcceptFinalizeFailure(f, a)
  <2>1. ledger' = Store(b, "Final") /\ mdHash' = b
        /\ tip' = [blk |-> b, label |-> "Final"]
    BY <1>6 DEF AcceptFinalizeFailure, Persist
  <2>2. /\ ledger' \in [Heights -> Entries \cup {NoBlock}]
        /\ \A h \in Heights : ledger'[h] # NoBlock => Height(ledger'[h].blk) = h
        /\ FinalizedBlockKept'
        /\ MdChain'
        /\ \A h \in 0..Height(b) : ledger'[h] # NoBlock /\ ledger'[h].blk = SubSeq(b, 1, h)
    BY <1>1, <2>1, StoreKeeps DEF Labels
  <2>3. tip' \in Entries
    BY <1>2, <2>1 DEF Entries, Labels
  <2>4. LedgerChain'
    BY <1>2, <2>1, <2>2 DEF LedgerChain
  <2> QED
    BY <1>1, <1>2, <1>3, <2>1, <2>2, <2>3, <2>4 DEF IInv, TypeOK
<1> QED
  BY <1>4, <1>5, <1>6

(* A crash, whether on its own or from the assert_eq! of an accept on a   *)
(* stale VM, keeps the invariant: the VM reopens at its finalized state.  *)
LEMMA CrashIInv ==
  ASSUME IInv, Crash \/ AcceptStateMismatch
  PROVE  IInv'
<1>1. vmHead' = vmFinal /\ UNCHANGED <<ledger, mdHash, vmFinal, tip>>
  BY DEF Crash, AcceptStateMismatch
<1>2. Ancestor(vmFinal, vmFinal)
  BY BlockIdsSeq, PrefixFacts DEF IInv, TypeOK, Ancestor
<1>3. TypeOK' /\ FinalizedBlockKept' /\ MdChain' /\ VmChain'
  <2>1. alive' \in BOOLEAN
    BY DEF Crash, AcceptStateMismatch, IInv, TypeOK
  <2> QED
    BY <1>1, <1>2, <2>1 DEF IInv, TypeOK, FinalizedBlockKept, MdChain, VmChain, Height
<1>4. alive' = FALSE
  BY DEF Crash, AcceptStateMismatch
<1> QED
  BY <1>3, <1>4 DEF IInv, LedgerChain

(* The tip a restart reloads is the block MD_HASH_KEY names, stored with  *)
(* its whole chain.                                                        *)
LEMMA ReloadedFacts ==
  ASSUME IInv
  PROVE  /\ Reloaded \in Entries
         /\ Reloaded.blk = mdHash
         /\ \A h \in 0..Height(Reloaded.blk) :
              ledger[h] # NoBlock /\ ledger[h].blk = SubSeq(Reloaded.blk, 1, h)
<1> USE MaxHeightAssumption
<1>1. mdHash \in Seq(Forks) /\ Len(mdHash) \in Heights
  BY BlockIdsSeq DEF IInv, TypeOK, Heights
<1>2. ledger[Len(mdHash)] # NoBlock /\ ledger[Len(mdHash)].blk = mdHash
  BY <1>1, PrefixFacts DEF IInv, MdChain, Height
<1>3. Reloaded \in Entries
  BY <1>1, <1>2 DEF IInv, TypeOK, Reloaded, Height
<1> QED
  BY <1>2, <1>3 DEF IInv, MdChain, Reloaded, Height

(* init_consensus without a revert keeps the invariant.                   *)
LEMMA RestartIInv ==
  ASSUME IInv, Restart
  PROVE  IInv'
<1>1. tip' = Reloaded /\ alive' = TRUE /\ UNCHANGED <<ledger, mdHash, vmHead, vmFinal>>
  BY DEF Restart
<1>2. /\ Reloaded \in Entries
      /\ Reloaded.blk = mdHash
      /\ \A h \in 0..Height(Reloaded.blk) :
           ledger[h] # NoBlock /\ ledger[h].blk = SubSeq(Reloaded.blk, 1, h)
  BY ReloadedFacts
<1>3. Ancestor(mdHash, mdHash) /\ ledger[Height(mdHash)] = Reloaded
  BY BlockIdsSeq, PrefixFacts DEF IInv, TypeOK, Ancestor, Reloaded
<1> QED
  BY <1>1, <1>2, <1>3
  DEF IInv, TypeOK, LedgerChain, FinalizedBlockKept, MdChain, VmChain, Height

(* init_consensus with a revert keeps the invariant: the walk starts from *)
(* the reloaded tip, whose chain MdChain says is stored.                   *)
LEMMA RevertsIInv ==
  ASSUME IInv, RestartWithRevert
  PROVE  IInv'
<1>1. /\ Reloaded \in Entries
      /\ \A h \in 0..Height(Reloaded.blk) :
           ledger[h] # NoBlock /\ ledger[h].blk = SubSeq(Reloaded.blk, 1, h)
  BY ReloadedFacts
<1> QED
  BY <1>1, RevertKeeps DEF RestartWithRevert

(* Every step of the Acceptor keeps the inductive invariant.              *)
LEMMA NextIInv == IInv /\ [Next]_vars => IInv'
<1> SUFFICES ASSUME IInv, [Next]_vars PROVE IInv'
  OBVIOUS
<1>1. CASE UNCHANGED vars
  BY <1>1 DEF vars, IInv, TypeOK, LedgerChain, FinalizedBlockKept, MdChain,
            VmChain, Height
<1>2. CASE \E f \in Forks, a \in BOOLEAN : AcceptBlock(f, a)
  BY <1>2, AcceptBlockIInv
<1>3. CASE \E f \in Forks, a \in BOOLEAN :
             \/ AcceptDbFailure(f, a)
             \/ AcceptResyncFailure(f, a)
             \/ AcceptFinalizeFailure(f, a)
  BY <1>3, AcceptFailuresIInv
<1>4. CASE Crash \/ AcceptStateMismatch
  BY <1>4, CrashIInv
<1>5. CASE Restart
  BY <1>5, RestartIInv
<1>6. CASE RestartWithRevert
  BY <1>6, RevertsIInv
<1> QED
  BY <1>1, <1>2, <1>3, <1>4, <1>5, <1>6 DEF Next

-----------------------------------------------------------------------------
(* Theorems                                                                *)

(* The inductive invariant holds in every reachable state.                *)
THEOREM IInvInvariant == Spec => []IInv
BY InitIInv, NextIInv, PTL DEF Spec

(* Type correctness of the Acceptor, including that the DB indexes every  *)
(* stored block by its height.                                             *)
THEOREM TypeCorrect == Spec => []TypeOK
BY IInvInvariant, PTL DEF IInv

(* Whatever the accept failures, crashes, restarts and reverts, the block *)
(* the VM has finalized stays stored at its height with label Final       *)
(* (try_accept_block, try_revert, init_consensus).                         *)
THEOREM FinalizedBlockKeptInvariant == Spec => []FinalizedBlockKept
BY IInvInvariant, PTL DEF IInv

(* While the node runs, the ledger from genesis to the tip is the tip's   *)
(* chain and the stored tip is the in-memory one (try_accept_block,       *)
(* try_revert, init_consensus).                                            *)
THEOREM LedgerChainInvariant == Spec => []LedgerChain
BY IInvInvariant, PTL DEF IInv

-----------------------------------------------------------------------------
(* Refinement: the Acceptor implements VmCommits under the mapping        *)
(* head <- vmHead, final <- vmFinal.                                       *)

(* Both initial states are initial states of VmCommits: the VM opens at   *)
(* its finalized commit.                                                   *)
LEMMA InitVm == Init => VM!Init
<1> SUFFICES ASSUME Init PROVE VM!Init
  OBVIOUS
<1>1. vmFinal \in BlockIds
  BY InitIInv DEF IInv, TypeOK
<1>2. vmHead = vmFinal
  BY DEF Init, InitFresh, InitFromDisk
<1> QED
  BY <1>1, <1>2 DEF VM!Init, VM!Blocks, BlockIds

(* An accept, whether it succeeds or fails after vm.accept, commits a     *)
(* child of the VM's current commit, finalized when finalize_state runs.  *)
LEMMA AcceptVm ==
  ASSUME NEW f \in Forks, NEW a \in BOOLEAN,
         \/ AcceptBlock(f, a)
         \/ AcceptDbFailure(f, a)
         \/ AcceptResyncFailure(f, a)
         \/ AcceptFinalizeFailure(f, a)
  PROVE  VM!Commit(f) \/ VM!CommitFinal(f)
<1>1. /\ Len(vmHead) < MaxHeight
      /\ vmHead' = Append(vmHead, f)
  BY DEF AcceptBlock, AcceptDbFailure, AcceptResyncFailure,
         AcceptFinalizeFailure, AcceptPre, NewBlock, Height
<1>2. vmFinal' = vmFinal \/ vmFinal' = vmHead'
  BY DEF AcceptBlock, AcceptDbFailure, AcceptResyncFailure,
         AcceptFinalizeFailure, NewBlock
<1> QED
  BY <1>1, <1>2 DEF VM!Commit, VM!CommitFinal

(* Every other step either leaves the VM alone or returns it to its       *)
(* finalized commit.                                                       *)
LEMMA OtherVm ==
  ASSUME Crash \/ AcceptStateMismatch \/ RestartWithRevert \/ Restart
  PROVE  VM!RevertToFinal \/ UNCHANGED <<vmHead, vmFinal>>
<1>1. CASE Crash \/ AcceptStateMismatch
  BY <1>1 DEF Crash, AcceptStateMismatch, VM!RevertToFinal
<1>2. CASE RestartWithRevert
  BY <1>2 DEF RestartWithRevert, RevertFrom, VM!RevertToFinal
<1>3. CASE Restart
  BY <1>3 DEF Restart
<1> QED
  BY <1>1, <1>2, <1>3

(* Every step of the Acceptor is a step of VmCommits or leaves the VM's   *)
(* commits unchanged.                                                      *)
LEMMA NextVm == [Next]_vars => [VM!Next]_<<vmHead, vmFinal>>
<1> SUFFICES ASSUME [Next]_vars PROVE [VM!Next]_<<vmHead, vmFinal>>
  OBVIOUS
<1>1. CASE UNCHANGED vars
  BY <1>1 DEF vars
<1>2. CASE \E f \in Forks, a \in BOOLEAN :
             \/ AcceptBlock(f, a)
             \/ AcceptDbFailure(f, a)
             \/ AcceptResyncFailure(f, a)
             \/ AcceptFinalizeFailure(f, a)
  BY <1>2, AcceptVm DEF VM!Next
<1>3. CASE Crash \/ AcceptStateMismatch \/ RestartWithRevert \/ Restart
  BY <1>3, OtherVm DEF VM!Next
<1> QED
  BY <1>1, <1>2, <1>3 DEF Next

(* The Acceptor implements VmCommits (VmRefinement): across accept        *)
(* failures, crashes, reverts and restarts the VM only commits children   *)
(* of its current commit, finalizes only such a new commit, and otherwise *)
(* returns to its finalized commit (try_accept_block, try_revert,         *)
(* init_consensus).                                                        *)
THEOREM Refinement == Spec => VmRefinement
BY InitVm, NextVm, PTL DEF Spec, VmRefinement, VM!Spec

(* What VmCommits guarantees, proved once of the abstract specification.  *)
VMP == INSTANCE VmCommitsProofs WITH head <- vmHead, final <- vmFinal

(* The VM's finality only moves forward along one chain: across accept    *)
(* failures, crashes, reverts and restarts every finalized state of the   *)
(* VM (finalize_state in try_accept_block) descends from the one          *)
(* finalized before it, so no revert or restart ever undoes finality.     *)
THEOREM VmFinalityMonotone == Spec => VM!FinalityMonotone
<1>1. VMP!Init <=> VM!Init
  BY DEF VMP!Init, VM!Init, VMP!Blocks, VM!Blocks
<1>2. VMP!Next <=> VM!Next
  BY DEF VMP!Next, VM!Next, VMP!Commit, VM!Commit, VMP!CommitFinal,
         VM!CommitFinal, VMP!RevertToFinal, VM!RevertToFinal
<1>3. VMP!IsAncestor(vmFinal, vmFinal') <=> VM!IsAncestor(vmFinal, vmFinal')
  BY DEF VMP!IsAncestor, VM!IsAncestor
<1>4. VM!Spec => VM!FinalityMonotone
  BY <1>1, <1>2, <1>3, VMP!FinalityMonotoneHolds, PTL
     DEF VM!Spec, VMP!Spec, VM!FinalityMonotone, VMP!FinalityMonotone
<1> QED
  BY <1>4, Refinement DEF VmRefinement

=============================================================================
