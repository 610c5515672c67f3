-------------------------- MODULE AccumulatorProofs --------------------------
(***************************************************************************)
(* Proofs about the Accumulator (accumulator.rs): CollectedVotes for a     *)
(* (hash, step) is only sent once verified committee votes of distinct     *)
(* payloads for it carry the quorum, for every pool of workers, set of     *)
(* agreements, weights and quorum that satisfy AccumulatorAssumption.      *)
(*                                                                         *)
(* The argument: a store's weight is always the sum of the weights of its *)
(* payloads' signers, over payloads of valid submitted votes for its key; *)
(* weights only grow, so a store that once reached the quorum still has    *)
(* it, and the sum over all valid payloads is at least the store's.        *)
(***************************************************************************)
EXTENDS Accumulator, WeightSums

(* The payloads of the agreements that verify, the signer of each, and    *)
(* its weight.                                                             *)
ValidPayloads == {m.payload : m \in Agreements \ Invalid}

PSigner(p) == (CHOOSE m \in Agreements \ Invalid : m.payload = p).signer

PW == [p \in ValidPayloads |-> Weight[PSigner(p)]]

(* The payloads of the valid votes submitted for key k.                    *)
PV(k) == {m.payload : m \in ValidFor(k)}

(* The inductive invariant.                                                *)
IInv ==
  /\ TypeOK
  /\ IsFiniteSet(submitted)
  /\ \A i \in 1..Len(queue) : queue[i] \in submitted
  /\ \A w \in Workers : held[w] # NoMsg => held[w] \in submitted
  /\ \A w \in Workers : pc[w] \in {"verify", "accumulate", "send"} => held[w] # NoMsg
  /\ \A w \in Workers : pc[w] \in {"accumulate", "send"} => held[w] \notin Invalid
  /\ \A w \in Workers : pc[w] = "send" => stores[Key(held[w])].weight >= Quorum
  /\ \A k \in Keys : emitted[k] > 0 => stores[k].weight >= Quorum
  /\ \A k \in Keys : stores[k].set \subseteq PV(k)
  /\ \A k \in Keys : IsFiniteSet(stores[k].set)
  /\ \A k \in Keys : stores[k].weight = Sum(PW, stores[k].set)

-----------------------------------------------------------------------------
(* A valid payload's signer is the signer of every valid vote carrying it, *)
(* and its weight is a natural.                                            *)
LEMMA PWFacts ==
  ASSUME AccumulatorAssumption
  PROVE  /\ \A m \in Agreements \ Invalid :
              m.payload \in ValidPayloads /\ PSigner(m.payload) = m.signer
         /\ \A p \in ValidPayloads : PW[p] \in Nat
<1>1. ASSUME NEW m \in Agreements \ Invalid
      PROVE  m.payload \in ValidPayloads /\ PSigner(m.payload) = m.signer
  <2>1. m.payload \in ValidPayloads
    BY DEF ValidPayloads
  <2>2. PICK m2 \in Agreements \ Invalid :
          m2.payload = m.payload /\ PSigner(m.payload) = m2.signer
    BY DEF PSigner
  <2> QED
    BY <2>1, <2>2 DEF AccumulatorAssumption
<1>2. ASSUME NEW p \in ValidPayloads PROVE PW[p] \in Nat
  <2>1. PICK m \in Agreements \ Invalid : m.payload = p
    BY DEF ValidPayloads
  <2>2. m.signer \in Signers
    BY DEF AccumulatorAssumption, MsgRecords
  <2>3. PSigner(p) = m.signer
    BY <1>1, <2>1
  <2> QED
    BY <2>2, <2>3 DEF PW, AccumulatorAssumption
<1> QED
  BY <1>1, <1>2

LEMMA InitIInv ==
  ASSUME AccumulatorAssumption PROVE Init => IInv
<1> SUFFICES ASSUME Init PROVE IInv
  OBVIOUS
<1>1. Sum(PW, {}) = 0 /\ IsFiniteSet({})
  BY SumEmpty, FS_EmptySet
<1>2. TypeOK
  <2>1. queue \in Seq(Agreements) /\ pc \in [Workers -> PCs]
    BY DEF Init, PCs
  <2>2. held \in [Workers -> {m \in Agreements : m.hash # EmptyHash} \cup {NoMsg}]
    BY DEF Init
  <2>3. stores \in [Keys -> [set : SUBSET Payloads, weight : Nat]]
        /\ emitted \in [Keys -> Nat] /\ submitted \subseteq Agreements
    BY DEF Init
  <2>4. nsub \in 0..MaxSubmit
    BY DEF Init, AccumulatorAssumption
  <2>5. dropped \in BOOLEAN
    BY DEF Init
  <2> QED
    BY <2>1, <2>2, <2>3, <2>4, <2>5 DEF TypeOK
<1>3. /\ IsFiniteSet(submitted)
      /\ \A i \in 1..Len(queue) : queue[i] \in submitted
      /\ \A w \in Workers : held[w] # NoMsg => held[w] \in submitted
      /\ \A w \in Workers : pc[w] \in {"verify", "accumulate", "send"} => held[w] # NoMsg
      /\ \A w \in Workers : pc[w] \in {"accumulate", "send"} => held[w] \notin Invalid
      /\ \A w \in Workers : pc[w] = "send" => stores[Key(held[w])].weight >= Quorum
  BY <1>1 DEF Init
<1>4. ASSUME NEW k \in Keys
      PROVE  /\ emitted[k] > 0 => stores[k].weight >= Quorum
             /\ stores[k].set \subseteq PV(k)
             /\ IsFiniteSet(stores[k].set)
             /\ stores[k].weight = Sum(PW, stores[k].set)
  <2>1. stores[k].set = {} /\ stores[k].weight = 0 /\ emitted[k] = 0
    BY DEF Init
  <2> QED
    BY <1>1, <2>1
<1> QED
  BY <1>2, <1>3, <1>4 DEF IInv

(* The payloads counted for a key are valid payloads, and more are counted *)
(* as more is submitted.                                                   *)
LEMMA PVFacts ==
  ASSUME TypeOK, NEW k
  PROVE  /\ PV(k) \subseteq ValidPayloads
         /\ submitted \subseteq submitted' => PV(k) \subseteq PV(k)'
BY DEF TypeOK, PV, ValidFor, ValidPayloads

(* The part of IInv about the stores and emitted: a step that leaves them *)
(* alone and submits nothing less keeps it.                                *)
StoreInv ==
  /\ \A k \in Keys : emitted[k] > 0 => stores[k].weight >= Quorum
  /\ \A k \in Keys : stores[k].set \subseteq PV(k)
  /\ \A k \in Keys : IsFiniteSet(stores[k].set)
  /\ \A k \in Keys : stores[k].weight = Sum(PW, stores[k].set)

LEMMA StoreFrame ==
  ASSUME IInv, UNCHANGED <<stores, emitted>>, submitted \subseteq submitted'
  PROVE  StoreInv'
<1>1. \A k : PV(k) \subseteq PV(k)'
  BY PVFacts DEF IInv
<1> QED
  BY <1>1 DEF IInv, StoreInv

LEMMA ProcessIInv ==
  ASSUME AccumulatorAssumption, IInv, NEW m \in Agreements, Process(m)
  PROVE  IInv'
<1>1. /\ queue' = Append(queue, m) /\ submitted' = submitted \cup {m}
      /\ nsub < MaxSubmit /\ nsub' = nsub + 1
      /\ UNCHANGED <<pc, held, stores, emitted, dropped>>
  BY DEF Process
<1>2. TypeOK'
  <2>1. queue' \in Seq(Agreements) /\ submitted' \subseteq Agreements
    BY <1>1 DEF IInv, TypeOK
  <2>2. nsub' \in 0..MaxSubmit
    BY <1>1 DEF IInv, TypeOK, AccumulatorAssumption
  <2> QED
    BY <1>1, <2>1, <2>2 DEF IInv, TypeOK
<1>3. IsFiniteSet(submitted')
  BY <1>1, FS_AddElement DEF IInv
<1>4. \A i \in 1..Len(queue') : queue'[i] \in submitted'
  BY <1>1 DEF IInv, TypeOK
<1>5. StoreInv'
  BY <1>1, StoreFrame
<1> QED
  BY <1>1, <1>2, <1>3, <1>4, <1>5 DEF IInv, StoreInv

LEMMA RecvIInv ==
  ASSUME AccumulatorAssumption, IInv, NEW w \in Workers, Recv(w)
  PROVE  IInv'
<1>1. /\ pc[w] = "recv" /\ queue # << >> /\ queue' = Tail(queue)
      /\ UNCHANGED <<stores, emitted, submitted, nsub, dropped>>
  BY DEF Recv
<1>2. /\ queue' \in Seq(Agreements)
      /\ \A i \in 1..Len(queue') : queue'[i] \in submitted
      /\ Head(queue) \in Agreements /\ Head(queue) \in submitted
  <2>1. queue \in Seq(Agreements) /\ \A i \in 1..Len(queue) : queue[i] \in submitted
    BY DEF IInv, TypeOK
  <2>2. /\ queue' \in Seq(Agreements) /\ Len(queue') = Len(queue) - 1
        /\ \A i \in 1..Len(queue') : queue'[i] = queue[i + 1]
        /\ Head(queue) = queue[1] /\ 1 \in 1..Len(queue)
    BY <1>1, <2>1
  <2>3. \A i \in 1..Len(queue') : i + 1 \in 1..Len(queue)
    BY <2>1, <2>2
  <2> QED
    BY <2>1, <2>2, <2>3
<1>3. pc \in [Workers -> PCs]
      /\ held \in [Workers -> {x \in Agreements : x.hash # EmptyHash} \cup {NoMsg}]
  BY DEF IInv, TypeOK
<1>4. CASE Head(queue).hash = EmptyHash
  <2>1. pc' = pc /\ held' = held
    BY <1>4 DEF Recv
  <2>2. StoreInv'
    BY <1>1, StoreFrame
  <2> QED
    BY <1>1, <1>2, <2>1, <2>2 DEF IInv, TypeOK, StoreInv
<1>5. CASE Head(queue).hash # EmptyHash
  <2>1. pc' = [pc EXCEPT ![w] = "verify"] /\ held' = [held EXCEPT ![w] = Head(queue)]
    BY <1>5 DEF Recv
  <2>2. Head(queue) # NoMsg
    BY <1>2 DEF AccumulatorAssumption
  <2>3. TypeOK'
    BY <1>1, <1>2, <1>3, <1>5, <2>1 DEF IInv, TypeOK, PCs
  <2>4. /\ \A v \in Workers : held'[v] # NoMsg => held'[v] \in submitted'
        /\ \A v \in Workers : pc'[v] \in {"verify", "accumulate", "send"} => held'[v] # NoMsg
        /\ \A v \in Workers : pc'[v] \in {"accumulate", "send"} => held'[v] \notin Invalid
        /\ \A v \in Workers : pc'[v] = "send" => stores'[Key(held'[v])].weight >= Quorum
    BY <1>1, <1>2, <1>3, <2>1, <2>2 DEF IInv
  <2>5. StoreInv'
    BY <1>1, StoreFrame
  <2> QED
    BY <1>1, <1>2, <2>3, <2>4, <2>5 DEF IInv, StoreInv
<1> QED
  BY <1>4, <1>5

LEMMA VerifyIInv ==
  ASSUME AccumulatorAssumption, IInv, NEW w \in Workers, Verify(w)
  PROVE  IInv'
<1>1. /\ pc[w] = "verify"
      /\ pc' = [pc EXCEPT ![w] = IF held[w] \in Invalid THEN "recv" ELSE "accumulate"]
      /\ UNCHANGED <<queue, held, stores, emitted, submitted, nsub, dropped>>
  BY DEF Verify
<1>2. pc \in [Workers -> PCs]
  BY DEF IInv, TypeOK
<1>3. TypeOK'
  BY <1>1, <1>2 DEF IInv, TypeOK, PCs
<1>4. /\ \A v \in Workers : pc'[v] \in {"verify", "accumulate", "send"} => held'[v] # NoMsg
      /\ \A v \in Workers : pc'[v] \in {"accumulate", "send"} => held'[v] \notin Invalid
      /\ \A v \in Workers : pc'[v] = "send" => stores'[Key(held'[v])].weight >= Quorum
  BY <1>1, <1>2 DEF IInv
<1>5. StoreInv'
  BY <1>1, StoreFrame
<1> QED
  BY <1>1, <1>3, <1>4, <1>5 DEF IInv, StoreInv

(* A worker's message has its key among the stores'.                       *)
LEMMA HeldKey ==
  ASSUME AccumulatorAssumption, IInv, NEW w \in Workers, held[w] # NoMsg
  PROVE  /\ held[w] \in Agreements /\ Key(held[w]) \in Keys
         /\ held[w].payload \in Payloads /\ Weight[held[w].signer] \in Nat
<1>1. held[w] \in Agreements /\ held[w].hash # EmptyHash
  BY DEF IInv, TypeOK
<1>2. held[w] \in MsgRecords
  BY <1>1 DEF AccumulatorAssumption
<1> QED
  BY <1>1, <1>2 DEF MsgRecords, Key, Keys, AccumulatorAssumption

LEMMA SendIInv ==
  ASSUME AccumulatorAssumption, IInv, NEW w \in Workers, Send(w)
  PROVE  IInv'
<1> DEFINE k0 == Key(held[w])
<1>1. /\ pc[w] = "send"
      /\ emitted' = [emitted EXCEPT ![k0] = @ + 1]
      /\ pc' = [pc EXCEPT ![w] = "done"]
      /\ UNCHANGED <<queue, held, stores, submitted, nsub, dropped>>
  BY DEF Send
<1>2. k0 \in Keys /\ stores[k0].weight >= Quorum
  BY <1>1, HeldKey DEF IInv
<1>3. pc \in [Workers -> PCs] /\ emitted \in [Keys -> Nat]
  BY DEF IInv, TypeOK
<1>4. TypeOK'
  BY <1>1, <1>2, <1>3 DEF IInv, TypeOK, PCs
<1>5. \A k \in Keys : emitted'[k] > 0 => stores'[k].weight >= Quorum
  BY <1>1, <1>2, <1>3 DEF IInv
<1>6. /\ \A v \in Workers : pc'[v] \in {"verify", "accumulate", "send"} => held'[v] # NoMsg
      /\ \A v \in Workers : pc'[v] \in {"accumulate", "send"} => held'[v] \notin Invalid
      /\ \A v \in Workers : pc'[v] = "send" => stores'[Key(held'[v])].weight >= Quorum
  BY <1>1, <1>3 DEF IInv
<1>7. /\ \A k \in Keys : stores'[k].set \subseteq PV(k)'
      /\ \A k \in Keys : IsFiniteSet(stores'[k].set)
      /\ \A k \in Keys : stores'[k].weight = Sum(PW, stores'[k].set)
  <2>1. \A k : PV(k) \subseteq PV(k)'
    BY <1>1, PVFacts DEF IInv
  <2> QED
    BY <1>1, <2>1 DEF IInv
<1> QED
  BY <1>1, <1>4, <1>5, <1>6, <1>7 DEF IInv

LEMMA DropIInv ==
  ASSUME AccumulatorAssumption, IInv, Drop
  PROVE  IInv'
<1>1. /\ dropped' = TRUE /\ pc' = [v \in Workers |-> "done"]
      /\ UNCHANGED <<queue, held, stores, emitted, submitted, nsub>>
  BY DEF Drop
<1>2. TypeOK'
  <2>1. pc' \in [Workers -> PCs] /\ dropped' \in BOOLEAN
    BY <1>1 DEF PCs
  <2> QED
    BY <1>1, <2>1 DEF IInv, TypeOK
<1>3. StoreInv'
  BY <1>1, StoreFrame
<1> QED
  BY <1>1, <1>2, <1>3 DEF IInv, StoreInv

LEMMA AccumulateIInv ==
  ASSUME AccumulatorAssumption, IInv, NEW w \in Workers, Accumulate(w)
  PROVE  IInv'
<1> DEFINE hm == held[w]
           k0 == Key(hm)
           wt == Weight[hm.signer]
<1>1. /\ pc[w] = "accumulate"
      /\ UNCHANGED <<queue, held, emitted, submitted, nsub, dropped>>
  BY DEF Accumulate
<1>2. /\ hm # NoMsg /\ hm \in submitted /\ hm \notin Invalid
      /\ hm \in Agreements /\ k0 \in Keys /\ hm.payload \in Payloads /\ wt \in Nat
  BY <1>1, HeldKey DEF IInv
<1>3. /\ pc \in [Workers -> PCs]
      /\ stores \in [Keys -> [set : SUBSET Payloads, weight : Nat]]
  BY DEF IInv, TypeOK
<1>4. \A k : PV(k) = PV(k)'
  BY <1>1 DEF PV, ValidFor
<1>5. CASE wt = 0 \/ hm.payload \in stores[k0].set
  <2>1. pc' = [pc EXCEPT ![w] = "recv"] /\ stores' = stores
    BY <1>5 DEF Accumulate
  <2>2. TypeOK'
    BY <1>1, <1>3, <2>1 DEF IInv, TypeOK, PCs
  <2> QED
    BY <1>1, <1>3, <1>4, <2>1, <2>2 DEF IInv
<1>6. CASE ~(wt = 0 \/ hm.payload \in stores[k0].set)
  <2>1. /\ stores' = Added(hm, wt)
        /\ pc' = [pc EXCEPT ![w] = IF stores'[k0].weight >= Quorum THEN "send"
                                                                 ELSE "recv"]
    BY <1>6 DEF Accumulate
  <2> DEFINE S0 == stores[k0].set
             p == hm.payload
  <2>2. stores' = [stores EXCEPT ![k0] = [set |-> S0 \cup {p},
                                         weight |-> stores[k0].weight + wt]]
    BY <1>2, <1>3, <2>1 DEF Added
  <2>3. hm \in ValidFor(k0) /\ p \in PV(k0)
    BY <1>2, <1>6 DEF ValidFor, PV
  <2>4. PSigner(p) = hm.signer /\ p \in ValidPayloads
    BY <1>2, PWFacts
  <2>5. /\ IsFiniteSet(S0) /\ p \notin S0
        /\ stores[k0].weight = Sum(PW, S0)
        /\ \A i \in S0 \cup {p} : PW[i] \in Nat
    <3>1. S0 \subseteq PV(k0) /\ PV(k0) \subseteq ValidPayloads
      BY <1>2, <1>6, PVFacts DEF IInv
    <3> QED
      BY <1>2, <1>6, <2>4, <3>1, PWFacts DEF IInv
  <2>6. Sum(PW, S0 \cup {p}) = Sum(PW, S0) + wt
    <3>1. Sum(PW, S0 \cup {p}) = Sum(PW, S0) + PW[p]
      BY <2>5, SumAdd
    <3>2. PW[p] = wt
      BY <2>4 DEF PW
    <3> QED
      BY <3>1, <3>2
  <2>7. \A k \in Keys : stores'[k].weight >= stores[k].weight
    BY <1>2, <1>3, <2>2
  <2>8. TypeOK'
    <3>1. stores' \in [Keys -> [set : SUBSET Payloads, weight : Nat]]
      BY <1>2, <1>3, <2>2
    <3>2. pc' \in [Workers -> PCs]
      BY <1>3, <2>1 DEF PCs
    <3> QED
      BY <1>1, <3>1, <3>2 DEF IInv, TypeOK
  <2>9. /\ \A k \in Keys : stores'[k].set \subseteq PV(k)'
        /\ \A k \in Keys : IsFiniteSet(stores'[k].set)
        /\ \A k \in Keys : stores'[k].weight = Sum(PW, stores'[k].set)
    <3>1. IsFiniteSet(S0 \cup {p})
      BY <2>5, FS_AddElement
    <3> QED
      BY <1>2, <1>3, <1>4, <2>2, <2>3, <2>6, <3>1 DEF IInv
  <2>10. \A k \in Keys : emitted'[k] > 0 => stores'[k].weight >= Quorum
    <3>1. ASSUME NEW k \in Keys, emitted'[k] > 0
          PROVE  stores'[k].weight >= Quorum
      <4>1. stores[k].weight >= Quorum
        BY <1>1, <3>1 DEF IInv
      <4>2. stores[k].weight \in Nat /\ stores'[k].weight \in Nat /\ Quorum \in Nat
        BY <1>3, <2>8 DEF TypeOK, AccumulatorAssumption
      <4> QED
        BY <2>7, <4>1, <4>2
    <3> QED
      BY <3>1
  <2>11. \A v \in Workers : pc'[v] = "send" => stores'[Key(held'[v])].weight >= Quorum
    <3>1. ASSUME NEW v \in Workers, pc'[v] = "send"
          PROVE  stores'[Key(held'[v])].weight >= Quorum
      <4>1. CASE v = w
        BY <1>1, <1>3, <2>1, <3>1, <4>1
      <4>2. CASE v # w
        <5>1. pc[v] = "send"
          BY <1>3, <2>1, <3>1, <4>2
        <5>2. Key(held[v]) \in Keys /\ stores[Key(held[v])].weight >= Quorum
          BY <5>1, HeldKey DEF IInv
        <5>3. Key(held'[v]) = Key(held[v])
          BY <1>1
        <5>4. stores[Key(held[v])].weight \in Nat /\ stores'[Key(held[v])].weight \in Nat
              /\ Quorum \in Nat
          BY <1>3, <2>8, <5>2 DEF TypeOK, AccumulatorAssumption
        <5> QED
          BY <2>7, <5>2, <5>3, <5>4
      <4> QED
        BY <4>1, <4>2
    <3> QED
      BY <3>1
  <2>12. /\ \A v \in Workers : pc'[v] \in {"verify", "accumulate", "send"} => held'[v] # NoMsg
         /\ \A v \in Workers : pc'[v] \in {"accumulate", "send"} => held'[v] \notin Invalid
    BY <1>1, <1>2, <1>3, <2>1 DEF IInv
  <2> QED
    BY <1>1, <2>8, <2>9, <2>10, <2>11, <2>12 DEF IInv
<1> QED
  BY <1>5, <1>6

LEMMA NextIInv ==
  ASSUME AccumulatorAssumption
  PROVE  IInv /\ [Next]_vars => IInv'
<1> SUFFICES ASSUME IInv, [Next]_vars PROVE IInv'
  OBVIOUS
<1>1. CASE \E m \in Agreements : Process(m)
  BY <1>1, ProcessIInv
<1>2. ASSUME NEW w \in Workers, WorkerStep(w) PROVE IInv'
  <2>1. CASE Recv(w)
    BY <2>1, RecvIInv
  <2>2. CASE Verify(w)
    BY <2>2, VerifyIInv
  <2>3. CASE Accumulate(w)
    BY <2>3, AccumulateIInv
  <2>4. CASE Send(w)
    BY <2>4, SendIInv
  <2> QED
    BY <1>2, <2>1, <2>2, <2>3, <2>4 DEF WorkerStep
<1>3. CASE Drop
  BY <1>3, DropIInv
<1>4. CASE UNCHANGED vars
  <2>1. \A k : PV(k) = PV(k)'
    BY <1>4 DEF vars, PV, ValidFor
  <2> QED
    BY <1>4, <2>1 DEF vars, IInv, TypeOK
<1> QED
  BY <1>1, <1>2, <1>3, <1>4 DEF Next

LEMMA IInvHolds ==
  ASSUME AccumulatorAssumption
  PROVE  Spec => []IInv
<1>1. Init => IInv
  BY InitIInv
<1>2. IInv /\ [Next]_vars => IInv'
  BY NextIInv
<1> QED
  BY <1>1, <1>2, PTL DEF Spec

-----------------------------------------------------------------------------
(* PayloadWeight(k), the weight the property counts, is the sum of PW over *)
(* the valid payloads of key k: the signer it chooses for a payload is the *)
(* one PW takes, since a valid payload has a single signer.                *)

(* The weight PayloadWeight gives a payload, and the function its fold     *)
(* defines.                                                                *)
LW(k, p) == Weight[(CHOOSE m \in ValidFor(k) : m.payload = p).signer]

PWFold(k) ==
  CHOOSE g : g = [s \in SUBSET PV(k) |->
                   IF s = {} THEN 0 ELSE LW(k, Pick(s)) + g[s \ {Pick(s)}]]

LEMMA PayloadWeightIsFold ==
  ASSUME NEW k
  PROVE  PayloadWeight(k) = PWFold(k)[PV(k)]
BY DEF PayloadWeight, MapThenSumSet, MapThenFoldSet, PWFold, LW, Pick, PV

LEMMA LWFacts ==
  ASSUME AccumulatorAssumption, TypeOK, IsFiniteSet(submitted), NEW k
  PROVE  /\ IsFiniteSet(PV(k))
         /\ \A p \in PV(k) : LW(k, p) = PW[p] /\ PW[p] \in Nat
<1>1. IsFiniteSet(ValidFor(k))
  <2>1. ValidFor(k) \subseteq submitted
    BY DEF ValidFor
  <2> QED
    BY <2>1, FS_Subset
<1>2. IsFiniteSet(PV(k))
  <2>1. [m \in ValidFor(k) |-> m.payload] \in Surjection(ValidFor(k), PV(k))
    BY DEF Surjection, PV
  <2> QED
    BY <1>1, <2>1, FS_Surjection
<1>3. ASSUME NEW p \in PV(k) PROVE LW(k, p) = PW[p] /\ PW[p] \in Nat
  <2>1. \E m \in ValidFor(k) : m.payload = p
    BY DEF PV
  <2>2. LET m == CHOOSE m \in ValidFor(k) : m.payload = p
        IN  m \in Agreements \ Invalid /\ m.payload = p
    BY <2>1 DEF ValidFor, TypeOK
  <2>3. PSigner(p) = (CHOOSE m \in ValidFor(k) : m.payload = p).signer
        /\ p \in ValidPayloads
    BY <2>2, PWFacts
  <2>4. PW[p] \in Nat
    BY <2>3, PWFacts
  <2> QED
    BY <2>3, <2>4 DEF LW, PW
<1> QED
  BY <1>2, <1>3

LEMMA PayloadWeightSum ==
  ASSUME AccumulatorAssumption, TypeOK, IsFiniteSet(submitted), NEW k
  PROVE  PayloadWeight(k) = Sum(PW, PV(k))
<1> DEFINE U == PV(k)
           F == FoldOf(PW, U)
<1>1. IsFiniteSet(U) /\ \A p \in U : LW(k, p) = PW[p] /\ PW[p] \in Nat
  BY LWFacts
<1>2. IsFold(PW, U, F)
  BY <1>1, FoldOfIsFold
<1>3. \A s \in SUBSET U : s # {} => Pick(s) \in s
  BY DEF Pick
<1>4. F = [s \in SUBSET U |-> IF s = {} THEN 0 ELSE LW(k, Pick(s)) + F[s \ {Pick(s)}]]
  BY <1>1, <1>2, <1>3 DEF IsFold, Unfold
<1>5. PWFold(k) = [s \in SUBSET U |->
                    IF s = {} THEN 0 ELSE LW(k, Pick(s)) + PWFold(k)[s \ {Pick(s)}]]
  BY <1>4 DEF PWFold
<1>6. IsFoldOn(PW, U, PWFold(k))
  BY <1>1, <1>3, <1>5 DEF IsFoldOn, Unfold
<1>7. IsFoldOn(PW, U, F)
  BY <1>2 DEF IsFold, IsFoldOn
<1>8. PWFold(k)[U] = F[U]
  BY <1>1, <1>6, <1>7, FoldAgree
<1>9. F[U] = Sum(PW, U)
  BY <1>1, FoldAtSubset
<1> QED
  BY <1>8, <1>9, PayloadWeightIsFold

-----------------------------------------------------------------------------
(* Safety of accumulate() for every pool of workers, set of messages and   *)
(* committee: CollectedVotes for a key is only sent when verified committee *)
(* votes of distinct payloads for that key carry the quorum weight         *)
(* (accumulator.rs, accumulate() and the worker loop).  The stored weight  *)
(* that passed the quorum test is the sum over the stored payloads, and    *)
(* those are among the valid payloads submitted for the key.               *)
THEOREM CollectedBackedByQuorumHolds ==
  ASSUME AccumulatorAssumption
  PROVE  Spec => []CollectedBackedByQuorum
<1>1. IInv => CollectedBackedByQuorum
  <2> SUFFICES ASSUME IInv, NEW k \in Keys, emitted[k] > 0
               PROVE  PayloadWeight(k) >= Quorum
    BY DEF CollectedBackedByQuorum
  <2>1. /\ stores[k].weight >= Quorum
        /\ stores[k].weight = Sum(PW, stores[k].set)
        /\ stores[k].set \subseteq PV(k)
    BY DEF IInv
  <2>2. /\ PayloadWeight(k) = Sum(PW, PV(k))
        /\ IsFiniteSet(PV(k)) /\ \A p \in PV(k) : PW[p] \in Nat
    BY PayloadWeightSum, LWFacts DEF IInv
  <2>3. Sum(PW, stores[k].set) <= Sum(PW, PV(k))
    BY <2>1, <2>2, SumMono
  <2>4. Sum(PW, stores[k].set) \in Nat /\ Sum(PW, PV(k)) \in Nat /\ Quorum \in Nat
    <3>1. IsFiniteSet(stores[k].set)
      BY <2>1, <2>2, FS_Subset
    <3> QED
      BY <2>1, <2>2, <3>1, SumNat DEF AccumulatorAssumption
  <2> QED
    BY <2>1, <2>2, <2>3, <2>4
<1> QED
  BY <1>1, IInvHolds, PTL

=============================================================================
