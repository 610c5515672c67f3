--------------------------- MODULE ConsensusProofs ---------------------------
(***************************************************************************)
(* Proofs about one consensus step (Consensus): the composed state stays   *)
(* well-typed, and is_valid in front of the Accumulator keeps out of its   *)
(* stores everything but verified committee votes of the present round,    *)
(* iteration and step on the task's tip, for every set of messages,        *)
(* workers, weights and capacity.  The step implements the Accumulator's  *)
(* specification, so the Accumulator's quorum theorem (AccumulatorProofs) *)
(* holds of the Accumulator the task runs.                                 *)
(***************************************************************************)
EXTENDS Consensus, TLAPS

(* The messages is_valid admits, among those reroute_msg has received.   *)
CurrentMsgs ==
  {m \in received \cap Verified :
     /\ m.signer \in Committee
     /\ <<m.round, m.iteration, m.step>> = <<ru.round, Iteration, Step>>
     /\ m.prev = Tip.hash}

Admitted == {Project(m) : m \in CurrentMsgs}

(* The inductive invariant.  Besides the type and the property, it says    *)
(* that main_inbound holds received messages, that a worker past recv      *)
(* holds a message, and that the channel and the workers carry only        *)
(* admitted agreements.                                                    *)
IInv ==
  /\ TypeOK
  /\ \A i \in 1..Len(inbound) : inbound[i] \in received
  /\ \A w \in Workers : pc[w] \in {"verify", "accumulate", "send"} => held[w] # NoMsg
  /\ \A w \in Workers : held[w] # NoMsg => held[w] \in Admitted
  /\ \A i \in 1..Len(queue) : queue[i] \in Admitted
  /\ StoredFromCurrentTip

-----------------------------------------------------------------------------
(* What is_valid admits: a signed message of the present round, iteration *)
(* and step, built on the round's tip, from a committee member, verified. *)
LEMMA IsValidOk ==
  ASSUME NEW m \in Inbound,
         IsValid(m, ru, Iteration, Step, Committee, Verified) = "Ok"
  PROVE  /\ m.signer # NoSigner
         /\ m.signer \in Committee
         /\ m \in Verified
         /\ <<m.round, m.iteration, m.step>> = <<ru.round, Iteration, Step>>
         /\ m.prev = Tip.hash
<1>1. m.signer # NoSigner
  BY DEF IsValid
<1>2. Compare(m, ru.round, Iteration, Step) \in {"Past", "Present", "Future"}
  BY DEF Compare
<1>3. Compare(m, ru.round, Iteration, Step) = "Present"
  BY <1>1, <1>2 DEF IsValid
<1>4. m.prev = ru.hash /\ m.signer \in Committee /\ m \in Verified
  BY <1>1, <1>3 DEF IsValid
<1>5. <<m.round, m.iteration, StepOrder[m.step]>>
        = <<ru.round, Iteration, StepOrder[Step]>>
  BY <1>3 DEF Compare
<1>6. m.step = Step
  BY <1>5, ConsensusAssumption DEF StepOrder
<1>7. ru.hash = Tip.hash
  BY DEF ru, RoundUpdateNew
<1> QED
  BY <1>1, <1>4, <1>5, <1>6, <1>7

(* The constants' facts the proofs use, from the Accumulator's assumption. *)
LEMMA AccFacts ==
  /\ {Project(m) : m \in Signed} \subseteq Acc!MsgRecords
  /\ Weight \in [Signers -> Nat]
  /\ NoMsg \notin Acc!MsgRecords
BY ConsensusAssumption DEF Acc!AccumulatorAssumption

LEMMA BoundsNat == MaxArrivals \in Nat /\ InboundCap \in Nat
BY ConsensusAssumption

(* The tail of a non-empty sequence: one shorter, shifted by one.        *)
LEMMA TailFacts ==
  ASSUME NEW S, NEW s \in Seq(S), s # << >>
  PROVE  /\ Tail(s) \in Seq(S) /\ Len(Tail(s)) = Len(s) - 1
         /\ \A i \in 1..Len(Tail(s)) : Tail(s)[i] = s[i + 1]
         /\ Head(s) = s[1] /\ 1 \in 1..Len(s)
OBVIOUS

(* Receiving more messages admits more.                                    *)
LEMMA CurrentGrows ==
  ASSUME received \subseteq received'
  PROVE  /\ Admitted \subseteq Admitted'
         /\ \A k : CurrentVotes(k) \subseteq CurrentVotes(k)'
BY DEF Admitted, CurrentMsgs, CurrentVotes

LEMMA InitIInv == Init => IInv
<1> SUFFICES ASSUME Init PROVE IInv
  OBVIOUS
<1>1. Acc!TypeOK
  <2>1. queue \in Seq({Project(m) : m \in Signed}) /\ submitted = {}
    BY DEF Init, Acc!Init
  <2>2. pc \in [Workers -> Acc!PCs]
    BY DEF Init, Acc!Init, Acc!PCs
  <2>3. held \in [Workers -> {m \in {Project(m) : m \in Signed} : m.hash # EmptyHash}
                               \cup {NoMsg}]
    BY DEF Init, Acc!Init
  <2>4. stores \in [Acc!Keys -> [set : SUBSET Payloads, weight : Nat]]
        /\ emitted \in [Acc!Keys -> Nat]
    BY DEF Init, Acc!Init
  <2>5. nsub \in 0..MaxArrivals /\ dropped \in BOOLEAN
    <3>1. nsub = 0 /\ dropped = FALSE
      BY DEF Init, Acc!Init
    <3>2. nsub \in 0..MaxArrivals
      BY <3>1, BoundsNat
    <3>3. dropped \in BOOLEAN
      BY <3>1
    <3> QED
      BY <3>2, <3>3
  <2> QED
    BY <2>1, <2>2, <2>3, <2>4, <2>5 DEF Acc!TypeOK
<1>2. StoredFromCurrentTip
  BY DEF Init, Acc!Init, StoredFromCurrentTip
<1> QED
  BY <1>1, <1>2, BoundsNat DEF Init, Acc!Init, IInv, TypeOK

-----------------------------------------------------------------------------
(* One lemma per action of Next.                                           *)

LEMMA RerouteIInv ==
  ASSUME IInv, NEW m \in Inbound, RerouteMsg(m) PROVE IInv'
<1>1. received \subseteq received' /\ m \in received'
  BY DEF RerouteMsg
<1>2. /\ inbound' \in Seq(Inbound) /\ Len(inbound') <= InboundCap
      /\ \A i \in 1..Len(inbound') : inbound'[i] \in received'
  BY <1>1, BoundsNat DEF RerouteMsg, IInv, TypeOK
<1>3. arrivals' \in 0..MaxArrivals /\ received' \subseteq Inbound
  BY BoundsNat DEF RerouteMsg, IInv, TypeOK
<1>4. UNCHANGED accVars
  BY DEF RerouteMsg
<1>5. Admitted \subseteq Admitted' /\ \A k : CurrentVotes(k) \subseteq CurrentVotes(k)'
  BY <1>1, CurrentGrows
<1>6. StoredFromCurrentTip'
  BY <1>4, <1>5 DEF IInv, StoredFromCurrentTip, accVars
<1>7. Acc!TypeOK'
  BY <1>4 DEF IInv, TypeOK, Acc!TypeOK, accVars
<1> QED
  BY <1>2, <1>3, <1>4, <1>5, <1>6, <1>7 DEF IInv, TypeOK, accVars

LEMMA HandleIInv ==
  ASSUME IInv, HandleMsg PROVE IInv'
<1> DEFINE m == Head(inbound)
<1>1. /\ inbound # << >> /\ inbound' = Tail(inbound)
      /\ received' = received /\ arrivals' = arrivals
  BY DEF HandleMsg
<1>0. inbound \in Seq(Inbound) /\ Len(inbound) <= InboundCap
      /\ \A i \in 1..Len(inbound) : inbound[i] \in received
  BY DEF IInv, TypeOK
<1>2. m \in Inbound /\ m \in received
  BY <1>0, <1>1, TailFacts
<1>3. /\ inbound' \in Seq(Inbound) /\ Len(inbound') <= InboundCap
      /\ \A i \in 1..Len(inbound') : inbound'[i] \in received'
      /\ received' \subseteq Inbound /\ arrivals' \in 0..MaxArrivals
  <2>1. /\ inbound' \in Seq(Inbound) /\ Len(inbound') = Len(inbound) - 1
        /\ \A i \in 1..Len(inbound') : inbound'[i] = inbound[i + 1]
    BY <1>0, <1>1, TailFacts
  <2>2. received' \subseteq Inbound /\ arrivals' \in 0..MaxArrivals
    BY <1>1 DEF IInv, TypeOK
  <2>3. \A i \in 1..Len(inbound') : i + 1 \in 1..Len(inbound)
    BY <1>0, <2>1
  <2>4. \A i \in 1..Len(inbound') : inbound'[i] \in received
    BY <1>0, <2>1, <2>3
  <2> QED
    BY <1>0, <1>1, <2>1, <2>2, <2>4, BoundsNat
<1>4. Admitted' = Admitted /\ \A k : CurrentVotes(k)' = CurrentVotes(k)
  BY <1>1 DEF Admitted, CurrentMsgs, CurrentVotes
<1>5. CASE IsValid(m, ru, Iteration, Step, Committee, Verified) = "Ok"
  <2>1. /\ queue' = Append(queue, Project(m))
        /\ submitted' = submitted \cup {Project(m)}
        /\ nsub < MaxArrivals /\ nsub' = nsub + 1
        /\ UNCHANGED <<pc, held, stores, emitted, dropped>>
    BY <1>5 DEF HandleMsg, Acc!Process
  <2>2. Project(m) \in Admitted
    BY <1>2, <1>5, IsValidOk DEF Admitted, CurrentMsgs
  <2>3. Project(m) \in {Project(x) : x \in Signed}
    BY <1>2, <1>5, IsValidOk DEF Signed
  <2>4. /\ queue' \in Seq({Project(x) : x \in Signed})
        /\ submitted' \subseteq {Project(x) : x \in Signed}
    BY <2>1, <2>3 DEF IInv, TypeOK, Acc!TypeOK
  <2>5. nsub' \in 0..MaxArrivals
    BY <2>1, BoundsNat DEF IInv, TypeOK, Acc!TypeOK
  <2>6. Acc!TypeOK'
    BY <2>1, <2>4, <2>5 DEF IInv, TypeOK, Acc!TypeOK
  <2>7. \A i \in 1..Len(queue') : queue'[i] \in Admitted'
    BY <1>4, <2>1, <2>2 DEF IInv, TypeOK, Acc!TypeOK
  <2>8. StoredFromCurrentTip'
    BY <1>4, <2>1 DEF IInv, StoredFromCurrentTip
  <2> QED
    BY <1>3, <1>4, <2>1, <2>6, <2>7, <2>8 DEF IInv, TypeOK
<1>6. CASE IsValid(m, ru, Iteration, Step, Committee, Verified) # "Ok"
  <2>1. UNCHANGED accVars
    BY <1>6 DEF HandleMsg
  <2>2. Acc!TypeOK'
    BY <2>1 DEF IInv, TypeOK, Acc!TypeOK, accVars
  <2>3. StoredFromCurrentTip'
    BY <1>4, <2>1 DEF IInv, StoredFromCurrentTip, accVars
  <2> QED
    BY <1>3, <1>4, <2>1, <2>2, <2>3 DEF IInv, TypeOK, accVars
<1> QED
  BY <1>5, <1>6

(* A message a worker holds: an admitted agreement for a non-empty hash,  *)
(* with its key, payload and weight typed.                                 *)
LEMMA HeldFacts ==
  ASSUME IInv, NEW w \in Workers, held[w] # NoMsg
  PROVE  /\ held[w] \in {Project(x) : x \in Signed}
         /\ held[w].hash # EmptyHash
         /\ held[w] \in Admitted
         /\ Acc!Key(held[w]) \in Acc!Keys
         /\ held[w].payload \in Payloads
         /\ Weight[held[w].signer] \in Nat
<1>1. held[w] \in {Project(x) : x \in Signed} /\ held[w].hash # EmptyHash
  BY DEF IInv, TypeOK, Acc!TypeOK
<1>2. held[w] \in Admitted
  BY DEF IInv
<1>3. PICK x \in Signed : held[w] = Project(x)
  BY <1>1
<1>4. held[w] \in Acc!MsgRecords
  BY <1>1, AccFacts
<1>5. held[w].step \in {y.step : y \in Inbound}
  BY <1>3 DEF Project, Signed
<1>6. held[w].hash \in Hashes
  BY <1>1, <1>4 DEF Acc!MsgRecords
<1>7. Acc!Key(held[w]) \in Acc!Keys
  BY <1>5, <1>6 DEF Acc!Key, Acc!Keys
<1>8. held[w].payload \in Payloads /\ held[w].signer \in Signers
  BY <1>4 DEF Acc!MsgRecords
<1>9. Weight[held[w].signer] \in Nat
  BY <1>8, AccFacts
<1> QED
  BY <1>1, <1>2, <1>7, <1>8, <1>9

(* A step of the Accumulator alone keeps main_inbound's part of IInv and  *)
(* what is admitted.                                                       *)
LEMMA AccFrame ==
  ASSUME IInv, UNCHANGED <<inbound, received, arrivals>>
  PROVE  /\ inbound' \in Seq(Inbound) /\ Len(inbound') <= InboundCap
         /\ received' \subseteq Inbound /\ arrivals' \in 0..MaxArrivals
         /\ \A i \in 1..Len(inbound') : inbound'[i] \in received'
         /\ Admitted' = Admitted
         /\ \A k : CurrentVotes(k)' = CurrentVotes(k)
<1>1. inbound' = inbound /\ received' = received /\ arrivals' = arrivals
  OBVIOUS
<1>2. Admitted' = Admitted /\ \A k : CurrentVotes(k)' = CurrentVotes(k)
  BY <1>1 DEF Admitted, CurrentMsgs, CurrentVotes
<1> QED
  BY <1>1, <1>2 DEF IInv, TypeOK

LEMMA RecvIInv ==
  ASSUME IInv, NEW w \in Workers, Acc!Recv(w),
         UNCHANGED <<inbound, received, arrivals>>
  PROVE  IInv'
<1> DEFINE hd == Head(queue)
           Agr == {Project(x) : x \in Signed}
<1>1. /\ queue # << >> /\ queue' = Tail(queue) /\ pc[w] = "recv"
      /\ UNCHANGED <<stores, emitted, submitted, nsub, dropped>>
  BY DEF Acc!Recv
<1>2. queue \in Seq(Agr) /\ \A i \in 1..Len(queue) : queue[i] \in Admitted
  BY DEF IInv, TypeOK, Acc!TypeOK
<1>3. /\ queue' \in Seq(Agr)
      /\ \A i \in 1..Len(queue') : queue'[i] \in Admitted
      /\ hd \in Agr /\ hd \in Admitted
  <2>1. /\ queue' \in Seq(Agr) /\ Len(queue') = Len(queue) - 1
        /\ \A i \in 1..Len(queue') : queue'[i] = queue[i + 1]
        /\ hd = queue[1] /\ 1 \in 1..Len(queue)
    BY <1>1, <1>2, TailFacts
  <2>2. \A i \in 1..Len(queue') : i + 1 \in 1..Len(queue)
    BY <1>2, <2>1
  <2> QED
    BY <1>2, <2>1, <2>2
<1>4. hd # NoMsg
  BY <1>3, AccFacts
<1>5. /\ pc' \in [Workers -> Acc!PCs]
      /\ held' \in [Workers -> {x \in Agr : x.hash # EmptyHash} \cup {NoMsg}]
      /\ \A v \in Workers : pc'[v] \in {"verify", "accumulate", "send"}
                               => held'[v] # NoMsg
      /\ \A v \in Workers : held'[v] # NoMsg => held'[v] \in Admitted
  <2>1. CASE hd.hash = EmptyHash
    <3>1. pc' = pc /\ held' = held
      BY <2>1 DEF Acc!Recv
    <3> QED
      BY <3>1 DEF IInv, TypeOK, Acc!TypeOK
  <2>2. CASE hd.hash # EmptyHash
    <3>1. pc' = [pc EXCEPT ![w] = "verify"] /\ held' = [held EXCEPT ![w] = hd]
      BY <2>2 DEF Acc!Recv
    <3>2. pc' \in [Workers -> Acc!PCs]
      BY <3>1 DEF IInv, TypeOK, Acc!TypeOK, Acc!PCs
    <3>3. held' \in [Workers -> {x \in Agr : x.hash # EmptyHash} \cup {NoMsg}]
      BY <1>3, <2>2, <3>1 DEF IInv, TypeOK, Acc!TypeOK
    <3>4. \A v \in Workers : pc'[v] \in {"verify", "accumulate", "send"}
                              => held'[v] # NoMsg
      BY <1>4, <3>1 DEF IInv, TypeOK, Acc!TypeOK
    <3>5. \A v \in Workers : held'[v] # NoMsg => held'[v] \in Admitted
      BY <1>3, <3>1 DEF IInv, TypeOK, Acc!TypeOK
    <3> QED
      BY <3>2, <3>3, <3>4, <3>5
  <2> QED
    BY <2>1, <2>2
<1>6. Acc!TypeOK'
  BY <1>1, <1>3, <1>5 DEF IInv, TypeOK, Acc!TypeOK
<1>7. StoredFromCurrentTip'
  BY <1>1, AccFrame DEF IInv, StoredFromCurrentTip
<1> QED
  BY <1>3, <1>5, <1>6, <1>7, AccFrame DEF IInv, TypeOK

LEMMA VerifyIInv ==
  ASSUME IInv, NEW w \in Workers, Acc!Verify(w),
         UNCHANGED <<inbound, received, arrivals>>
  PROVE  IInv'
<1>1. /\ pc[w] = "verify"
      /\ \E r \in {"recv", "accumulate"} : pc' = [pc EXCEPT ![w] = r]
      /\ UNCHANGED <<queue, held, stores, emitted, submitted, nsub, dropped>>
  BY DEF Acc!Verify
<1>2. pc \in [Workers -> Acc!PCs]
  BY DEF IInv, TypeOK, Acc!TypeOK
<1>3. PICK r \in {"recv", "accumulate"} : pc' = [pc EXCEPT ![w] = r]
  BY <1>1
<1>4. held[w] # NoMsg
  BY <1>1 DEF IInv
<1>5. pc' \in [Workers -> Acc!PCs]
  BY <1>2, <1>3 DEF Acc!PCs
<1>6. \A v \in Workers : pc'[v] \in {"verify", "accumulate", "send"}
                          => held'[v] # NoMsg
  BY <1>2, <1>1, <1>3, <1>4 DEF IInv
<1>7. Acc!TypeOK'
  BY <1>1, <1>5 DEF IInv, TypeOK, Acc!TypeOK
<1>8. StoredFromCurrentTip'
  BY <1>1, AccFrame DEF IInv, StoredFromCurrentTip
<1> QED
  BY <1>1, <1>6, <1>7, <1>8, AccFrame DEF IInv, TypeOK

LEMMA SendIInv ==
  ASSUME IInv, NEW w \in Workers, Acc!Send(w),
         UNCHANGED <<inbound, received, arrivals>>
  PROVE  IInv'
<1>1. /\ pc[w] = "send"
      /\ emitted' = [emitted EXCEPT ![Acc!Key(held[w])] = @ + 1]
      /\ pc' = [pc EXCEPT ![w] = "done"]
      /\ UNCHANGED <<queue, held, stores, submitted, nsub, dropped>>
  BY DEF Acc!Send
<1>2. Acc!Key(held[w]) \in Acc!Keys
  BY <1>1, HeldFacts DEF IInv
<1>3. emitted' \in [Acc!Keys -> Nat] /\ pc' \in [Workers -> Acc!PCs]
  BY <1>1, <1>2 DEF IInv, TypeOK, Acc!TypeOK, Acc!PCs
<1>4. \A v \in Workers : pc'[v] \in {"verify", "accumulate", "send"}
                          => held'[v] # NoMsg
  BY <1>1 DEF IInv
<1>5. Acc!TypeOK'
  BY <1>1, <1>3 DEF IInv, TypeOK, Acc!TypeOK
<1>6. StoredFromCurrentTip'
  BY <1>1, AccFrame DEF IInv, StoredFromCurrentTip
<1> QED
  BY <1>1, <1>4, <1>5, <1>6, AccFrame DEF IInv, TypeOK

LEMMA AbortIInv ==
  ASSUME IInv, Abort PROVE IInv'
<1>1. /\ ~dropped /\ dropped' = TRUE /\ pc' = [v \in Workers |-> "done"]
      /\ UNCHANGED <<queue, held, stores, emitted, submitted, nsub>>
      /\ UNCHANGED <<inbound, received, arrivals>>
  BY DEF Abort, Acc!Drop
<1>2. pc' \in [Workers -> Acc!PCs] /\ dropped' \in BOOLEAN
  BY <1>1 DEF Acc!PCs
<1>3. Acc!TypeOK'
  BY <1>1, <1>2 DEF IInv, TypeOK, Acc!TypeOK
<1>4. StoredFromCurrentTip'
  BY <1>1, AccFrame DEF IInv, StoredFromCurrentTip
<1> QED
  BY <1>1, <1>3, <1>4, AccFrame DEF IInv, TypeOK

LEMMA AccumulateIInv ==
  ASSUME IInv, NEW w \in Workers, Acc!Accumulate(w),
         UNCHANGED <<inbound, received, arrivals>>
  PROVE  IInv'
<1> DEFINE hm == held[w]
           k0 == Acc!Key(hm)
           wt == Weight[hm.signer]
<1>1. /\ pc[w] = "accumulate"
      /\ \E r \in {"recv", "send"} : pc' = [pc EXCEPT ![w] = r]
      /\ stores' = stores \/ stores' = Acc!Added(hm, wt)
      /\ UNCHANGED <<queue, held, emitted, submitted, nsub, dropped>>
  BY DEF Acc!Accumulate
<1>2. /\ hm \in Admitted /\ k0 \in Acc!Keys
      /\ hm.payload \in Payloads /\ wt \in Nat
  BY <1>1, HeldFacts DEF IInv
<1>3. pc \in [Workers -> Acc!PCs]
      /\ stores \in [Acc!Keys -> [set : SUBSET Payloads, weight : Nat]]
  BY DEF IInv, TypeOK, Acc!TypeOK
<1>4. PICK r \in {"recv", "send"} : pc' = [pc EXCEPT ![w] = r]
  BY <1>1
<1>5. pc' \in [Workers -> Acc!PCs]
  BY <1>3, <1>4 DEF Acc!PCs
<1>6. \A v \in Workers : pc'[v] \in {"verify", "accumulate", "send"}
                          => held'[v] # NoMsg
  BY <1>1, <1>3, <1>4 DEF IInv
<1>7. PICK x \in CurrentMsgs : hm = Project(x)
  BY <1>2 DEF Admitted
<1>8. x \in CurrentVotes(k0) /\ x.payload = hm.payload
  BY <1>7 DEF CurrentMsgs, CurrentVotes, Acc!Key, Project
<1>9. /\ stores' \in [Acc!Keys -> [set : SUBSET Payloads, weight : Nat]]
      /\ StoredFromCurrentTip'
  <2>1. \A k : CurrentVotes(k)' = CurrentVotes(k)
    BY AccFrame
  <2>2. CASE stores' = stores
    BY <1>3, <2>1, <2>2 DEF IInv, StoredFromCurrentTip
  <2>3. CASE stores' = Acc!Added(hm, wt)
    <3>1. stores' = [stores EXCEPT ![k0] = [set |-> stores[k0].set \cup {hm.payload},
                                           weight |-> stores[k0].weight + wt]]
      BY <1>2, <1>3, <2>3 DEF Acc!Added
    <3>2. stores' \in [Acc!Keys -> [set : SUBSET Payloads, weight : Nat]]
      BY <1>2, <1>3, <3>1
    <3>3. ASSUME NEW k \in Acc!Keys, NEW p \in stores'[k].set
          PROVE  \E y \in CurrentVotes(k)' : y.payload = p
      <4>1. CASE k = k0 /\ p = hm.payload
        BY <1>8, <2>1, <4>1
      <4>2. CASE ~(k = k0 /\ p = hm.payload)
        <5>1. p \in stores[k].set
          BY <1>3, <3>1, <4>2
        <5> QED
          BY <2>1, <5>1 DEF IInv, StoredFromCurrentTip
      <4> QED
        BY <4>1, <4>2
    <3> QED
      BY <3>2, <3>3 DEF StoredFromCurrentTip
  <2> QED
    BY <1>1, <2>2, <2>3
<1>10. Acc!TypeOK'
  BY <1>1, <1>5, <1>9 DEF IInv, TypeOK, Acc!TypeOK
<1> QED
  BY <1>1, <1>6, <1>9, <1>10, AccFrame DEF IInv, TypeOK

LEMMA NextIInv == IInv /\ [Next]_vars => IInv'
<1> SUFFICES ASSUME IInv, [Next]_vars PROVE IInv'
  OBVIOUS
<1>1. ASSUME NEW m \in Inbound, RerouteMsg(m) PROVE IInv'
  BY <1>1, RerouteIInv
<1>2. CASE HandleMsg
  BY <1>2, HandleIInv
<1>3. ASSUME NEW w \in Workers, Worker(w) PROVE IInv'
  <2>1. UNCHANGED <<inbound, received, arrivals>>
    BY <1>3 DEF Worker
  <2>2. Acc!Recv(w) \/ Acc!Verify(w) \/ Acc!Accumulate(w) \/ Acc!Send(w)
    BY <1>3 DEF Worker, Acc!WorkerStep
  <2> QED
    BY <2>1, <2>2, RecvIInv, VerifyIInv, AccumulateIInv, SendIInv
<1>4. CASE Abort
  BY <1>4, AbortIInv
<1>5. CASE UNCHANGED vars
  <2>1. UNCHANGED <<inbound, received, arrivals>> /\ UNCHANGED accVars
    BY <1>5 DEF vars
  <2>2. Acc!TypeOK' /\ StoredFromCurrentTip'
    BY <2>1, AccFrame DEF IInv, TypeOK, Acc!TypeOK, StoredFromCurrentTip, accVars
  <2> QED
    BY <2>1, <2>2, AccFrame DEF IInv, TypeOK, accVars
<1> QED
  BY <1>1, <1>2, <1>3, <1>4, <1>5 DEF Next

LEMMA IInvHolds == Spec => []IInv
BY InitIInv, NextIInv, PTL DEF Spec

-----------------------------------------------------------------------------
(* Type correctness of the consensus step, for every set of messages,     *)
(* workers and weights: main_inbound stays within its capacity and holds  *)
(* delivered messages, and the Accumulator's channel, workers and stores  *)
(* stay well-formed: what is_valid admits is always a signed agreement    *)
(* (msg_handler.rs, accumulator.rs).                                       *)
THEOREM TypeCorrect == Spec => []TypeOK
BY IInvHolds, PTL DEF IInv

(* is_valid in front of accumulate(), for every instance: every payload   *)
(* the Accumulator has stored under a (hash, step) came from a verified    *)
(* vote of a committee member for the present round, iteration and step, *)
(* built on the task's tip, so a vote for a fork or of another round never *)
(* reaches the stores (msg_handler.rs:32-71, accumulator.rs).            *)
THEOREM StoredFromCurrentTipInvariant == Spec => []StoredFromCurrentTip
BY IInvHolds, PTL DEF IInv

-----------------------------------------------------------------------------
(* The consensus step implements the Accumulator's specification on its    *)
(* own variables: reroute_msg leaves the Accumulator alone, what is_valid  *)
(* admits is handed to process() as a signed agreement, and the workers   *)
(* and the abort are the Accumulator's own steps.                          *)

LEMMA InitAcc == Init => Acc!Init
BY DEF Init

LEMMA NextAcc == TypeOK /\ [Next]_vars => [Acc!Next]_(Acc!vars)
<1> SUFFICES ASSUME TypeOK, [Next]_vars PROVE [Acc!Next]_(Acc!vars)
  OBVIOUS
<1>1. ASSUME NEW m \in Inbound, RerouteMsg(m) PROVE UNCHANGED Acc!vars
  BY <1>1 DEF RerouteMsg, accVars, Acc!vars
<1>2. CASE HandleMsg
  <2> DEFINE m == Head(inbound)
  <2>1. inbound # << >> /\ m \in Inbound
    BY <1>2 DEF HandleMsg, TypeOK
  <2>2. CASE IsValid(m, ru, Iteration, Step, Committee, Verified) = "Ok"
    <3>1. m \in Signed
      BY <2>1, <2>2, IsValidOk DEF Signed
    <3>2. Project(m) \in {Project(x) : x \in Signed}
      BY <3>1
    <3>3. Acc!Process(Project(m))
      BY <1>2, <2>2 DEF HandleMsg
    <3> QED
      BY <3>2, <3>3 DEF Acc!Next
  <2>3. CASE IsValid(m, ru, Iteration, Step, Committee, Verified) # "Ok"
    BY <1>2, <2>3 DEF HandleMsg, accVars, Acc!vars
  <2> QED
    BY <2>2, <2>3
<1>3. ASSUME NEW w \in Workers, Worker(w) PROVE Acc!Next
  BY <1>3 DEF Worker, Acc!Next
<1>4. CASE Abort
  BY <1>4 DEF Abort, Acc!Next
<1>5. CASE UNCHANGED vars
  BY <1>5 DEF vars, accVars, Acc!vars
<1> QED
  BY <1>1, <1>2, <1>3, <1>4, <1>5 DEF Next

(* The composed consensus step behaves as the Accumulator specification    *)
(* says, for every instance: what the Accumulator's proofs establish holds *)
(* of the Accumulator the consensus task runs (msg_handler.rs, handle_msg  *)
(* in front of accumulator.rs).                                            *)
THEOREM AccumulatorRefinement == Spec => Acc!Spec
BY InitAcc, NextAcc, TypeCorrect, PTL DEF Spec, Acc!Spec

(* The Accumulator's proofs, for the Accumulator the consensus task runs.  *)
AccP == INSTANCE AccumulatorProofs
          WITH Agreements <- {Project(m) : m \in Signed},
               Invalid    <- {Project(m) : m \in Signed \ Verified},
               Steps      <- {m.step : m \in Inbound},
               MaxSubmit  <- MaxArrivals

(* The instance of the Accumulator's proofs describes the same            *)
(* Accumulator as Acc, and its constants satisfy its assumption.           *)
LEMMA AccPAssumption == AccP!AccumulatorAssumption
BY ConsensusAssumption DEF AccP!AccumulatorAssumption, Acc!AccumulatorAssumption,
                           AccP!MsgRecords, Acc!MsgRecords, AccP!IsFiniteSet,
                           Acc!IsFiniteSet

LEMMA AccPSpec == Acc!Spec => AccP!Spec
<1>1. AccP!Init <=> Acc!Init
  BY DEF AccP!Init, Acc!Init, AccP!Keys, Acc!Keys
<1>2. AccP!Next <=> Acc!Next
  BY DEF AccP!Next, Acc!Next, AccP!Process, Acc!Process, AccP!WorkerStep,
         Acc!WorkerStep, AccP!Recv, Acc!Recv, AccP!Verify, Acc!Verify,
         AccP!Accumulate, Acc!Accumulate, AccP!Added, Acc!Added, AccP!Send,
         Acc!Send, AccP!Drop, Acc!Drop, AccP!Key, Acc!Key
<1>3. [AccP!Next]_(AccP!vars) <=> [Acc!Next]_(Acc!vars)
  BY <1>2 DEF AccP!vars, Acc!vars
<1> QED
  BY <1>1, <1>3, PTL DEF AccP!Spec, Acc!Spec

(* Safety of the consensus step, for every instance: CollectedVotes for a  *)
(* (hash, step) only leaves the task when the verified committee votes of  *)
(* distinct payloads that is_valid admitted for it carry the quorum weight *)
(* (msg_handler.rs is_valid, accumulator.rs accumulate()).                 *)
THEOREM CollectedBackedByQuorumInvariant == Spec => []CollectedBackedByQuorum
<1>1. AccP!Spec => []AccP!CollectedBackedByQuorum
  BY AccPAssumption, AccP!CollectedBackedByQuorumHolds
<1>2. AccP!CollectedBackedByQuorum <=> Acc!CollectedBackedByQuorum
  BY DEF AccP!CollectedBackedByQuorum, Acc!CollectedBackedByQuorum,
         AccP!PayloadWeight, Acc!PayloadWeight, AccP!ValidFor, Acc!ValidFor,
         AccP!Keys, Acc!Keys, AccP!Key, Acc!Key, AccP!MapThenSumSet,
         Acc!MapThenSumSet, AccP!MapThenFoldSet, Acc!MapThenFoldSet
<1> QED
  BY <1>1, <1>2, AccPSpec, AccumulatorRefinement, PTL DEF CollectedBackedByQuorum

=============================================================================
