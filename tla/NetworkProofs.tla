---------------------------- MODULE NetworkProofs ----------------------------
(***************************************************************************)
(* Proofs about the routing of network.rs: the routes, the queues, the    *)
(* spawned sender tasks and the wrapping pending_senders counter stay      *)
(* well-formed for every set of topics, capacity, counter width and bound. *)
(***************************************************************************)
EXTENDS Network, TLAPS

(* The counter's modulus is a positive natural.                            *)
LEMMA ModulusPositive == Modulus \in Nat \ {0} /\ MaxPending < Modulus
BY NetworkAssumption DEF Modulus

(* The inductive invariant: TypeOK, and while send_and_wait runs, the     *)
(* number of its call names a temporary queue.  SawAdd routes the         *)
(* response topic to that queue and SawRecv takes from it, so TypeOK      *)
(* alone is not preserved.                                                 *)
IInv ==
  /\ TypeOK
  /\ pc # "idle" => call \in 1..MaxCalls

LEMMA InitIInv == Init => IInv
BY NetworkAssumption, ModulusPositive DEF Init, IInv, TypeOK, QueueIds

(* An element of a sequence, and the tail of a non-empty one.             *)
LEMMA SeqElem ==
  ASSUME NEW S, NEW s \in Seq(S)
  PROVE  /\ \A i \in 1..Len(s) : s[i] \in S
         /\ s # << >> => Tail(s) \in Seq(S)
OBVIOUS

(* Removing the i-th spawned task leaves a sequence of tasks.              *)
LEMMA RemoveAt ==
  ASSUME NEW S, NEW s \in Seq(S), NEW i \in 1..Len(s)
  PROVE  [j \in 1..(Len(s) - 1) |-> IF j < i THEN s[j] ELSE s[j + 1]] \in Seq(S)
<1>1. Len(s) - 1 \in Nat
  OBVIOUS
<1>2. \A j \in 1..(Len(s) - 1) : (IF j < i THEN s[j] ELSE s[j + 1]) \in S
  OBVIOUS
<1> QED
  BY <1>1, <1>2

LEMMA NextIInv == IInv /\ [Next]_vars => IInv'
<1> SUFFICES ASSUME IInv, [Next]_vars PROVE IInv'
  OBVIOUS
<1> USE NetworkAssumption, ModulusPositive DEF IInv, TypeOK, QueueIds
<1>1. ASSUME NEW t \in Topics, OnMessage(t) PROVE IInv'
  BY <1>1 DEF OnMessage
<1>2. ASSUME NEW t \in Topics, RouteInternal(t) PROVE IInv'
  BY <1>2 DEF RouteInternal
<1>3. ASSUME NEW t \in Topics, Consume(t) PROVE IInv'
  BY <1>3 DEF Consume
<1>4. ASSUME NEW i \in 1..Len(senders), SenderRun(i) PROVE IInv'
  <2> DEFINE s == senders[i]
             q == routes[s.topic]
  <2>1. s \in [topic : Topics, msg : 1..MaxArrivals, counted : BOOLEAN]
    BY SeqElem
  <2>2. senders' \in Seq([topic : Topics, msg : 1..MaxArrivals, counted : BOOLEAN])
    BY <1>4, RemoveAt DEF SenderRun
  <2>3. queues' \in [QueueIds -> Seq(1..MaxArrivals)]
    <3>1. q \in QueueIds \cup {None}
      BY <2>1
    <3>2. CASE q # None /\ Len(queues[q]) < Cap(q)
      <4>1. Append(queues[q], s.msg) \in Seq(1..MaxArrivals)
        BY <2>1, <3>1, <3>2
      <4> QED
        BY <1>4, <3>1, <3>2, <4>1 DEF SenderRun
    <3>3. CASE ~(q # None /\ Len(queues[q]) < Cap(q))
      BY <1>4, <3>3 DEF SenderRun
    <3> QED
      BY <3>2, <3>3
  <2>4. pending' \in 0..(Modulus - 1)
    BY <1>4 DEF SenderRun
  <2> QED
    BY <1>4, <2>2, <2>3, <2>4 DEF SenderRun
<1>5. CASE SawRemove
  BY <1>5 DEF SawRemove
<1>6. CASE SawAdd
  BY <1>6 DEF SawAdd
<1>7. CASE SawSend \/ SawSendFail
  BY <1>7 DEF SawSend, SawSendFail
<1>8. CASE SawRecv
  <2>1. call \in 1..MaxCalls /\ queues[call] # << >>
    BY <1>8 DEF SawRecv
  <2>2. Tail(queues[call]) \in Seq(1..MaxArrivals)
    BY <2>1, SeqElem
  <2> QED
    BY <1>8, <2>1, <2>2 DEF SawRecv
<1>9. CASE SawTimeout \/ SawCleanup
  BY <1>9 DEF SawTimeout, SawCleanup
<1>10. CASE UNCHANGED vars
  BY <1>10 DEF vars
<1> QED
  BY <1>1, <1>2, <1>3, <1>4, <1>5, <1>6, <1>7, <1>8, <1>9, <1>10
     DEF Next, SendAndWait

(* Type correctness of the routing: the routes name registered queues,    *)
(* every queue holds received messages, and pending_senders stays a       *)
(* Width-bit value however its fetch_sub wraps (network.rs:49-58).         *)
THEOREM TypeCorrect == Spec => []TypeOK
<1>1. Init => IInv
  BY InitIInv
<1>2. IInv /\ [Next]_vars => IInv'
  BY NextIInv
<1>3. IInv => TypeOK
  BY DEF IInv
<1> QED
  BY <1>1, <1>2, <1>3, PTL DEF Spec

=============================================================================
