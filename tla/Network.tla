------------------------------ MODULE Network ------------------------------
(***************************************************************************)
(* Message routing of the node's Kadcast network (src/node/src/network.rs): *)
(* on_message reroutes an inbound message through a spawned sender task   *)
(* to the queue registered for its topic, counting the tasks in            *)
(* pending_senders; send_and_wait swaps the route of the response topic    *)
(* for a temporary bounded(2) queue, sends the request and waits for a     *)
(* response or its deadline.                                               *)
(*                                                                         *)
(* A message is named by its arrival number; wire decoding, filters that   *)
(* pass, metrics and the peers themselves are left out.  The upper-layer  *)
(* consumer of each topic owns the queue named after the topic.            *)
(***************************************************************************)
EXTENDS Naturals, Sequences

CONSTANTS
  Topics,       \* message topics with a route
  Resp,         \* the response topic of send_and_wait
  MaxPending,   \* MAX_PENDING_SENDERS
  Width,        \* bit width of the pending_senders counter (64 in the code)
  MainCap,      \* capacity of a consumer's queue
  MaxArrivals,  \* bound on the number of inbound messages
  MaxCalls,     \* bound on the number of send_and_wait calls
  None          \* an empty route

ASSUME NetworkAssumption ==
  /\ Resp \in Topics
  /\ MaxPending \in Nat /\ Width \in Nat \ {0} /\ MaxPending < 2^Width
  /\ MainCap \in Nat /\ MaxArrivals \in Nat /\ MaxCalls \in Nat
  /\ None \notin Topics \cup Nat

(* AsyncQueue::bounded(2, "temp_queue")                                   *)
TempCap == 2

(* The consumers' queues, named by topic, and one temporary queue per     *)
(* send_and_wait call, named by the call's number.                         *)
QueueIds == Topics \cup (1..MaxCalls)

Cap(q) == IF q \in Topics THEN MainCap ELSE TempCap

Modulus == 2^Width

VARIABLES
  routes,    \* Listener.routes: topic -> queue or None
  queues,    \* contents of every queue (arrival numbers)
  pending,   \* Listener.pending_senders
  senders,   \* spawned sender tasks not yet run: [topic, msg, counted]
  arrived,   \* number of messages received so far
  pc,        \* where send_and_wait is
  call       \* number of the current or last send_and_wait call

vars == <<routes, queues, pending, senders, arrived, pc, call>>

TypeOK ==
  /\ routes \in [Topics -> QueueIds \cup {None}]
  /\ queues \in [QueueIds -> Seq(1..MaxArrivals)]
  /\ pending \in 0..(Modulus - 1)
  /\ senders \in Seq([topic : Topics, msg : 1..MaxArrivals, counted : BOOLEAN])
  /\ arrived \in 0..MaxArrivals
  /\ pc \in {"idle", "add", "send", "wait", "cleanup"}
  /\ call \in 0..MaxCalls

(* Kadcast::new and the consumers' add_route at start-up.                 *)
Init ==
  /\ routes = [t \in Topics |-> t]
  /\ queues = [q \in QueueIds |-> << >>]
  /\ pending = 0
  /\ senders = << >>
  /\ arrived = 0
  /\ pc = "idle"
  /\ call = 0

(* on_message then reroute: fetch_add on the counter, reset to 0 when it  *)
(* was at MAX_PENDING_SENDERS or above, and spawn the sender task.         *)
OnMessage(t) ==
  /\ arrived < MaxArrivals
  /\ arrived' = arrived + 1
  /\ pending' = IF pending >= MaxPending THEN 0 ELSE (pending + 1) % Modulus
  /\ senders' = Append(senders, [topic |-> t, msg |-> arrived + 1, counted |-> TRUE])
  /\ UNCHANGED <<routes, queues, pc, call>>

(* route_internal: a message of the node itself gets a sender task that   *)
(* is not counted in pending_senders.                                      *)
RouteInternal(t) ==
  /\ arrived < MaxArrivals
  /\ arrived' = arrived + 1
  /\ senders' = Append(senders, [topic |-> t, msg |-> arrived + 1, counted |-> FALSE])
  /\ UNCHANGED <<routes, queues, pending, pc, call>>

(* Mutant: fetch_sub taken as a subtraction that cannot wrap.             *)
SenderRunNoWrap(i) ==
  LET s == senders[i]
      q == routes[s.topic]
  IN /\ queues' = IF q # None /\ Len(queues[q]) < Cap(q)
                    THEN [queues EXCEPT ![q] = Append(@, s.msg)]
                    ELSE queues
     /\ senders' = [j \in 1..(Len(senders) - 1) |->
                      IF j < i THEN senders[j] ELSE senders[j + 1]]
     /\ pending' = IF s.counted THEN pending - 1 ELSE pending
     /\ UNCHANGED <<routes, arrived, pc, call>>

(* The sender task: it reads the route when it runs, try_send drops the   *)
(* message when the queue is full, and the fetch_sub of a reroute task    *)
(* wraps.                                                                  *)
SenderRun(i) ==
  LET s == senders[i]
      q == routes[s.topic]
  IN /\ queues' = IF q # None /\ Len(queues[q]) < Cap(q)
                    THEN [queues EXCEPT ![q] = Append(@, s.msg)]
                    ELSE queues
     /\ senders' = [j \in 1..(Len(senders) - 1) |->
                      IF j < i THEN senders[j] ELSE senders[j + 1]]
     /\ pending' = IF s.counted THEN (pending + Modulus - 1) % Modulus ELSE pending
     /\ UNCHANGED <<routes, arrived, pc, call>>

(* The upper layer takes a message from its queue.                         *)
Consume(t) ==
  /\ queues[t] # << >>
  /\ queues' = [queues EXCEPT ![t] = Tail(@)]
  /\ UNCHANGED <<routes, pending, senders, arrived, pc, call>>

(* send_and_wait: remove_route of the response topic.                     *)
SawRemove ==
  /\ pc = "idle"
  /\ call < MaxCalls
  /\ routes' = [routes EXCEPT ![Resp] = None]
  /\ call' = call + 1
  /\ pc' = "add"
  /\ UNCHANGED <<queues, pending, senders, arrived>>

(* add_route of the fresh temporary queue (the route is None, so the      *)
(* debug_assert holds).                                                    *)
SawAdd ==
  /\ pc = "add"
  /\ routes' = [routes EXCEPT ![Resp] = call]
  /\ pc' = "send"
  /\ UNCHANGED <<queues, pending, senders, arrived, call>>

(* send_to_alive_peers succeeds.                                          *)
SawSend ==
  /\ pc = "send"
  /\ pc' = "wait"
  /\ UNCHANGED <<routes, queues, pending, senders, arrived, call>>

(* send_to_alive_peers fails to encode: `?` returns at once.               *)
SawSendFail ==
  /\ pc = "send"
  /\ pc' = "idle"
  /\ UNCHANGED <<routes, queues, pending, senders, arrived, call>>

(* queue.recv() yields a response before the deadline.                     *)
SawRecv ==
  /\ pc = "wait"
  /\ queues[call] # << >>
  /\ queues' = [queues EXCEPT ![call] = Tail(@)]
  /\ pc' = "cleanup"
  /\ UNCHANGED <<routes, pending, senders, arrived, call>>

(* Mutant: recv() is awaited without timeout_at.                           *)
SawTimeoutMissing ==
  /\ pc = "wait"
  /\ FALSE
  /\ UNCHANGED vars

(* timeout_at expires: anyhow::bail! returns from send_and_wait at once.  *)
SawTimeout ==
  /\ pc = "wait"
  /\ pc' = "idle"
  /\ UNCHANGED <<routes, queues, pending, senders, arrived, call>>

(* The final remove_route after a response.                                *)
SawCleanup ==
  /\ pc = "cleanup"
  /\ routes' = [routes EXCEPT ![Resp] = None]
  /\ pc' = "idle"
  /\ UNCHANGED <<queues, pending, senders, arrived, call>>

SendAndWait ==
  SawRemove \/ SawAdd \/ SawSend \/ SawSendFail \/ SawRecv \/ SawTimeout \/ SawCleanup

Next ==
  \/ \E t \in Topics : OnMessage(t) \/ RouteInternal(t) \/ Consume(t)
  \/ \E i \in 1..Len(senders) : SenderRun(i)
  \/ SendAndWait

Spec == Init /\ [][Next]_vars

(* tokio runs every spawned sender task, and the caller of send_and_wait  *)
(* is resumed by its response or by the deadline of timeout_at.            *)
FairSpec ==
  /\ Spec
  /\ WF_vars(\E i \in 1..Len(senders) : SenderRun(i))
  /\ WF_vars(SawAdd) /\ WF_vars(SawSend \/ SawSendFail)
  /\ WF_vars(SawRecv \/ SawTimeout) /\ WF_vars(SawCleanup)

-----------------------------------------------------------------------------
(* Every call of send_and_wait returns, with a response or an error,      *)
(* whatever the peers answer: the deadline of timeout_at bounds the wait.  *)
SendAndWaitReturns == (pc # "idle") ~> (pc = "idle")

(* The comment at the temporary route: it is unregistered when            *)
(* send_and_wait is left, so no later message of the response topic goes  *)
(* to the queue of a call that has returned.                               *)
TempRouteUnregistered == pc = "idle" => routes[Resp] \notin 1..MaxCalls

=============================================================================
