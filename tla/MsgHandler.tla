----------------------------- MODULE MsgHandler -----------------------------
(***************************************************************************)
(* Admission of consensus messages (src/consensus/src/msg_handler.rs), the *)
(* RoundUpdate a consensus round is run with (src/consensus/src/commons.rs) *)
(* and the window in which the Acceptor enqueues a consensus message for   *)
(* the running task (reroute_msg, src/node/src/chain/acceptor.rs).         *)
(*                                                                         *)
(* All three are pure: they are operators here, used by the module that   *)
(* composes them with the Accumulator (Consensus).  A message is a record  *)
(* of its signer (or NoSigner when get_signer gives None), the round,      *)
(* iteration and step of its ConsensusHeader, prev_block_hash, the voted   *)
(* block hash and its payload.  A block is a record of height and hash.    *)
(***************************************************************************)
EXTENDS Naturals

CONSTANTS
  NoSigner   \* get_signer() of a message that carries no signer

(* StepName, in the order of the steps of an iteration.                   *)
StepOrder == [Proposal |-> 0, Validation |-> 1, Ratification |-> 2]

(***************************************************************************)
(* Message::compare (not under src/; spec 4.3): the message's header is    *)
(* compared with (round, iteration, step) in that order.                   *)
(***************************************************************************)
Compare(m, round, iteration, step) ==
  LET mine == <<m.round, m.iteration, StepOrder[m.step]>>
      cur  == <<round, iteration, StepOrder[step]>>
      Less(x, y) == \/ x[1] < y[1]
                    \/ x[1] = y[1] /\ x[2] < y[2]
                    \/ x[1] = y[1] /\ x[2] = y[2] /\ x[3] < y[3]
  IN IF Less(mine, cur) THEN "Past"
     ELSE IF mine = cur THEN "Present"
     ELSE "Future"

(* RoundUpdate::new: the round after the tip, on the tip's hash.          *)
RoundUpdateNew(tip) == [round |-> tip.height + 1, hash |-> tip.hash]

(* Mutant: the prev_block_hash check is lost.                             *)
IsValidNoPrevCheck(m, ru, iteration, step, committee, verified) ==
  IF m.signer = NoSigner THEN "InvalidMsgType"
  ELSE CASE Compare(m, ru.round, iteration, step) = "Past"   -> "PastEvent"
         [] Compare(m, ru.round, iteration, step) = "Future" -> "FutureEvent"
         [] OTHER ->
              IF m.signer \notin committee THEN "NotCommitteeMember"
              ELSE IF m \notin verified THEN "InvalidSignature"
              ELSE "Ok"

(***************************************************************************)
(* MsgHandler::is_valid: "Ok" or the ConsensusError it returns.  The       *)
(* signer is required first; a message of the present round, iteration    *)
(* and step must build on the round's tip and come from a member of the   *)
(* step's committee, and is then handed to the phase's verify (verified). *)
(***************************************************************************)
IsValid(m, ru, iteration, step, committee, verified) ==
  IF m.signer = NoSigner THEN "InvalidMsgType"
  ELSE CASE Compare(m, ru.round, iteration, step) = "Past"   -> "PastEvent"
         [] Compare(m, ru.round, iteration, step) = "Future" -> "FutureEvent"
         [] OTHER ->
              IF m.prev # ru.hash THEN "InvalidPrevBlockHash"
              ELSE IF m.signer \notin committee THEN "NotCommitteeMember"
              ELSE IF m \notin verified THEN "InvalidSignature"
              ELSE "Ok"

(* reroute_msg: a Candidate, Validation or Ratification message is queued  *)
(* for the consensus task only when its round is within 10 of the local   *)
(* tip's height.                                                           *)
EnableEnqueue(m, currTip) == m.round >= currTip /\ m.round < currTip + 10

=============================================================================
