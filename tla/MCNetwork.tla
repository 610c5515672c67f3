----------------------------- MODULE MCNetwork -----------------------------
(* A consumer topic and the response topic of send_and_wait.              *)
EXTENDS Network, TLC

CONSTANTS tc, tr

MCTopics == {tc, tr}

=============================================================================
