---------------------------- MODULE TokenBucket ----------------------------
(***************************************************************************)
(* What the rate limiter of agent/pkg/api/api.go promises: every client    *)
(* has a bucket of its own that starts full, gains Rps tokens a second,    *)
(* and is asked for one token by each request.  Nothing is ever forgotten. *)
(***************************************************************************)
EXTENDS Integers

CONSTANTS Clients,   \* the remote addresses
          Rps,       \* tokens a bucket gains in a second
          Burst      \* tokens a bucket holds at most

VARIABLES level,     \* the tokens in each client's bucket
          answer     \* the answer to each client's last request

bucketVars == <<level, answer>>

Filled(tokens) == IF tokens > Burst THEN Burst ELSE tokens

Init ==
  /\ level = [c \in Clients |-> Burst]
  /\ answer = [c \in Clients |-> "none"]

Serve(c) ==
  /\ level[c] >= 1
  /\ level' = [level EXCEPT ![c] = @ - 1]
  /\ answer' = [answer EXCEPT ![c] = "served"]

Refuse(c) ==
  /\ level[c] < 1
  /\ answer' = [answer EXCEPT ![c] = "refused"]
  /\ UNCHANGED level

Second ==
  /\ level' = [c \in Clients |-> Filled(level[c] + Rps)]
  /\ UNCHANGED answer

Next == Second \/ \E c \in Clients : Serve(c) \/ Refuse(c)

Spec == Init /\ [][Next]_bucketVars

=============================================================================
