---------------------------- MODULE RateLimiter ----------------------------
(***************************************************************************)
(* RateLimitMiddleware (agent/pkg/api/api.go 75-126): a map from remote    *)
(* address to a golang.org/x/time limiter, filled by the requests and      *)
(* swept by a goroutine that every five minutes deletes the clients it has *)
(* not seen for five minutes.  Map, limiters and sweep share one mutex, so *)
(* a request's lookup and a whole sweep are one step each.                 *)
(*                                                                         *)
(* A limiter refills lazily: it keeps the tokens it had at its last        *)
(* successful Allow and computes what has come in since.  A tick is one    *)
(* second.                                                                 *)
(***************************************************************************)
EXTENDS Integers

CONSTANTS
  Clients,      \* remote addresses
  Rps,          \* RATE_LIMIT_RPS
  IdleLimit     \* five minutes, the sweep's period and its threshold

Burst == 2 * Rps

\* getEnvInt takes no rate below one.  Five minutes are more than the two seconds an
\* empty bucket takes to fill, at any rate.
ASSUME LimiterAssumption ==
  /\ Rps \in Nat \ {0}
  /\ IdleLimit \in Nat
  /\ IdleLimit >= 2

VARIABLES
  clients,    \* the addresses with an entry
  tokens,     \* limiter.tokens of each entry
  since,      \* seconds since limiter.last, up to IdleLimit
  idle,       \* seconds since the entry's lastSeen
  nap,        \* seconds until the sweeper wakes
  answer      \* the answer to each address's last request

limiters == <<clients, tokens, since, idle>>
vars == <<clients, tokens, since, idle, nap, answer>>

-----------------------------------------------------------------------------
\* Mutant: what has come in since is not capped by the burst.
AvailableUncapped(c) == IF c \notin clients THEN Burst ELSE tokens[c] + Rps * since[c]

\* limiter.advance: the lazy refill.  A new limiter starts full.
Available(c) ==
  IF c \notin clients \/ tokens[c] + Rps * since[c] > Burst
  THEN Burst
  ELSE tokens[c] + Rps * since[c]

Init ==
  /\ clients = {}
  /\ tokens = [c \in Clients |-> 0]
  /\ since = [c \in Clients |-> 0]
  /\ idle = [c \in Clients |-> 0]
  /\ nap = IdleLimit
  /\ answer = [c \in Clients |-> "none"]

\* Every request, answered or not, creates the entry and renews lastSeen.
Seen(c) ==
  /\ clients' = clients \cup {c}
  /\ idle' = [idle EXCEPT ![c] = 0]

\* Allow takes a token and moves limiter.last: the request goes on.
Serve(c) ==
  /\ Available(c) >= 1
  /\ Seen(c)
  /\ tokens' = [tokens EXCEPT ![c] = Available(c) - 1]
  /\ since' = [since EXCEPT ![c] = 0]
  /\ answer' = [answer EXCEPT ![c] = "served"]
  /\ UNCHANGED nap

\* 429.  A limiter that refuses keeps its tokens and limiter.last.
Refuse(c) ==
  /\ Available(c) < 1
  /\ Seen(c)
  /\ answer' = [answer EXCEPT ![c] = "refused"]
  /\ UNCHANGED <<tokens, since, nap>>

\* Mutant: the sweep also takes clients seen within the five minutes.
StaleSoon == {c \in clients : idle[c] >= 1}

\* Mutant: the sweep compares with twice its period.
StaleLate == {c \in clients : idle[c] > 2 * IdleLimit}

Stale == {c \in clients : idle[c] > IdleLimit}

\* The sweeper: sleep, lock, delete, unlock.
Sweep ==
  /\ nap = 0
  /\ nap' = IdleLimit
  /\ clients' = clients \ Stale
  /\ tokens' = [c \in Clients |-> IF c \in Stale THEN 0 ELSE tokens[c]]
  /\ since' = [c \in Clients |-> IF c \in Stale THEN 0 ELSE since[c]]
  /\ idle' = [c \in Clients |-> IF c \in Stale THEN 0 ELSE idle[c]]
  /\ UNCHANGED answer

\* A second passes; a sweeper that should wake does so within it.
Tick ==
  /\ nap > 0
  /\ nap' = nap - 1
  /\ since' = [c \in Clients |->
       IF c \in clients /\ since[c] < IdleLimit THEN since[c] + 1 ELSE since[c]]
  /\ idle' = [c \in Clients |-> IF c \in clients THEN idle[c] + 1 ELSE idle[c]]
  /\ UNCHANGED <<clients, tokens, answer>>

Next == Tick \/ Sweep \/ \E c \in Clients : Serve(c) \/ Refuse(c)

Spec == Init /\ [][Next]_vars

-----------------------------------------------------------------------------
TypeOK ==
  /\ clients \subseteq Clients
  /\ tokens \in [Clients -> 0..Burst]
  /\ since \in [Clients -> 0..IdleLimit]
  /\ idle \in [Clients -> Nat]
  /\ nap \in 0..IdleLimit
  /\ answer \in [Clients -> {"none", "served", "refused"}]

\* The map cannot grow without end (the sweep of api.go 83-94): an entry that no
\* request has renewed is gone after two sweep periods.
EntriesAreForgotten == \A c \in clients : idle[c] <= 2 * IdleLimit

\* The lazy refills and the deletion of idle entries are invisible: every request is
\* answered as by a bucket that is never deleted and filled every second.  Deleting
\* an entry gives its client a full bucket back, which it must have had by then.
Bucket == INSTANCE TokenBucket WITH level <- [c \in Clients |-> Available(c)]

ActsAsBucket == Bucket!Spec

=============================================================================
