------------------------- MODULE RateLimiterProofs -------------------------
(***************************************************************************)
(* RateLimiter for any addresses, any rate and any sweep period of at      *)
(* least the two seconds an empty bucket takes to fill.                    *)
(*                                                                         *)
(* That a deletion is invisible is not inductive: it needs that an entry   *)
(* idle for as long as the sweep asks has not taken a token for as long,   *)
(* and is full by then (LazyClock, FullWhenIdle).                          *)
(***************************************************************************)
EXTENDS RateLimiter, TLAPS

\* An entry's limiter.last is no younger than its lastSeen, as far as it is counted.
LazyClock == \A c \in clients : since[c] = IdleLimit \/ since[c] >= idle[c]

\* An entry survives one sweep only if it was young enough at it.
SweepInTime == \A c \in clients : idle[c] + nap <= 2 * IdleLimit

Inv == TypeOK /\ LazyClock /\ SweepInTime

\* Two facts about products, which the solver does not find by itself.
LEMMA Refill ==
  ASSUME NEW s \in Nat
  PROVE  Rps * s \in Nat /\ Rps * (s + 1) = Rps * s + Rps
  BY LimiterAssumption

LEMMA IdleFills == Rps * IdleLimit >= Burst
<1>1. PICK k \in Nat : IdleLimit = 2 + k
  <2>1. IdleLimit - 2 \in Nat /\ IdleLimit = 2 + (IdleLimit - 2)
    BY LimiterAssumption
  <2>2. QED
    BY <2>1
<1>2. Rps * (2 + k) = 2 * Rps + Rps * k /\ Rps * k \in Nat
  BY <1>1, LimiterAssumption
<1>3. QED
  BY <1>1, <1>2, LimiterAssumption DEF Burst

\* What a limiter can hand out is between nothing and the burst.
LEMMA AvailableBounds ==
  ASSUME TypeOK, NEW c \in Clients
  PROVE  Available(c) \in 0..Burst
<1>1. since[c] \in Nat /\ tokens[c] \in 0..Burst
  BY LimiterAssumption DEF TypeOK
<1>2. Rps * since[c] \in Nat
  BY <1>1, Refill
<1>3. QED
  BY <1>1, <1>2, LimiterAssumption DEF Available, Burst

LEMMA InitInv == Init => Inv
  BY LimiterAssumption DEF Init, Inv, TypeOK, LazyClock, SweepInTime, Burst

\* The strengthened invariant is preserved by every step.
LEMMA StepInv == Inv /\ [Next]_vars => Inv'
<1> SUFFICES ASSUME Inv, [Next]_vars
             PROVE  Inv'
  OBVIOUS
<1> USE LimiterAssumption DEF Inv, TypeOK, LazyClock, SweepInTime
<1>1. ASSUME NEW c \in Clients, Serve(c)
      PROVE  Inv'
  <2>1. Available(c) - 1 \in 0..Burst
    BY <1>1, AvailableBounds DEF Serve, Burst
  <2>2. TypeOK'
    BY <1>1, <2>1 DEF Serve, Seen
  <2>3. LazyClock' /\ SweepInTime'
    BY <1>1 DEF Serve, Seen
  <2>4. QED
    BY <2>2, <2>3
<1>2. ASSUME NEW c \in Clients, Refuse(c)
      PROVE  Inv'
  <2>1. c \in clients
    BY <1>2 DEF Refuse, Available, Burst
  <2>2. TypeOK'
    BY <1>2 DEF Refuse, Seen
  <2>3. LazyClock' /\ SweepInTime'
    BY <1>2, <2>1 DEF Refuse, Seen
  <2>4. QED
    BY <2>2, <2>3
<1>3. CASE Sweep
  <2>1. TypeOK'
    BY <1>3 DEF Sweep, Burst
  <2>2. LazyClock'
    BY <1>3 DEF Sweep
  <2>3. SweepInTime'
    BY <1>3 DEF Sweep, Stale
  <2>4. QED
    BY <2>1, <2>2, <2>3
<1>4. CASE Tick
  <2>1. TypeOK'
    BY <1>4 DEF Tick
  <2>2. LazyClock'
    BY <1>4 DEF Tick
  <2>3. SweepInTime'
    BY <1>4 DEF Tick
  <2>4. QED
    BY <2>1, <2>2, <2>3
<1>5. CASE UNCHANGED vars
  BY <1>5 DEF vars
<1>6. QED
  BY <1>1, <1>2, <1>3, <1>4, <1>5 DEF Next

\* The strengthened invariant holds in every reachable state of the limiter.
THEOREM Invariance == Spec => []Inv
  BY InitInv, StepInv, PTL DEF Spec

\* Every entry, limiter and answer has its type: no limiter of api.go's map ever
\* holds more than the burst, nor a negative number of tokens.
THEOREM TypeCorrect == Spec => []TypeOK
  BY Invariance, PTL DEF Inv

\* No entry outlives two periods of the sweeper of api.go 83-94 without a request.
THEOREM MapIsSwept == Spec => []EntriesAreForgotten
<1>1. Inv => EntriesAreForgotten
  BY LimiterAssumption DEF Inv, TypeOK, SweepInTime, EntriesAreForgotten
<1>2. QED
  BY <1>1, Invariance, PTL

-----------------------------------------------------------------------------
\* The refinement.

\* A second adds Rps tokens to every bucket, up to the burst.
LEMMA TickFills ==
  ASSUME Inv, Tick, NEW c \in Clients
  PROVE  Available(c)' = Bucket!Filled(Available(c) + Rps)
<1> USE LimiterAssumption DEF Inv, TypeOK
<1>1. CASE c \notin clients
  BY <1>1 DEF Tick, Available, Bucket!Filled, Burst
<1>2. CASE c \in clients /\ since[c] < IdleLimit
  <2>1. since[c] \in Nat /\ tokens[c] \in Nat
    BY DEF Burst
  <2>2. Rps * since[c] \in Nat /\ Rps * (since[c] + 1) = Rps * since[c] + Rps
    BY <2>1, Refill
  <2>3. c \in clients' /\ tokens'[c] = tokens[c] /\ since'[c] = since[c] + 1
    BY <1>2 DEF Tick
  <2>4. Available(c)' = IF tokens[c] + (Rps * since[c] + Rps) > Burst
                        THEN Burst ELSE tokens[c] + (Rps * since[c] + Rps)
    BY <2>2, <2>3 DEF Available, Burst
  <2>5. QED
    BY <1>2, <2>1, <2>2, <2>4 DEF Available, Bucket!Filled, Burst
<1>3. CASE c \in clients /\ since[c] = IdleLimit
  <2>1. tokens[c] \in Nat /\ Rps * IdleLimit \in Nat
    BY Refill DEF Burst
  <2>2. c \in clients' /\ tokens'[c] = tokens[c] /\ since'[c] = IdleLimit
    BY <1>3 DEF Tick
  <2>3. Available(c) = Burst /\ Available(c)' = Burst
    BY <1>3, <2>1, <2>2, IdleFills DEF Available, Burst
  <2>4. QED
    BY <2>3 DEF Bucket!Filled, Burst
<1>4. QED
  BY <1>1, <1>2, <1>3

\* An entry that the sweep deletes is a full bucket.
LEMMA FullWhenIdle ==
  ASSUME Inv, NEW c \in Stale
  PROVE  Available(c) = Burst
<1>1. c \in clients /\ since[c] = IdleLimit /\ tokens[c] \in Nat
  BY LimiterAssumption DEF Inv, TypeOK, LazyClock, Stale, Burst
<1>2. Rps * IdleLimit \in Nat
  BY Refill, LimiterAssumption
<1>3. QED
  BY <1>1, <1>2, IdleFills, LimiterAssumption DEF Available, Burst

\* Each step is a step of the bucket, or none.
LEMMA StepRefines == Inv /\ [Next]_vars => [Bucket!Next]_Bucket!bucketVars
<1> SUFFICES ASSUME Inv, [Next]_vars
             PROVE  [Bucket!Next]_Bucket!bucketVars
  OBVIOUS
<1> DEFINE Level == [c \in Clients |-> Available(c)]
<1> USE DEF Bucket!Next, Bucket!bucketVars
<1>1. ASSUME NEW c \in Clients, Serve(c)
      PROVE  Bucket!Serve(c)
  <2>1. Available(c)' = Available(c) - 1
    <3>1. Available(c) - 1 \in 0..Burst
      BY <1>1, AvailableBounds, LimiterAssumption DEF Inv, Serve, Burst
    <3>2. c \in clients' /\ tokens'[c] = Available(c) - 1 /\ since'[c] = 0
      BY <1>1 DEF Serve, Seen, Inv, TypeOK
    <3>3. QED
      BY <3>1, <3>2, LimiterAssumption DEF Available, Burst
  <2>2. \A d \in Clients \ {c} : Available(d)' = Available(d)
    BY <1>1 DEF Serve, Seen, Available, Inv, TypeOK
  <2>3. Level' = [Level EXCEPT ![c] = @ - 1]
    BY <2>1, <2>2
  <2>4. QED
    BY <1>1, <2>3 DEF Serve, Bucket!Serve
<1>2. ASSUME NEW c \in Clients, Refuse(c)
      PROVE  Bucket!Refuse(c)
  <2>1. Available(c)' = Available(c)
    <3>1. c \in clients
      BY <1>2, LimiterAssumption DEF Refuse, Available, Burst
    <3>2. QED
      BY <1>2, <3>1 DEF Refuse, Seen, Available
  <2>2. \A d \in Clients \ {c} : Available(d)' = Available(d)
    BY <1>2 DEF Refuse, Seen, Available, Inv, TypeOK
  <2>3. Level' = Level
    BY <2>1, <2>2
  <2>4. QED
    BY <1>2, <2>3 DEF Refuse, Bucket!Refuse
<1>3. CASE Sweep
  <2>1. \A c \in Clients : Available(c)' = Available(c)
    <3>1. ASSUME NEW c \in Clients, c \in Stale
          PROVE  Available(c)' = Available(c)
      <4>1. c \notin clients'
        BY <1>3, <3>1 DEF Sweep
      <4>2. Available(c)' = Burst
        BY <4>1 DEF Available
      <4>3. QED
        BY <3>1, <4>2, FullWhenIdle
    <3>2. ASSUME NEW c \in Clients, c \notin Stale
          PROVE  Available(c)' = Available(c)
      BY <1>3, <3>2 DEF Sweep, Available
    <3>3. QED
      BY <3>1, <3>2
  <2>2. Level' = Level
    BY <2>1
  <2>3. QED
    BY <1>3, <2>2 DEF Sweep
<1>4. CASE Tick
  <2>1. Level' = [c \in Clients |-> Bucket!Filled(Level[c] + Rps)]
    BY <1>4, TickFills
  <2>2. Bucket!Second
    BY <1>4, <2>1 DEF Tick, Bucket!Second
  <2>3. QED
    BY <2>2
<1>5. CASE UNCHANGED vars
  <2>1. Level' = Level
    BY <1>5 DEF vars, Available
  <2>2. QED
    BY <1>5, <2>1 DEF vars
<1>6. QED
  BY <1>1, <1>2, <1>3, <1>4, <1>5 DEF Next

\* The limiter answers as TokenBucket does: lazy refill and deletion of idle clients
\* never grant a request that a bucket kept for ever would refuse, or the reverse.
THEOREM LimiterActsAsBucket == Spec => ActsAsBucket
<1>1. Init => Bucket!Init
  BY DEF Init, Bucket!Init, Available
<1>2. QED
  BY <1>1, StepRefines, Invariance, PTL DEF Spec, ActsAsBucket, Bucket!Spec

=============================================================================
