------------------------------- MODULE RateLimit -------------------------------
(***************************************************************************)
(* The rate limit of one client key (rate_limit.py), which login and       *)
(* register ask before anything else: a counter in Redis that expires, and *)
(* a list of times in each process for when Redis does not answer.         *)
(*                                                                         *)
(* An action is one call to Redis, or the section under the lock.  Time    *)
(* passes in ticks.  Beyond the limit the counter's value does not matter  *)
(* any more, and it stops at Limit + 1.                                    *)
(***************************************************************************)
EXTENDS Naturals, FiniteSets

CONSTANTS
  Processes,   \* gunicorn workers, one memory each
  Threads,     \* their threads: pairs of a process and a number
  Limit,       \* AUTH_RATE_LIMIT
  Window       \* AUTH_RATE_WINDOW_SECONDS, in ticks

ASSUME RateLimitAssumption ==
  /\ IsFiniteSet(Processes) /\ Threads \subseteq Processes \X Nat
  /\ Limit \in Nat \ {0} /\ Window \in Nat \ {0}

Ages == 0 .. Window - 1   \* ticks since a time stamp, while it counts
Process(t) == t[1]

VARIABLES
  counter,     \* Redis: the counter, 0 if there is no such key
  left,        \* and what is left of its TTL, 0 if it has none
  hits,        \* _hits of each process: how many time stamps of each age
  pc,          \* where each thread is in allow
  allowed,     \* history: attempts that Redis has allowed, by age
  allowedHere, \* and those that the memory of each process has
  expireLost   \* history: an EXPIRE has failed, and the counter is still there

vars == <<counter, left, hits, pc, allowed, allowedHere, expireLost>>

-----------------------------------------------------------------------------
Stamps(f) == UNION {{<<a, k>> : k \in 1 .. f[a]} : a \in Ages}
Total(f) == Cardinality(Stamps(f))
Older(f) == [a \in Ages |-> IF a = 0 THEN 0 ELSE f[a - 1]]
Stamp(f) == [f EXCEPT ![0] = @ + 1]
NoStamps == [a \in Ages |-> 0]

Goto(t, label) == pc' = [pc EXCEPT ![t] = label]
Answer(t, yes) ==
  /\ Goto(t, "idle")
  /\ allowed' = IF yes THEN Stamp(allowed) ELSE allowed
  /\ UNCHANGED allowedHere

Init ==
  /\ counter = 0
  /\ left = 0
  /\ hits = [p \in Processes |-> NoStamps]
  /\ pc = [t \in Threads |-> "idle"]
  /\ allowed = NoStamps
  /\ allowedHere = [p \in Processes |-> NoStamps]
  /\ expireLost = FALSE

-----------------------------------------------------------------------------
IncrementedUpToLimit == IF counter = Limit THEN Limit ELSE counter + 1
Incremented == IF counter > Limit THEN counter ELSE counter + 1

\* The first INCR of a window is followed by EXPIRE, the others decide.
Increment(t) ==
  /\ pc[t] = "idle"
  /\ counter' = Incremented
  /\ IF counter' = 1
     THEN Goto(t, "expire") /\ UNCHANGED <<allowed, allowedHere>>
     ELSE Answer(t, counter' <= Limit)
  /\ UNCHANGED <<left, hits, expireLost>>

NoExpiry == 0
Expiry == Window

Expire(t) ==
  /\ pc[t] = "expire"
  /\ left' = Expiry
  /\ Answer(t, TRUE)
  /\ UNCHANGED <<counter, hits, expireLost>>

\* A call raises, and may have had its effect all the same; without EXPIRE the
\* counter stays.  That a process dies between its two calls or a Redis loses
\* its counters is left out.
RedisFails(t) ==
  /\ pc[t] \in {"idle", "expire"}
  /\ Goto(t, "memory")
  /\ IF pc[t] = "idle"
     THEN /\ counter' \in {counter, Incremented}
          /\ expireLost' = (expireLost \/ (counter = 0 /\ counter' = 1))
          /\ UNCHANGED left
     ELSE /\ left' \in {left, Expiry}
          /\ expireLost' = (expireLost \/ left' = 0)
          /\ UNCHANGED counter
  /\ UNCHANGED <<hits, allowed, allowedHere>>

\* _memory_allow, under the lock of the process.
RoomIfNotMore(p) == Total(hits[p]) <= Limit
Room(p) == Total(hits[p]) < Limit

MemoryAllow(t) ==
  LET p == Process(t)
  IN  /\ pc[t] = "memory"
      /\ IF Room(p)
         THEN /\ hits' = [hits EXCEPT ![p] = Stamp(@)]
              /\ allowedHere' = [allowedHere EXCEPT ![p] = Stamp(@)]
         ELSE UNCHANGED <<hits, allowedHere>>
      /\ Goto(t, "idle")
      /\ UNCHANGED <<counter, left, allowed, expireLost>>

Tick ==
  /\ left' = IF left = 0 THEN 0 ELSE left - 1
  /\ counter' = IF left = 1 THEN 0 ELSE counter
  /\ expireLost' = (expireLost /\ left # 1)
  /\ hits' = [p \in Processes |-> Older(hits[p])]
  /\ allowed' = Older(allowed)
  /\ allowedHere' = [p \in Processes |-> Older(allowedHere[p])]
  /\ UNCHANGED pc

Finish(t) == Expire(t) \/ MemoryAllow(t)

Next == Tick \/ \E t \in Threads : Increment(t) \/ RedisFails(t) \/ Finish(t)

Spec == Init /\ [][Next]_vars

\* Time passes, and a request that has begun is answered.
FairSpec == Spec /\ WF_vars(Tick) /\ \A t \in Threads : WF_vars(Finish(t))

-----------------------------------------------------------------------------
(* Properties.                                                             *)

TypeOK ==
  /\ counter \in 0 .. Limit + 1
  /\ left \in 0 .. Window
  /\ hits \in [Processes -> [Ages -> 0 .. Limit]]
  /\ pc \in [Threads -> {"idle", "expire", "memory"}]
  /\ allowed \in [Ages -> Nat]
  /\ allowedHere \in [Processes -> [Ages -> Nat]]
  /\ expireLost \in BOOLEAN

\* In any period as long as the window no more attempts are allowed than the
\* rest of one window of Redis, the next without the attempt that opened the
\* first, and the limit once more in the memory of each process.
AllowedInMemory == UNION {{p} \X Stamps(allowedHere[p]) : p \in Processes}

AllowedIsBounded ==
  Total(allowed) + Cardinality(AllowedInMemory)
    <= 2 * Limit - 1 + Cardinality(Processes) * Limit

\* "Too many attempts. Try again later.": a client that is refused, and goes
\* on trying, is not refused for ever, unless an EXPIRE has been lost.
RefusalEnds == (counter > Limit) ~> (counter = 0 \/ expireLost)
===============================================================================
