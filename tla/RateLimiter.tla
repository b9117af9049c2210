----------------------------- MODULE RateLimiter -----------------------------
(***************************************************************************)
(* RedisTokenBucket: the token buckets of one site, a bucket per tenant    *)
(* and one for the site as a whole, shared by the workers through Redis.   *)
(* A caller asks with one atomic script that reads the clock of the        *)
(* caller's own host; refused, it sleeps and asks again, and after         *)
(* max_wait_s it goes on without a token.  Time is a counter of ticks, and *)
(* a token is worth Cost units, so that rates are whole numbers of units   *)
(* per tick (the floating point of the script is left out).                *)
(***************************************************************************)
EXTENDS Naturals

CONSTANTS
  Tenants,
  Site,                    \* the bucket of all tenants together (__all__)
  Callers,                 \* run_engine coroutines, on whatever host
  TenantRate, TenantBurst, \* SitePolicy.rpm and .burst
  SiteRate, SiteBurst,     \* SitePolicy.global_rpm and .global_burst
  Cost,                    \* units of one token; rates are units per tick
  TTL,                     \* the expiry set on a bucket (PEXPIRE)
  SleepCap, MaxWait,       \* sleep_cap_s and max_wait_s
  Skew,                    \* how far each caller's clock is ahead
  MaxSkew,                 \* bound on the skews
  MaxTime, MaxRestarts     \* bounds on the clock and on Redis restarts

Buckets == Tenants \cup {Site}

ASSUME SiteAssumption == Site \notin Tenants
ASSUME PolicyAssumption == /\ TenantRate \in Nat \ {0} /\ TenantBurst \in Nat \ {0}
                           /\ SiteRate \in Nat \ {0} /\ SiteBurst \in Nat \ {0}
                           /\ Cost \in Nat \ {0}
\* An expired bucket would have been full: every policy refills within TTL.
ASSUME ExpiryAssumption == /\ TTL \in Nat \ {0}
                           /\ TenantRate * TTL >= TenantBurst * Cost
                           /\ SiteRate * TTL >= SiteBurst * Cost
ASSUME WaitAssumption == SleepCap \in Nat \ {0} /\ MaxWait \in Nat /\ SleepCap <= MaxWait
ASSUME ClockAssumption == MaxSkew \in Nat /\ Skew \in [Callers -> 0..MaxSkew]
ASSUME BoundsAssumption == MaxTime \in Nat /\ MaxRestarts \in Nat

VARIABLES
  now,       \* the time; Redis expires keys by it
  bucket,    \* what Redis holds of each bucket: level, time stamp, expiry
  pc,        \* what each caller is doing
  tenant,    \* the tenant each caller works for
  waited,    \* its `waited`, nominal
  wake,      \* when its sleep ends
  granted,   \* tokens taken from each bucket so far
  restarts,  \* restarts of Redis so far
  disturbed  \* callers whose wait may be outdated (history)

callerVars == <<pc, tenant, waited, wake>>
vars == <<now, bucket, pc, tenant, waited, wake, granted, restarts, disturbed>>

BucketRecord == [tok: Nat, ts: Nat, until: Nat]

TypeOK ==
  /\ now \in Nat /\ restarts \in Nat
  /\ bucket \in [Buckets -> BucketRecord]
  /\ pc \in [Callers -> {"idle", "asking", "asleep"}]
  /\ tenant \in [Callers -> Tenants]
  /\ waited \in [Callers -> 0..MaxWait] /\ wake \in [Callers -> Nat]
  /\ granted \in [Buckets -> Nat]
  /\ disturbed \subseteq Callers

Init ==
  /\ now = 0 /\ restarts = 0
  /\ bucket = [b \in Buckets |-> [tok |-> 0, ts |-> 0, until |-> 0]]
  /\ pc = [c \in Callers |-> "idle"]
  /\ tenant \in [Callers -> Tenants]
  /\ waited = [c \in Callers |-> 0] /\ wake = [c \in Callers |-> 0]
  /\ granted = [b \in Buckets |-> 0]
  /\ disturbed = {}

-----------------------------------------------------------------------------
(* The script *)

Rate(b) == IF b = Site THEN SiteRate ELSE TenantRate
Cap(b)  == Cost * (IF b = Site THEN SiteBurst ELSE TenantBurst)

\* time.time() on the caller's host.
Clock(c) == now + Skew[c]

\* The key is there until it expires.
Present(b) == now < bucket[b].until

\* math.max(0, now - ts): a clock behind the stamp sees no time pass.
Elapsed(b, at) == IF at > bucket[b].ts THEN at - bucket[b].ts ELSE 0

\* The function level of the script: refill, up to the burst.
Level(b, at) ==
  LET filled == bucket[b].tok + Elapsed(b, at) * Rate(b)
  IN  IF Present(b) /\ filled < Cap(b) THEN filled ELSE Cap(b)

\* The two buckets a caller draws on.  Mutation: the site's level is not looked at.
Needed(c) == {tenant[c], Site}
AllowedByTenant(c) == Level(tenant[c], Clock(c)) >= Cost
Allowed(c) == \A b \in Needed(c) : Level(b, Clock(c)) >= Cost

\* tw and gw: until the bucket holds a token again.  Mutation: math.floor.
WaitRoundedDown(b, at) ==
  IF Level(b, at) >= Cost THEN 0 ELSE (Cost - Level(b, at)) \div Rate(b)
Wait(b, at) ==
  IF Level(b, at) >= Cost THEN 0 ELSE (Cost - Level(b, at) + Rate(b) - 1) \div Rate(b)

\* The longer of the two waits, and the sleep it leads to.
FullWait(c) ==
  LET t == Wait(tenant[c], Clock(c))
      g == Wait(Site, Clock(c))
  IN  IF t > g THEN t ELSE g
Nap(c) ==
  LET w == IF FullWait(c) = 0 THEN 1 ELSE FullWait(c)
  IN  IF w < SleepCap THEN w ELSE SleepCap

-----------------------------------------------------------------------------
(* acquire *)

\* acquire returns, and its locals are gone.
Return(c) ==
  /\ pc' = [pc EXCEPT ![c] = "idle"]
  /\ waited' = [waited EXCEPT ![c] = 0]

Call(c) ==
  /\ pc[c] = "idle"
  /\ pc' = [pc EXCEPT ![c] = "asking"]
  /\ \E t \in Tenants : tenant' = [tenant EXCEPT ![c] = t]
  /\ UNCHANGED <<now, bucket, waited, wake, granted, restarts, disturbed>>

\* The script takes a token from both buckets and stamps them with the caller's
\* clock.  Mutation: only the tenant's bucket pays.
GrantTenantOnly(c) ==
  /\ pc[c] = "asking" /\ Allowed(c)
  /\ bucket' = [bucket EXCEPT ![tenant[c]] =
                  [tok |-> Level(tenant[c], Clock(c)) - Cost, ts |-> Clock(c), until |-> now + TTL]]
  /\ granted' = [b \in Buckets |-> IF b \in Needed(c) THEN granted[b] + 1 ELSE granted[b]]
  /\ Return(c)
  /\ disturbed' = {d \in Callers : pc[d] = "asleep"}
  /\ UNCHANGED <<now, tenant, wake, restarts>>
Grant(c) ==
  /\ pc[c] = "asking" /\ Allowed(c)
  /\ bucket' = [b \in Buckets |->
                  IF b \in Needed(c)
                  THEN [tok |-> Level(b, Clock(c)) - Cost, ts |-> Clock(c), until |-> now + TTL]
                  ELSE bucket[b]]
  /\ granted' = [b \in Buckets |-> IF b \in Needed(c) THEN granted[b] + 1 ELSE granted[b]]
  /\ Return(c)
  /\ disturbed' = {d \in Callers : pc[d] = "asleep"}
  /\ UNCHANGED <<now, tenant, wake, restarts>>

\* Refused, with time left: the caller sleeps.  The refusal writes nothing.
\* Its wait is exact unless it was capped or a stamp is ahead of its clock.
Sleep(c) ==
  /\ pc[c] = "asking" /\ ~Allowed(c) /\ waited[c] + Nap(c) <= MaxWait
  /\ pc' = [pc EXCEPT ![c] = "asleep"]
  /\ waited' = [waited EXCEPT ![c] = @ + Nap(c)]
  /\ wake' = [wake EXCEPT ![c] = now + Nap(c)]
  /\ disturbed' = IF \/ FullWait(c) > SleepCap
                     \/ \E b \in Needed(c) : Present(b) /\ bucket[b].ts > Clock(c)
                  THEN disturbed \cup {c} ELSE disturbed
  /\ UNCHANGED <<now, bucket, tenant, granted, restarts>>

\* Refused, out of time: acquire returns all the same, and its caller makes the
\* request without a token.
GiveUp(c) ==
  /\ pc[c] = "asking" /\ ~Allowed(c) /\ waited[c] + Nap(c) > MaxWait
  /\ Return(c)
  /\ UNCHANGED <<now, bucket, tenant, wake, granted, restarts, disturbed>>

Wake(c) ==
  /\ pc[c] = "asleep" /\ now >= wake[c]
  /\ pc' = [pc EXCEPT ![c] = "asking"]
  /\ wake' = [wake EXCEPT ![c] = 0]
  /\ disturbed' = disturbed \ {c}
  /\ UNCHANGED <<now, bucket, tenant, waited, granted, restarts>>

Tick ==
  /\ now < MaxTime
  /\ now' = now + 1
  /\ UNCHANGED <<bucket, callerVars, granted, restarts, disturbed>>

\* Redis keeps nothing across a restart: every bucket is full again.
RedisRestart ==
  /\ restarts < MaxRestarts
  /\ restarts' = restarts + 1
  /\ bucket' = [b \in Buckets |-> [bucket[b] EXCEPT !.until = 0]]
  /\ UNCHANGED <<now, callerVars, granted, disturbed>>

Next ==
  \/ \E c \in Callers : Call(c) \/ Grant(c) \/ Sleep(c) \/ GiveUp(c) \/ Wake(c)
  \/ Tick
  \/ RedisRestart

Spec == Init /\ [][Next]_vars

-----------------------------------------------------------------------------
(* Properties *)

\* The tokens given away never exceed the burst and the refill since the start,
\* but for one burst more per restart of Redis and, when the hosts' clocks
\* differ, what the difference refills once more with every token.
PacedGrants ==
  \A b \in Buckets :
    granted[b] * Cost
      <= Cap(b) * (1 + restarts) + Rate(b) * now + Rate(b) * MaxSkew * granted[b]

\* A caller that slept its full wait, met no other caller's grant meanwhile and
\* whose clock was not behind the stamp of the bucket finds its token: it does not
\* wake a moment too early and sleep again.
WaitIsEnough ==
  \A c \in Callers :
    pc[c] = "asleep" /\ now >= wake[c] /\ c \notin disturbed => Allowed(c)

-----------------------------------------------------------------------------
(* What the proof of PacedGrants needs *)

\* The level the clock that is most ahead would see.
LevelAhead(b) == Level(b, now + MaxSkew)

\* A stamp is no later than its host's clock allowed, and the tokens already given
\* and the level still to be given away share the allowance.
BucketAccount ==
  \A b \in Buckets :
    /\ Present(b) => bucket[b].ts + TTL <= bucket[b].until + MaxSkew
    /\ granted[b] * Cost + LevelAhead(b)
         <= Cap(b) * (1 + restarts) + Rate(b) * now + Rate(b) * MaxSkew * granted[b]
=============================================================================
