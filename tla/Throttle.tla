------------------------------ MODULE Throttle ------------------------------
(***************************************************************************)
(* What an update passes before a handler sees it (bot/middlewares): only  *)
(* users on the list get through, each of them at the rate of a token      *)
(* bucket of their own.  Neither middleware awaits between reading and     *)
(* writing, so an update is one step.  The buckets are in memory: a        *)
(* restart forgets them.                                                   *)
(*                                                                         *)
(* Time is counted in ticks, Minute of them to a minute; tokens are        *)
(* counted in fractions, Minute of them to a token, so that a tick brings  *)
(* PerMinute fractions.                                                    *)
(***************************************************************************)
EXTENDS Integers

CONSTANTS
  Users,       \* those who may write to the bot
  Allowed,     \* settings.allowed_user_ids
  Nobody,      \* the sender of an update that has none
  NoBucket,    \* None, for a user without a bucket
  PerMinute,   \* settings.rate_limit_per_minute
  Minute,      \* ticks to a minute
  MaxTime,     \* bound: the clock
  MaxRestarts  \* bound: how often the bot is started again

ASSUME ThrottleAssumption ==
  /\ Allowed \subseteq Users /\ Nobody \notin Users
  /\ PerMinute \in Nat /\ Minute \in Nat \ {0}
  /\ MaxTime \in Nat /\ MaxRestarts \in Nat

VARIABLES
  clock,      \* time.monotonic()
  buckets,    \* _buckets: a dict from users to [tokens, updated]; only users on the list get there
  answer,     \* what this step has answered, and whom
  restarts,   \* counter, for the bound
  handledAt,  \* history: when an update of the user was last handled
  mark,       \* history: when an observer, who may start again at any time, started to count
  seen,       \* history: the updates of each user handled since
  lives       \* history: the restarts since

observer == <<mark, seen, lives>>
vars == <<clock, buckets, answer, restarts, handledAt, observer>>

Capacity == IF PerMinute \div 2 > 3 THEN PerMinute \div 2 ELSE 3

Full == Capacity * Minute

Bucket == [tokens : 0..Full, updated : Nat]

ASSUME NoBucketAssumption == NoBucket \notin Bucket

NoBuckets == [u \in Allowed |-> NoBucket]

Answer(u, what) == [to |-> u, what |-> what]
Silence == Answer(Nobody, "nothing")

TypeOK ==
  /\ clock \in Nat /\ restarts \in Nat
  /\ buckets \in [Allowed -> Bucket \union {NoBucket}]
  /\ \A u \in Allowed : buckets[u] = NoBucket \/ buckets[u].updated <= clock
  /\ answer \in [to : Users \union {Nobody}, what : {"nothing", "handled", "refused", "private"}]
  /\ handledAt \in [Allowed -> Nat]
  /\ mark \in 0..clock /\ seen \in [Allowed -> Nat] /\ lives \in Nat

Init ==
  /\ clock = 0
  /\ buckets = NoBuckets
  /\ answer = Silence
  /\ restarts = 0
  /\ handledAt = [u \in Allowed |-> 0]
  /\ mark = 0 /\ seen = [u \in Allowed |-> 0] /\ lives = 0

(* Mutant of Refilled: a bucket never runs over. *)
RefilledEndlessly(b) == b.tokens + (clock - b.updated) * PerMinute

(* Mutant of Refilled: whole tokens only, and the rest is forgotten. *)
RefilledByTokens(b) ==
  LET sum == b.tokens + (((clock - b.updated) * PerMinute) \div Minute) * Minute
  IN  IF sum < Full THEN sum ELSE Full

(* The tokens of a bucket, brought up to now. *)
Refilled(b) ==
  LET sum == b.tokens + (clock - b.updated) * PerMinute
  IN  IF sum < Full THEN sum ELSE Full

Put(u, tokens) ==
  buckets' = [buckets EXCEPT ![u] = [tokens |-> tokens, updated |-> clock]]

Handle(u) ==
  /\ answer' = Answer(u, "handled")
  /\ handledAt' = [handledAt EXCEPT ![u] = clock]
  /\ seen' = [seen EXCEPT ![u] = @ + 1]

(* _allow, of a user who has no bucket yet. *)
FirstUpdate(u) ==
  /\ buckets[u] = NoBucket
  /\ Put(u, Full - Minute)
  /\ Handle(u)
  /\ UNCHANGED <<clock, restarts, mark, lives>>

NextUpdate(u) ==
  /\ buckets[u] # NoBucket
  /\ LET tokens == Refilled(buckets[u])
     IN  \/ /\ tokens >= Minute
            /\ Put(u, tokens - Minute)
            /\ Handle(u)
         \/ /\ tokens < Minute
            /\ Put(u, tokens)
            /\ answer' = Answer(u, "refused")
            /\ UNCHANGED <<handledAt, seen>>
  /\ UNCHANGED <<clock, restarts, mark, lives>>

(* AuthMiddleware, which comes first: a stranger's message is told so, a stranger's *)
(* tap is not, and an update of a kind that has no sender is dropped.               *)
Reject(u) ==
  /\ answer' \in IF u = Nobody THEN {Silence} ELSE {Silence, Answer(u, "private")}
  /\ UNCHANGED <<clock, buckets, restarts, handledAt, observer>>

Receive(u) ==
  \/ u \in Allowed /\ (FirstUpdate(u) \/ NextUpdate(u))
  \/ u \notin Allowed /\ Reject(u)

Tick ==
  /\ clock < MaxTime
  /\ clock' = clock + 1 /\ answer' = Silence
  /\ UNCHANGED <<buckets, restarts, handledAt, observer>>

Restart ==
  /\ restarts < MaxRestarts
  /\ restarts' = restarts + 1 /\ lives' = lives + 1
  /\ buckets' = NoBuckets /\ answer' = Silence
  /\ UNCHANGED <<clock, handledAt, mark, seen>>

Observe ==
  /\ mark' = clock /\ seen' = [u \in Allowed |-> 0] /\ lives' = 0
  /\ answer' = Silence
  /\ UNCHANGED <<clock, buckets, restarts, handledAt>>

Next ==
  \/ \E u \in Users \union {Nobody} : Receive(u)
  \/ Tick \/ Restart \/ Observe

Spec == Init /\ [][Next]_vars
-----------------------------------------------------------------------------
(* In any interval, starting at any moment and of any length, a user gets no more *)
(* through than one bucket and what the rate brings meanwhile; a restart inside   *)
(* it is worth one bucket more.                                                   *)
RateBounded ==
  \A u \in Allowed :
    Minute * seen[u] <= Full * (1 + lives) + PerMinute * (clock - mark)

(* A user is told to slow down only if the last update that was handled is less  *)
(* than the time of one token ago: the updates that were refused, however many,  *)
(* delay nobody, and nobody who keeps to the rate is ever refused.               *)
PatienceIsServed ==
  \A u \in Allowed :
    answer = Answer(u, "refused") => PerMinute * (clock - handledAt[u]) < Minute

=============================================================================
