---------------------------- MODULE ReplayGuard ----------------------------
(***************************************************************************)
(* What the webhook receiver is promised by its replay cache               *)
(* (src/pkg/connector/nonce.go), without saying how the cache remembers.   *)
(* A random that was admitted is not admitted again while it is fresh in   *)
(* both senses: less than Retention has passed AND fewer than MaxSize      *)
(* other randoms have been admitted since.  Refusing is always allowed, it *)
(* is a stuttering step here; NonceCache is shown to implement this.       *)
(***************************************************************************)
EXTENDS Integers

CONSTANTS Randoms,     \* the values X-Nextcloud-Talk-Random can take
          Retention,   \* ticks a random is remembered for
          MaxSize,     \* randoms one generation holds
          Horizon      \* the last instant the clock of the model reaches

ASSUME GuardAssumption ==
    /\ Retention \in Nat \ {0}
    /\ MaxSize \in Nat \ {0}
    /\ Horizon \in Nat

VARIABLES now,         \* the clock
          admittedAt,  \* when each random was last admitted, or Never
          admittedSince \* how many others since then, counted up to MaxSize

guardVars == <<now, admittedAt, admittedSince>>

Never == -1

\* One more admission, in a count that stops at MaxSize: nothing below asks
\* for more than "at least MaxSize".
Counted(n) == IF n < MaxSize THEN n + 1 ELSE n

Protected(r) ==
    /\ admittedAt[r] # Never
    /\ now - admittedAt[r] < Retention
    /\ admittedSince[r] < MaxSize

GuardInit ==
    /\ now = 0
    /\ admittedAt = [r \in Randoms |-> Never]
    /\ admittedSince = [r \in Randoms |-> 0]

Tick ==
    /\ now < Horizon
    /\ now' = now + 1
    /\ UNCHANGED <<admittedAt, admittedSince>>

\* The bookkeeping of an admission.
Record(r) ==
    /\ admittedAt' = [admittedAt EXCEPT ![r] = now]
    /\ admittedSince' = [s \in Randoms |->
                            IF s = r THEN 0 ELSE Counted(admittedSince[s])]
    /\ UNCHANGED now

GuardAdmit(r) == ~ Protected(r) /\ Record(r)

GuardNext == Tick \/ \E r \in Randoms : GuardAdmit(r)

GuardSpec == GuardInit /\ [][GuardNext]_guardVars
=============================================================================
