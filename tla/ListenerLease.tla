--------------------------- MODULE ListenerLease ---------------------------
(***************************************************************************)
(* The lease by which one of several listener processes becomes the one     *)
(* that collects messages (key SubscriptionListenerLeaseKey) or polls the   *)
(* Telegram bot.  It is one row of app_settings: the owner, in value and    *)
(* description, and updated_at.  A claim takes the time, reads the row,     *)
(* judges it with ListenerLeaseClaimable and then writes it under a         *)
(* condition that a row which another has claimed meanwhile does not meet.  *)
(* The holder renews by claiming again and goes on when that fails with an  *)
(* error; it stops when the claim is refused.                               *)
(*                                                                          *)
(* Time is counted in ticks, as ages: of the row (since updated_at), of a   *)
(* claim (since it took the time) and of what a listener was last granted.  *)
(* All processes are taken to read the same clock.                          *)
(***************************************************************************)
EXTENDS Naturals, FiniteSets

CONSTANTS
  Listeners,
  NoOne,        \* the owner while the row does not exist
  TTL,          \* ticks of messageSubscriptionLeaseTTL
  SlowestClaim, \* bound of the model: ticks a claim may take
  MaxFaults     \* bound of the model: failing statements, crashes, restarts

ASSUME LeaseAssumption ==
  /\ IsFiniteSet(Listeners) /\ NoOne \notin Listeners
  /\ TTL \in Nat \ {0} /\ SlowestClaim \in Nat /\ MaxFaults \in Nat

VARIABLES
  owner,     \* of the row
  age,       \* of the row
  asking,    \* each process: "off", "idle", "read", "insert" or "update"
  lag,       \* age of its claim
  unchanged, \* the row is as the process read it (updated_at = ?)
  listening, \* the process was granted the lease and has not stopped since
  since,     \* age of that grant
  faults     \* faults so far

leaseVars == <<owner, age, asking, lag, unchanged, listening, since, faults>>

Oldest == TTL + SlowestClaim
OneOlder(n, most) == IF n < most THEN n + 1 ELSE most

LeaseInit ==
  /\ owner = NoOne /\ age = 0
  /\ asking = [p \in Listeners |-> "idle"]
  /\ lag = [p \in Listeners |-> 0]
  /\ unchanged = [p \in Listeners |-> FALSE]
  /\ listening = [p \in Listeners |-> FALSE]
  /\ since = [p \in Listeners |-> 0]
  /\ faults = 0

Fault == faults < MaxFaults /\ faults' = faults + 1

Pending(p) == asking[p] \in {"read", "insert", "update"}

LeaseTick ==
  /\ \A p \in Listeners : Pending(p) => lag[p] < SlowestClaim
  /\ age' = OneOlder(age, Oldest)
  /\ lag' = [p \in Listeners |-> IF Pending(p) THEN lag[p] + 1 ELSE 0]
  /\ since' = [p \in Listeners |-> IF listening[p] THEN OneOlder(since[p], TTL) ELSE 0]
  /\ UNCHANGED <<owner, asking, unchanged, listening, faults>>

Becomes(p, stage) == asking' = [asking EXCEPT ![p] = stage]

(* now := time.Now(), by an idle process and by a holder that renews.        *)
Ask(p) ==
  /\ asking[p] = "idle" /\ Becomes(p, "read")
  /\ lag' = [lag EXCEPT ![p] = 0]
  /\ UNCHANGED <<owner, age, unchanged, listening, since, faults>>

(* Both clauses on time come to the same: expires_at is updated_at + TTL.    *)
ExpiredNever(p) == FALSE
Expired(p) == age >= lag[p] + TTL
Claimable(p) == owner = p \/ Expired(p)

Refuse(p) ==
  /\ Becomes(p, "idle")
  /\ listening' = [listening EXCEPT ![p] = FALSE]
  /\ since' = [since EXCEPT ![p] = 0]
  /\ UNCHANGED <<owner, age, lag, unchanged, faults>>

Judge(p) ==
  IF Claimable(p)
    THEN /\ Becomes(p, "update") /\ unchanged' = [unchanged EXCEPT ![p] = TRUE]
         /\ UNCHANGED <<owner, age, lag, listening, since, faults>>
    ELSE Refuse(p)

(* The claim is written: the row carries the time the claim began with.      *)
Grant(p) ==
  /\ Becomes(p, "idle") /\ owner' = p /\ age' = lag[p]
  /\ unchanged' = [q \in Listeners |-> FALSE]
  /\ listening' = [listening EXCEPT ![p] = TRUE]
  /\ since' = [since EXCEPT ![p] = IF lag[p] < TTL THEN lag[p] ELSE TTL]
  /\ UNCHANGED <<lag, faults>>

ReadRow(p) ==
  /\ asking[p] = "read"
  /\ IF owner = NoOne
       THEN Becomes(p, "insert") /\ UNCHANGED <<owner, age, lag, unchanged,
                                                listening, since, faults>>
       ELSE Judge(p)

(* INSERT ... ON CONFLICT DO NOTHING; a row that is there by now is judged.  *)
InsertRow(p) ==
  asking[p] = "insert" /\ IF owner = NoOne THEN Grant(p) ELSE Judge(p)

(* WHERE updated_at = the one read OR updated_at <= cutoff OR description =  *)
(* mine.                                                                     *)
MayWriteAnyway(p) == TRUE
MayWrite(p) == unchanged[p] \/ Claimable(p)

UpdateRow(p) ==
  asking[p] = "update" /\ IF MayWrite(p) THEN Grant(p) ELSE Refuse(p)

(* A statement fails: the process tries again later and, if it listened,     *)
(* goes on listening.                                                        *)
ClaimFails(p) ==
  /\ Pending(p) /\ Becomes(p, "idle") /\ Fault
  /\ UNCHANGED <<owner, age, lag, unchanged, listening, since>>

ProcessDies(p) ==
  /\ asking[p] # "off" /\ Becomes(p, "off") /\ Fault
  /\ listening' = [listening EXCEPT ![p] = FALSE]
  /\ since' = [since EXCEPT ![p] = 0]
  /\ UNCHANGED <<owner, age, lag, unchanged>>

(* A process that takes the host name and process id of the dead one.        *)
ProcessStarts(p) ==
  /\ asking[p] = "off" /\ Becomes(p, "idle") /\ Fault
  /\ UNCHANGED <<owner, age, lag, unchanged, listening, since>>

Claims(p) == ReadRow(p) \/ InsertRow(p) \/ UpdateRow(p)
Faults(p) == ClaimFails(p) \/ ProcessDies(p) \/ ProcessStarts(p)

LeaseNext ==
  LeaseTick \/ \E p \in Listeners : Ask(p) \/ Claims(p) \/ Faults(p)

LeaseSpec == LeaseInit /\ [][LeaseNext]_leaseVars

(* Time goes on, the database answers and the loops ask again.               *)
LeaseFairness ==
  /\ WF_leaseVars(LeaseTick)
  /\ \A p \in Listeners : WF_leaseVars(Ask(p)) /\ WF_leaseVars(Claims(p))

-----------------------------------------------------------------------------
LeaseTypeOK ==
  /\ owner \in Listeners \cup {NoOne} /\ age \in 0..Oldest
  /\ asking \in [Listeners -> {"off", "idle", "read", "insert", "update"}]
  /\ lag \in [Listeners -> 0..SlowestClaim]
  /\ unchanged \in [Listeners -> BOOLEAN] /\ listening \in [Listeners -> BOOLEAN]
  /\ since \in [Listeners -> 0..TTL] /\ faults \in 0..MaxFaults

(* For as long as its last grant has not run out, a listener is the owner of *)
(* the row: two listen at once only while one of them has failed to renew    *)
(* for the whole of the lease.                                               *)
LeaseHonoured ==
  \A p \in Listeners : listening[p] /\ since[p] < TTL => owner = p

(* While a process lives, one of them listens again and again: the lease of  *)
(* a holder that died is taken over.                                         *)
ListenerTakenOver ==
  []<>((\E p \in Listeners : listening[p]) \/ \A p \in Listeners : asking[p] = "off")
=============================================================================
