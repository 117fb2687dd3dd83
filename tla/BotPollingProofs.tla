-------------------------- MODULE BotPollingProofs --------------------------
(* Proofs about ListenerLease and BotPolling, for any listeners, duration of  *)
(* the lease and of a claim, faults, commands and polls that outlast their    *)
(* lease: the listener is the one the row names, no command is lost, and no   *)
(* command opens more meetings than faults and late polls account for.        *)
EXTENDS BotPolling, FiniteSetTheorems, TLAPS

-----------------------------------------------------------------------------
(* The lease: the inductive invariant.  A listener whose grant has not run    *)
(* out owns a row that is no older than the grant, and a claim that may rely  *)
(* on the row being as it read it found its own row or one that had expired.  *)

GrantsCovered ==
  \A p \in Listeners : listening[p] /\ since[p] < TTL => owner = p /\ age =< since[p]

ClaimsJustified ==
  \A p \in Listeners : asking[p] = "update" /\ unchanged[p] => Claimable(p)

LeaseInv == LeaseTypeOK /\ GrantsCovered /\ ClaimsJustified

-----------------------------------------------------------------------------
(* Every step of the lease keeps it. *)

LEMMA TickKeepsLease ==
  ASSUME LeaseInv, LeaseTick
  PROVE  LeaseInv'
  <1>1. /\ age' \in 0..Oldest
        /\ lag' \in [Listeners -> 0..SlowestClaim] /\ since' \in [Listeners -> 0..TTL]
    BY LeaseAssumption DEF LeaseInv, LeaseTypeOK, LeaseTick, Oldest, OneOlder
  <1>2. LeaseTypeOK'
    BY <1>1 DEF LeaseInv, LeaseTypeOK, LeaseTick
  <1>3. GrantsCovered'
    BY LeaseAssumption
       DEF LeaseInv, GrantsCovered, LeaseTypeOK, LeaseTick, Oldest, OneOlder
  <1>4. ClaimsJustified'
    BY LeaseAssumption
       DEF LeaseInv, ClaimsJustified, Claimable, Expired, Pending, LeaseTypeOK, LeaseTick,
           Oldest, OneOlder
  <1>5. QED
    BY <1>2, <1>3, <1>4 DEF LeaseInv

LEMMA AskKeepsLease ==
  ASSUME LeaseInv, NEW p \in Listeners, Ask(p)
  PROVE  LeaseInv'
  BY LeaseAssumption
     DEF LeaseInv, LeaseTypeOK, GrantsCovered, ClaimsJustified, Claimable, Expired, Ask,
         Becomes

\* The end of a claim without the lease.
LEMMA RefuseKeepsLease ==
  ASSUME LeaseInv, NEW p \in Listeners, Refuse(p)
  PROVE  LeaseInv'
  BY LeaseAssumption
     DEF LeaseInv, LeaseTypeOK, GrantsCovered, ClaimsJustified, Claimable, Expired, Refuse,
         Becomes

LEMMA JudgeKeepsLease ==
  ASSUME LeaseInv, NEW p \in Listeners, Judge(p)
  PROVE  LeaseInv'
  <1>1. CASE Claimable(p)
    BY <1>1, LeaseAssumption, ZenonT(60)
       DEF LeaseInv, LeaseTypeOK, GrantsCovered, ClaimsJustified, Claimable, Expired, Judge,
           Becomes
  <1>2. CASE ~Claimable(p)
    BY <1>2, RefuseKeepsLease DEF Judge
  <1>3. QED
    BY <1>1, <1>2

\* The lease is granted only when nobody else's grant is still running.
LEMMA GrantKeepsLease ==
  ASSUME LeaseInv, NEW p \in Listeners, Grant(p), owner = NoOne \/ Claimable(p)
  PROVE  LeaseInv'
  <1>1. \A q \in Listeners : q # p => ~(listening[q] /\ since[q] < TTL)
    BY LeaseAssumption DEF LeaseInv, LeaseTypeOK, GrantsCovered, Claimable, Expired
  <1>2. LeaseTypeOK'
    BY LeaseAssumption DEF LeaseInv, LeaseTypeOK, Grant, Becomes, Oldest
  <1>3. GrantsCovered'
    BY <1>1, LeaseAssumption DEF LeaseInv, LeaseTypeOK, GrantsCovered, Grant
  <1>4. ClaimsJustified'
    BY DEF ClaimsJustified, Grant
  <1>5. QED
    BY <1>2, <1>3, <1>4 DEF LeaseInv

LEMMA ClaimsKeepLease ==
  ASSUME LeaseInv, NEW p \in Listeners, Claims(p)
  PROVE  LeaseInv'
  <1>1. CASE ReadRow(p) /\ owner = NoOne
    BY <1>1, LeaseAssumption
       DEF LeaseInv, LeaseTypeOK, GrantsCovered, ClaimsJustified, Claimable, Expired,
           ReadRow, Becomes
  <1>2. CASE ReadRow(p) /\ owner # NoOne
    BY <1>2, JudgeKeepsLease DEF ReadRow
  <1>3. CASE InsertRow(p)
    BY <1>3, JudgeKeepsLease, GrantKeepsLease DEF InsertRow
  <1>4. CASE UpdateRow(p)
    <2>1. MayWrite(p) => Claimable(p)
      BY <1>4 DEF MayWrite, UpdateRow, LeaseInv, ClaimsJustified
    <2>2. QED
      BY <1>4, <2>1, GrantKeepsLease, RefuseKeepsLease DEF UpdateRow
  <1>5. QED
    BY <1>1, <1>2, <1>3, <1>4 DEF Claims

LEMMA FaultsKeepLease ==
  ASSUME LeaseInv, NEW p \in Listeners, Faults(p)
  PROVE  LeaseInv'
  <1>1. faults' \in 0..MaxFaults
    BY LeaseAssumption
       DEF LeaseInv, LeaseTypeOK, Faults, Fault, ClaimFails, ProcessDies, ProcessStarts
  <1>2. CASE ClaimFails(p)
    BY <1>1, <1>2, LeaseAssumption
       DEF LeaseInv, LeaseTypeOK, GrantsCovered, ClaimsJustified, Claimable, Expired,
           ClaimFails, Becomes
  <1>3. CASE ProcessDies(p)
    BY <1>1, <1>3, LeaseAssumption
       DEF LeaseInv, LeaseTypeOK, GrantsCovered, ClaimsJustified, Claimable, Expired,
           ProcessDies, Becomes
  <1>4. CASE ProcessStarts(p)
    BY <1>1, <1>4, LeaseAssumption
       DEF LeaseInv, LeaseTypeOK, GrantsCovered, ClaimsJustified, Claimable, Expired,
           ProcessStarts, Becomes
  <1>5. QED
    BY <1>2, <1>3, <1>4 DEF Faults

LEMMA LeaseInvariant == LeaseSpec => []LeaseInv
  <1>1. LeaseInit => LeaseInv
    BY LeaseAssumption
       DEF LeaseInit, LeaseInv, LeaseTypeOK, GrantsCovered, ClaimsJustified, Oldest
  <1>2. LeaseInv /\ [LeaseNext]_leaseVars => LeaseInv'
    <2> SUFFICES ASSUME LeaseInv, [LeaseNext]_leaseVars PROVE LeaseInv'
      OBVIOUS
    <2>1. CASE UNCHANGED leaseVars
      BY <2>1 DEF leaseVars, LeaseInv, LeaseTypeOK, GrantsCovered, ClaimsJustified,
                  Claimable, Expired
    <2>2. CASE LeaseNext
      BY <2>2, TickKeepsLease, AskKeepsLease, ClaimsKeepLease, FaultsKeepLease
         DEF LeaseNext
    <2>3. QED
      BY <2>1, <2>2
  <1>3. QED
    BY <1>1, <1>2, PTL DEF LeaseSpec

-----------------------------------------------------------------------------
(* The theorems about the lease. *)

\* The lease's row and the listeners' view of it stay within their types.
THEOREM LeaseTypes == LeaseSpec => []LeaseTypeOK
  BY LeaseInvariant, PTL DEF LeaseInv

\* Until its grant runs out, the process that listens is the one the row names,
\* however claims, renewals, failing statements and restarts interleave.
THEOREM LeaseHolds == LeaseSpec => []LeaseHonoured
  <1>1. LeaseInv => LeaseHonoured
    BY DEF LeaseInv, GrantsCovered, LeaseHonoured
  <1>2. QED
    BY <1>1, LeaseInvariant, PTL

-----------------------------------------------------------------------------
(* The polls: the inductive invariant.  What lies behind the stored offset,   *)
(* behind Telegram's, behind the offset a poll started from and behind the    *)
(* command it is at was handled.  A poll that reached its end can therefore   *)
(* store it, even when its lease has long passed to another; the offset may   *)
(* go back.                                                                   *)

HandledBefore(n) == \A u \in Updates : u < n => u \in answered

PollBehind(p) ==
  /\ poll[p] \in [from : Nat, next : Nat, upto : Nat]
  /\ HandledBefore(poll[p].from) /\ HandledBefore(poll[p].next)

BotInv ==
  /\ sent \in Nat /\ confirmed \in Nat /\ offset \in Nat
  /\ poll \in [Listeners -> [from : Nat, next : Nat, upto : Nat]]
  /\ HandledBefore(offset) /\ HandledBefore(confirmed)
  /\ \A p \in Listeners : PollBehind(p)

LEMMA LargerHandled ==
  ASSUME NEW m \in Nat, NEW n \in Nat
  PROVE  /\ Larger(m, n) \in Nat
         /\ HandledBefore(m) /\ HandledBefore(n) => HandledBefore(Larger(m, n))
  BY DEF Larger

\* A step that answers nothing and moves one poll to a place it may be at.
LEMMA MovesPoll ==
  ASSUME BotInv, NEW p \in Listeners, NEW r \in [from : Nat, next : Nat, upto : Nat],
         HandledBefore(r.from), HandledBefore(r.next),
         poll' = [poll EXCEPT ![p] = r], UNCHANGED answered,
         sent' \in Nat, confirmed' \in Nat, offset' \in Nat,
         HandledBefore(confirmed'), HandledBefore(offset')
  PROVE  BotInv'
  BY DEF BotInv, PollBehind, HandledBefore, Updates

LEMMA NoPollHandled ==
  /\ NoPoll \in [from : Nat, next : Nat, upto : Nat]
  /\ HandledBefore(NoPoll.from) /\ HandledBefore(NoPoll.next)
  BY DEF NoPoll, HandledBefore, Updates

-----------------------------------------------------------------------------
(* Every step keeps it. *)

LEMMA OutsideStep ==
  ASSUME BotInv, UNCHANGED <<confirmed, offset, poll, answered>>, sent' \in Nat
  PROVE  BotInv'
  BY DEF BotInv, PollBehind, HandledBefore, Updates

LEMMA GetUpdatesStep ==
  ASSUME BotInv, NEW p \in Listeners, GetUpdates(p)
  PROVE  BotInv'
  <1>0. PICK first : first = Larger(poll[p].from, confirmed)
    OBVIOUS
  <1>1. first \in Nat /\ HandledBefore(first)
    BY <1>0, LargerHandled DEF BotInv, PollBehind
  <1>2. confirmed' = first /\ UNCHANGED <<sent, offset, answered>>
    BY <1>0 DEF GetUpdates
  <1>3. CASE PollOver(p)
    BY <1>1, <1>2, <1>3, MovesPoll, NoPollHandled DEF PollOver, BotInv
  <1>4. CASE PollGoesOn(p, [poll[p] EXCEPT !.next = first, !.upto = sent])
    <2>1. PICK r : r = [poll[p] EXCEPT !.next = first, !.upto = sent]
      OBVIOUS
    <2>2. /\ r \in [from : Nat, next : Nat, upto : Nat]
          /\ r.from = poll[p].from /\ r.next = first
      BY <1>1, <2>1 DEF BotInv
    <2>3. poll' = [poll EXCEPT ![p] = r]
      BY <1>4, <2>1 DEF PollGoesOn
    <2>4. HandledBefore(r.from) /\ HandledBefore(r.next)
      BY <1>1, <2>2 DEF BotInv, PollBehind
    <2>5. QED
      BY <1>1, <1>2, <2>2, <2>3, <2>4, MovesPoll DEF BotInv
  <1>5. QED
    BY <1>0, <1>3, <1>4 DEF GetUpdates

\* The two that fail: the poll asks from the beginning, or it is over.
LEMMA FetchFailsStep ==
  ASSUME BotInv, NEW p \in Listeners, LoadOffsetFails(p) \/ GetUpdatesFails(p)
  PROVE  BotInv'
  <1>1. CASE LoadOffsetFails(p)
    <2>1. PICK r : r = [from |-> 1, next |-> 0, upto |-> 0]
      OBVIOUS
    <2>2. /\ r \in [from : Nat, next : Nat, upto : Nat]
          /\ HandledBefore(r.from) /\ HandledBefore(r.next)
      BY <2>1 DEF HandledBefore, Updates
    <2>3. poll' = [poll EXCEPT ![p] = r]
      BY <1>1, <2>1 DEF LoadOffsetFails
    <2>4. QED
      BY <1>1, <2>2, <2>3, MovesPoll DEF LoadOffsetFails, BotInv
  <1>2. CASE GetUpdatesFails(p)
    <2>1. PICK first : first = Larger(poll[p].from, confirmed)
      OBVIOUS
    <2>2. first \in Nat /\ HandledBefore(first)
      BY <2>1, LargerHandled DEF BotInv, PollBehind
    <2>3. confirmed' \in {confirmed, first} /\ UNCHANGED <<sent, offset, answered>>
      BY <1>2, <2>1 DEF GetUpdatesFails
    <2>4. QED
      BY <1>2, <2>2, <2>3, MovesPoll, NoPollHandled DEF GetUpdatesFails, PollOver, BotInv
  <1>3. QED
    BY <1>1, <1>2

LEMMA HandleStep ==
  ASSUME BotInv, NEW p \in Listeners, HandleUpdate(p)
  PROVE  BotInv'
  <1>0. PICK u : u = poll[p].next
    OBVIOUS
  <1>1. /\ u \in Nat /\ answered' = answered \cup {u}
        /\ poll' = [poll EXCEPT ![p] = [poll[p] EXCEPT !.next = u + 1]]
        /\ UNCHANGED <<sent, confirmed, offset>>
    BY <1>0 DEF HandleUpdate, PollGoesOn, BotInv
  <1>2. \A i \in Updates : i < u => i \in answered
    BY <1>0 DEF BotInv, PollBehind, HandledBefore
  <1>3. \A i \in Updates : i < u + 1 => i \in answered'
    BY <1>1, <1>2, UpdatesAssumption DEF Updates
  <1>4. ASSUME NEW q \in Listeners
        PROVE  PollBehind(q)'
    <2>1. CASE q = p
      BY <2>1, <1>0, <1>1, <1>3 DEF BotInv, PollBehind, HandledBefore, Updates
    <2>2. CASE q # p
      BY <2>2, <1>1 DEF BotInv, PollBehind, HandledBefore, Updates
    <2>3. QED
      BY <2>1, <2>2
  <1>5. HandledBefore(offset)' /\ HandledBefore(confirmed)'
    BY <1>1 DEF BotInv, HandledBefore, Updates
  <1>6. poll' \in [Listeners -> [from : Nat, next : Nat, upto : Nat]]
    BY <1>1 DEF BotInv
  <1>7. QED
    BY <1>1, <1>4, <1>5, <1>6 DEF BotInv

LEMMA StoreStep ==
  ASSUME BotInv, NEW p \in Listeners, StoreOffset(p)
  PROVE  BotInv'
  <1>1. /\ poll' = [poll EXCEPT ![p] = NoPoll]
        /\ UNCHANGED <<sent, confirmed, answered>>
        /\ offset' = offset \/ offset' = poll[p].upto + 1
    BY DEF StoreOffset, PollOver, NextOffset
  <1>2. poll[p].upto \in Nat /\ poll[p].next \in Nat /\ poll[p].upto + 1 <= poll[p].next
    BY DEF StoreOffset, Handling, BotInv
  <1>3. HandledBefore(poll[p].upto + 1)
    BY <1>2 DEF BotInv, PollBehind, HandledBefore, Updates
  <1>4. offset' \in Nat /\ HandledBefore(offset')
    BY <1>1, <1>2, <1>3 DEF BotInv
  <1>5. QED
    BY <1>1, <1>4, MovesPoll, NoPollHandled DEF BotInv

LEMMA BotStep == BotInv /\ [BotNext]_botVars => BotInv'
  <1> SUFFICES ASSUME BotInv, [BotNext]_botVars PROVE BotInv'
    OBVIOUS
  <1>1. CASE UNCHANGED botVars
    BY <1>1, OutsideStep DEF botVars, BotInv
  <1>2. CASE UserWrites \/ BotTick
    BY <1>2, OutsideStep DEF UserWrites, BotTick, BotInv
  <1>3. ASSUME NEW p \in Listeners, BotClaims(p)
        PROVE  BotInv'
    BY <1>3, OutsideStep DEF BotClaims, BotInv
  <1>4. ASSUME NEW p \in Listeners, LoadOffset(p)
        PROVE  BotInv'
    <2>1. Larger(offset, 1) \in Nat /\ HandledBefore(Larger(offset, 1))
      <3>1. HandledBefore(1)
        BY DEF HandledBefore, Updates
      <3>2. QED
        BY <3>1, LargerHandled DEF BotInv
    <2>2. HandledBefore(0)
      BY DEF HandledBefore, Updates
    <2>3. QED
      <3>1. PICK r : r = [from |-> Larger(offset, 1), next |-> 0, upto |-> 0]
        OBVIOUS
      <3>2. /\ r \in [from : Nat, next : Nat, upto : Nat]
            /\ HandledBefore(r.from) /\ HandledBefore(r.next)
        BY <2>1, <2>2, <3>1
      <3>3. poll' = [poll EXCEPT ![p] = r]
        BY <1>4, <3>1 DEF LoadOffset, PollGoesOn
      <3>4. QED
        BY <1>4, <3>2, <3>3, MovesPoll DEF LoadOffset, BotInv
  <1>5. ASSUME NEW p \in Listeners, HandlingFails(p)
        PROVE  BotInv'
    BY <1>5, MovesPoll, NoPollHandled
       DEF HandlingFails, PollOver, OffsetAfterError, BotInv
  <1>6. ASSUME NEW p \in Listeners, PollerDies(p)
        PROVE  BotInv'
    BY <1>6, MovesPoll, NoPollHandled DEF PollerDies, BotInv
  <1>7. QED
    BY <1>1, <1>2, <1>3, <1>4, <1>5, <1>6, GetUpdatesStep, FetchFailsStep, HandleStep,
       StoreStep DEF BotNext

LEMMA BotStart == BotInit => BotInv
  BY DEF BotInit, BotInv, PollBehind, NoPoll, HandledBefore, Updates

LEMMA BotInvariant == BotSpec => []BotInv
  BY BotStart, BotStep, PTL DEF BotSpec

-----------------------------------------------------------------------------
(* The theorem about what is kept. *)

\* No command is lost: what the stored offset or Telegram has left behind was
\* handled to the end, whoever polled, failed, died or polled past its lease.
THEOREM BotKeepsCommands == BotSpec => []CommandsKept
  <1>1. BotInv => CommandsKept
    BY LargerHandled DEF BotInv, CommandsKept, HandledBefore, Updates
  <1>2. QED
    BY <1>1, BotInvariant, PTL

-----------------------------------------------------------------------------
(* How often a command is handled.  Each poll that outlasted its lease, and   *)
(* the poll within its lease or, when there is none, the next one, may still  *)
(* open one meeting for a command; these chances and the meetings there are   *)
(* make up the count that RepeatsBounded limits.                              *)

Valid(p) == listening[p] /\ since[p] < TTL

\* The polls past their lease that may still come to command u.
Late(u) == {p \in Listeners : listening[p] /\ since[p] = TTL /\ poll[p].next =< u}

\* The poll within its lease may, or may leave it to the next one.
Comes(p, u) == IF poll[p].next > 0 THEN poll[p].next =< u
               ELSE offset =< u \/ poll[p].from \in 1..u
Open(u) == \/ offset =< u /\ \A p \in Listeners : ~Valid(p)
           \/ \E p \in Listeners : Valid(p) /\ Comes(p, u)
Chance(u) == IF Open(u) THEN 1 ELSE 0

Counted(u) == meetings[u] + Cardinality(Late(u)) + Chance(u) =< 1 + faults + overruns

PollsOK ==
  /\ LeaseInv /\ BotInv
  /\ meetings \in [Updates -> Nat] /\ overruns \in Nat
  /\ \A p \in Listeners :
       /\ poll[p] # NoPoll => listening[p]
       /\ poll[p].next > 0 => poll[p].next =< poll[p].upto + 1

RepeatInv == PollsOK /\ \A u \in Updates : Counted(u)

-----------------------------------------------------------------------------
(* The polls. *)

LEMMA PollOverKeepsLease ==
  ASSUME LeaseInv, NEW p \in Listeners, PollOver(p), UNCHANGED faults \/ Fault
  PROVE  LeaseInv'
  <1>1. faults' \in 0..MaxFaults
    BY LeaseAssumption DEF LeaseInv, LeaseTypeOK, Fault
  <1>2. QED
    BY <1>1, LeaseAssumption
       DEF LeaseInv, LeaseTypeOK, GrantsCovered, ClaimsJustified, Claimable, Expired, PollOver

LEMMA LeaseKept == LeaseInv /\ [BotNext]_botVars => LeaseInv'
  <1> SUFFICES ASSUME LeaseInv, [BotNext]_botVars PROVE LeaseInv'
    OBVIOUS
  <1>1. CASE UNCHANGED leaseVars
    BY <1>1 DEF leaseVars, LeaseInv, LeaseTypeOK, GrantsCovered, ClaimsJustified,
                Claimable, Expired
  <1>2. CASE UserWrites \/ UNCHANGED botVars
    BY <1>1, <1>2 DEF UserWrites, botVars
  <1>3. CASE BotTick
    BY <1>3, TickKeepsLease DEF BotTick
  <1>4. ASSUME NEW p \in Listeners, BotClaims(p)
        PROVE  LeaseInv'
    BY <1>4, AskKeepsLease, ClaimsKeepLease, FaultsKeepLease DEF BotClaims, Faults
  <1>5. ASSUME NEW p \in Listeners, LoadOffset(p) \/ GetUpdates(p) \/ HandleUpdate(p)
        PROVE  LeaseInv'
    <2>1. UNCHANGED leaseVars \/ (PollOver(p) /\ UNCHANGED faults)
      BY <1>5 DEF LoadOffset, GetUpdates, HandleUpdate, PollGoesOn
    <2>2. QED
      BY <1>1, <2>1, PollOverKeepsLease
  <1>6. ASSUME NEW p \in Listeners, GetUpdatesFails(p) \/ HandlingFails(p) \/ StoreOffset(p)
        PROVE  LeaseInv'
    BY <1>6, PollOverKeepsLease DEF GetUpdatesFails, HandlingFails, StoreOffset
  <1>7. ASSUME NEW p \in Listeners, PollerDies(p)
        PROVE  LeaseInv'
    BY <1>7, FaultsKeepLease DEF PollerDies, Faults
  <1>8. ASSUME NEW p \in Listeners, LoadOffsetFails(p)
        PROVE  LeaseInv'
    <2>1. faults' \in 0..MaxFaults
      BY <1>8, LeaseAssumption DEF LoadOffsetFails, Fault, LeaseInv, LeaseTypeOK
    <2>2. QED
      BY <1>8, <2>1 DEF LoadOffsetFails, LeaseInv, LeaseTypeOK, GrantsCovered,
                        ClaimsJustified, Claimable, Expired
  <1>9. QED
    BY <1>2, <1>3, <1>4, <1>5, <1>6, <1>7, <1>8 DEF BotNext

LEMMA PollsInit == BotInit => PollsOK
  <1>1. LeaseInit => LeaseInv
    BY LeaseAssumption
       DEF LeaseInit, LeaseInv, LeaseTypeOK, GrantsCovered, ClaimsJustified, Oldest
  <1>2. QED
    BY <1>1, BotStart DEF BotInit, PollsOK, NoPoll

\* What the steps leave of a poll.
PollMoves(p) ==
  \/ poll'[p] = poll[p] /\ (listening[p] => listening'[p])
  \/ poll'[p] = NoPoll
  \/ listening'[p] /\ (poll'[p].next > 0 => poll'[p].next =< poll'[p].upto + 1)

LEMMA PollsStep == PollsOK /\ [BotNext]_botVars => PollsOK'
  <1> SUFFICES ASSUME PollsOK, [BotNext]_botVars PROVE PollsOK'
    OBVIOUS
  <1>1. LeaseInv' /\ BotInv'
    BY LeaseKept, BotStep DEF PollsOK
  <1>2. meetings' \in [Updates -> Nat] /\ overruns' \in Nat
    <2>1. meetings' = meetings \/ \E u : meetings' = [meetings EXCEPT ![u] = @ + 1]
      BY DEF BotNext, botVars, UserWrites, BotTick, BotClaims, LoadOffset,
             LoadOffsetFails, GetUpdates, GetUpdatesFails, HandleUpdate, HandlingFails, StoreOffset, PollerDies, OpensMeeting
    <2>2. overruns' = overruns \/ overruns' = overruns + 1
      BY DEF BotNext, botVars, UserWrites, BotTick, BotClaims, LoadOffset,
             LoadOffsetFails, GetUpdates, GetUpdatesFails, HandleUpdate, HandlingFails, StoreOffset, PollerDies, Overrun
    <2>3. QED
      BY <2>1, <2>2 DEF PollsOK
  <1>3. ASSUME NEW q \in Listeners
        PROVE  PollMoves(q)
    <2>0. /\ poll \in [Listeners -> [from : Nat, next : Nat, upto : Nat]]
          /\ listening \in [Listeners -> BOOLEAN]
          /\ poll[q] # NoPoll => listening[q]
          /\ sent \in Nat /\ confirmed \in Nat /\ offset \in Nat
      BY DEF PollsOK, BotInv, LeaseInv, LeaseTypeOK
    <2>1. CASE UNCHANGED <<poll, listening>>
      BY <2>1 DEF PollMoves
    <2>2. CASE UserWrites \/ BotTick \/ UNCHANGED botVars
      BY <2>1, <2>2 DEF UserWrites, BotTick, LeaseTick, botVars, leaseVars
    <2>3. ASSUME NEW p \in Listeners, BotClaims(p)
          PROVE  PollMoves(q)
      <3>1. poll' = poll
        BY <2>3 DEF BotClaims
      <3>2. q # p => listening'[q] = listening[q]
        BY <2>0, <2>3 DEF BotClaims, Ask, Claims, ReadRow, InsertRow, UpdateRow, Judge,
                          Refuse, Grant, ClaimFails, ProcessStarts
      <3>3. ~listening[p]
        BY <2>3 DEF BotClaims, Polls
      <3>4. QED
        BY <3>1, <3>2, <3>3 DEF PollMoves
    <2>4. ASSUME NEW p \in Listeners, PollOver(p)
          PROVE  PollMoves(q)
      BY <2>0, <2>4 DEF PollOver, PollMoves
    <2>5. ASSUME NEW p \in Listeners, LoadOffset(p) \/ LoadOffsetFails(p)
          PROVE  PollMoves(q)
      BY <2>0, <2>5
         DEF LoadOffset, LoadOffsetFails, PollGoesOn, leaseVars, Polls, PollMoves
    <2>6. ASSUME NEW p \in Listeners, GetUpdates(p)
          PROVE  PollMoves(q)
      <3>0. PICK first : first = Larger(poll[p].from, confirmed)
        OBVIOUS
      <3>1. first \in Nat
        BY <2>0, <3>0 DEF Larger
      <3>2. CASE first > sent
        BY <2>4, <2>6, <3>0, <3>2 DEF GetUpdates
      <3>3. CASE ~(first > sent)
        <4>1. /\ poll' = [poll EXCEPT ![p] = [poll[p] EXCEPT !.next = first, !.upto = sent]]
              /\ listening' = listening /\ poll[p].from > 0
          BY <2>6, <3>0, <3>3 DEF GetUpdates, PollGoesOn, leaseVars
        <4>2. CASE q = p
          <5>1. poll'[p].next = first /\ poll'[p].upto = sent
            BY <2>0, <4>1
          <5>2. poll[p] # NoPoll
            BY <4>1 DEF NoPoll
          <5>3. QED
            BY <2>0, <3>1, <3>3, <4>1, <4>2, <5>1, <5>2 DEF PollMoves
        <4>3. CASE q # p
          BY <2>0, <4>1, <4>3 DEF PollMoves
        <4>4. QED
          BY <4>2, <4>3
      <3>4. QED
        BY <3>2, <3>3
    <2>7. ASSUME NEW p \in Listeners, HandleUpdate(p)
          PROVE  PollMoves(q)
      <3>1. /\ poll' = [poll EXCEPT ![p] = [poll[p] EXCEPT !.next = @ + 1]]
            /\ listening' = listening /\ poll[p].next \in 1..poll[p].upto
        BY <2>7 DEF HandleUpdate, PollGoesOn, Handling, leaseVars
      <3>2. CASE q = p
        <4>1. poll'[p].next = poll[p].next + 1 /\ poll'[p].upto = poll[p].upto
          BY <2>0, <3>1
        <4>2. poll[p] # NoPoll
          BY <3>1 DEF NoPoll
        <4>3. QED
          BY <2>0, <3>1, <3>2, <4>1, <4>2 DEF PollMoves
      <3>3. CASE q # p
        BY <2>0, <3>1, <3>3 DEF PollMoves
      <3>4. QED
        BY <3>2, <3>3
    <2>8. ASSUME NEW p \in Listeners, GetUpdatesFails(p) \/ HandlingFails(p) \/ StoreOffset(p)
          PROVE  PollMoves(q)
      BY <2>4, <2>8 DEF GetUpdatesFails, HandlingFails, StoreOffset
    <2>9. ASSUME NEW p \in Listeners, PollerDies(p)
          PROVE  PollMoves(q)
      BY <2>0, <2>9 DEF PollerDies, ProcessDies, PollMoves
    <2>10. QED
      BY <2>2, <2>3, <2>5, <2>6, <2>7, <2>8, <2>9 DEF BotNext
  <1>4. ASSUME NEW q \in Listeners
        PROVE  /\ poll'[q] # NoPoll => listening'[q]
               /\ poll'[q].next > 0 => poll'[q].next =< poll'[q].upto + 1
    BY <1>3 DEF PollMoves, PollsOK, NoPoll
  <1>5. QED
    BY <1>1, <1>2, <1>4 DEF PollsOK

-----------------------------------------------------------------------------
(* The count. *)

LEMMA LateSizes ==
  ASSUME NEW A \in SUBSET Listeners, NEW B \in SUBSET Listeners, NEW p \in Listeners
  PROVE  /\ Cardinality(A) \in Nat /\ Cardinality(B) \in Nat
         /\ B \subseteq A => Cardinality(B) =< Cardinality(A)
         /\ p \in A /\ B \subseteq A \ {p} => Cardinality(B) + 1 =< Cardinality(A)
         /\ B \subseteq A \cup {p} => Cardinality(B) =< Cardinality(A) + 1
  <1>1. IsFiniteSet(A) /\ IsFiniteSet(B) /\ IsFiniteSet(A \cup {p}) /\ IsFiniteSet(A \ {p})
    BY LeaseAssumption, FS_Subset
  <1>2. Cardinality(A) \in Nat /\ Cardinality(B) \in Nat
    BY <1>1, FS_CardinalityType
  <1>3. B \subseteq A => Cardinality(B) =< Cardinality(A)
    BY <1>1, FS_Subset
  <1>4. p \in A => Cardinality(A \ {p}) = Cardinality(A) - 1
    BY <1>1, FS_RemoveElement
  <1>5. B \subseteq A \ {p} => Cardinality(B) =< Cardinality(A \ {p})
    BY <1>1, FS_Subset
  <1>6. p \notin A => Cardinality(A \cup {p}) = Cardinality(A) + 1
    BY <1>1, FS_AddElement
  <1>7. p \in A => A \cup {p} = A
    OBVIOUS
  <1>8. B \subseteq A \cup {p} => Cardinality(B) =< Cardinality(A \cup {p})
    BY <1>1, FS_Subset
  <1>9. QED
    BY <1>2, <1>3, <1>4, <1>5, <1>6, <1>7, <1>8

LEMMA LateSize ==
  ASSUME NEW A \in SUBSET Listeners
  PROVE  Cardinality(A) \in Nat
  BY LeaseAssumption, FS_Subset, FS_CardinalityType

\* Only one poll is within its lease.
LEMMA ValidAlone ==
  ASSUME PollsOK, NEW p \in Listeners, NEW q \in Listeners, Valid(p), Valid(q)
  PROVE  p = q
  BY DEF PollsOK, LeaseInv, GrantsCovered, Valid

\* The types the count relies on.
LEMMA CountTypes ==
  ASSUME PollsOK, NEW u \in Updates
  PROVE  /\ meetings \in [Updates -> Nat] /\ faults \in Nat /\ overruns \in Nat
         /\ offset \in Nat /\ confirmed \in Nat /\ sent \in Nat /\ u \in Nat /\ u > 0
         /\ poll \in [Listeners -> [from : Nat, next : Nat, upto : Nat]]
         /\ listening \in [Listeners -> BOOLEAN] /\ since \in [Listeners -> 0..TTL]
         /\ Late(u) \in SUBSET Listeners /\ TTL \in Nat /\ TTL > 0
  BY UpdatesAssumption, LeaseAssumption
     DEF PollsOK, LeaseInv, LeaseTypeOK, BotInv, Late, Updates

\* What changes of the count is made up for.
Settled(u) ==
  meetings'[u] + Cardinality(Late(u)') + (IF Open(u)' THEN 1 ELSE 0) + faults + overruns
    =< meetings[u] + Cardinality(Late(u)) + (IF Open(u) THEN 1 ELSE 0) + faults' + overruns'

\* A poll ends, and leaves the offset as it is or stores its own.
LEMMA PollOverCounted ==
  ASSUME PollsOK, PollsOK', NEW u \in Updates, NEW p \in Listeners, listening[p],
         poll' = [poll EXCEPT ![p] = NoPoll],
         listening' = [listening EXCEPT ![p] = FALSE],
         since' = [since EXCEPT ![p] = 0], UNCHANGED overruns,
         \/ /\ faults' = faults + 1 /\ UNCHANGED offset
            /\ \/ UNCHANGED meetings
               \/ meetings' = [meetings EXCEPT ![poll[p].next] = @ + 1]
         \/ /\ UNCHANGED <<faults, meetings>>
            /\ \/ UNCHANGED offset /\ poll[p].next = 0
               \/ offset' = poll[p].upto + 1 /\ poll[p].next > poll[p].upto
  PROVE  Settled(u)
  <1>t. /\ meetings \in [Updates -> Nat] /\ faults \in Nat /\ overruns \in Nat
        /\ offset \in Nat /\ u \in Nat /\ u > 0
        /\ poll \in [Listeners -> [from : Nat, next : Nat, upto : Nat]]
        /\ listening \in [Listeners -> BOOLEAN] /\ since \in [Listeners -> 0..TTL]
        /\ Late(u) \in SUBSET Listeners /\ TTL \in Nat /\ TTL > 0
    BY CountTypes
  <1>p. poll[p].next \in Nat /\ poll[p].upto \in Nat
        /\ (poll[p].next > 0 => poll[p].next =< poll[p].upto + 1)
    BY <1>t DEF PollsOK
  <1>1. Late(u)' = Late(u) \ {p}
    BY <1>t DEF Late
  <1>2. ~Valid(p)' /\ \A q \in Listeners \ {p} : Valid(q)' = Valid(q)
    BY <1>t DEF Valid
  <1>3. \A q \in Listeners \ {p} :
          /\ offset' = offset => Comes(q, u)' = Comes(q, u)
          /\ Comes(q, u)' => Comes(q, u) \/ offset' =< u
    BY <1>t DEF Comes
  <1>4. CASE Valid(p)
    <2>1. \A q \in Listeners : ~Valid(q)'
      BY <1>2, <1>4, ValidAlone
    <2>2. Open(u)' => offset' =< u
      BY <2>1 DEF Open
    <2>3. Comes(p, u) => Open(u)
      BY <1>4 DEF Open
    <2>4. p \notin Late(u)
      BY <1>4, <1>t DEF Valid, Late
    <2>5. Late(u)' = Late(u)
      BY <1>1, <2>4
    <2>6. Cardinality(Late(u)) \in Nat
      BY <1>t, LateSize
    <2>7. CASE faults' = faults + 1 /\ UNCHANGED offset /\ UNCHANGED meetings
      BY <1>t, <2>5, <2>6, <2>7 DEF Settled
    <2>8. CASE /\ faults' = faults + 1 /\ UNCHANGED offset
               /\ meetings' = [meetings EXCEPT ![poll[p].next] = @ + 1]
      <3>1. CASE poll[p].next = u
        <4>1. Open(u) /\ meetings'[u] = meetings[u] + 1
          BY <1>t, <2>3, <2>8, <3>1 DEF Comes
        <4>2. QED
          BY <1>t, <2>5, <2>6, <2>8, <4>1 DEF Settled
      <3>2. CASE poll[p].next # u
        <4>1. meetings'[u] = meetings[u]
          BY <1>t, <2>8, <3>2
        <4>2. QED
          BY <1>t, <2>5, <2>6, <2>8, <4>1 DEF Settled
      <3>3. QED
        BY <3>1, <3>2
    <2>9. CASE UNCHANGED <<faults, meetings>> /\ UNCHANGED offset /\ poll[p].next = 0
      <3>1. Open(u)' => Open(u)
        BY <2>2, <2>3, <2>9 DEF Comes
      <3>2. QED
        BY <1>t, <2>5, <2>6, <2>9, <3>1 DEF Settled
    <2>10. CASE /\ UNCHANGED <<faults, meetings>>
                /\ offset' = poll[p].upto + 1 /\ poll[p].next > poll[p].upto
      <3>1. offset' =< u => Comes(p, u)
        BY <1>t, <1>p, <2>10 DEF Comes
      <3>2. Open(u)' => Open(u)
        BY <2>2, <2>3, <3>1
      <3>3. QED
        BY <1>t, <2>5, <2>6, <2>10, <3>2 DEF Settled
    <2>11. QED
      BY <2>7, <2>8, <2>9, <2>10
  <1>5. CASE ~Valid(p)
    <2>1. since[p] = TTL /\ (p \in Late(u) <=> poll[p].next =< u)
      BY <1>t, <1>5 DEF Valid, Late
    <2>2. /\ Cardinality(Late(u)) \in Nat /\ Cardinality(Late(u)') \in Nat
          /\ Cardinality(Late(u)') =< Cardinality(Late(u))
          /\ p \in Late(u) => Cardinality(Late(u)') + 1 =< Cardinality(Late(u))
      <3>1. Late(u)' \in SUBSET Listeners /\ Late(u)' \subseteq Late(u)
            /\ (p \in Late(u) => Late(u)' \subseteq Late(u) \ {p})
        BY <1>1, <1>t
      <3>2. QED
        BY <1>t, <3>1, LateSizes
    <2>3. UNCHANGED offset => (Open(u)' => Open(u))
      BY <1>2, <1>3, <1>5 DEF Open
    <2>4. Open(u)' => Open(u) \/ offset' =< u
      BY <1>2, <1>3, <1>5 DEF Open
    <2>7. CASE faults' = faults + 1 /\ UNCHANGED offset /\ UNCHANGED meetings
      BY <1>t, <2>2, <2>3, <2>7 DEF Settled
    <2>8. CASE /\ faults' = faults + 1 /\ UNCHANGED offset
               /\ meetings' = [meetings EXCEPT ![poll[p].next] = @ + 1]
      <3>1. meetings'[u] =< meetings[u] + 1 /\ meetings'[u] \in Nat
        BY <1>t, <2>8
      <3>2. QED
        BY <1>t, <2>2, <2>3, <2>8, <3>1 DEF Settled
    <2>9. CASE UNCHANGED <<faults, meetings>> /\ UNCHANGED offset /\ poll[p].next = 0
      BY <1>t, <2>2, <2>3, <2>9 DEF Settled
    <2>10. CASE /\ UNCHANGED <<faults, meetings>>
                /\ offset' = poll[p].upto + 1 /\ poll[p].next > poll[p].upto
      <3>1. offset' =< u => p \in Late(u)
        BY <1>t, <1>p, <2>1, <2>10
      <3>2. QED
        BY <1>t, <2>2, <2>4, <2>10, <3>1 DEF Settled
    <2>11. QED
      BY <2>7, <2>8, <2>9, <2>10
  <1>6. QED
    BY <1>4, <1>5

\* A poll that goes on counts as before or for less.
LEMMA PollGoesOnCounted ==
  ASSUME PollsOK, PollsOK', NEW u \in Updates, NEW p \in Listeners, listening[p],
         UNCHANGED <<leaseVars, offset, overruns>>,
         \A q \in Listeners \ {p} : poll'[q] = poll[q],
         Comes(p, u)' => Comes(p, u), poll'[p].next =< u => poll[p].next =< u,
         \/ UNCHANGED meetings
         \/ meetings' = [meetings EXCEPT ![poll[p].next] = @ + 1] /\ poll[p].next > 0
            /\ poll'[p].next = poll[p].next + 1
  PROVE  Settled(u)
  <1>t. /\ meetings \in [Updates -> Nat] /\ faults \in Nat /\ overruns \in Nat
        /\ offset \in Nat /\ u \in Nat /\ u > 0
        /\ poll \in [Listeners -> [from : Nat, next : Nat, upto : Nat]]
        /\ listening \in [Listeners -> BOOLEAN] /\ since \in [Listeners -> 0..TTL]
        /\ Late(u) \in SUBSET Listeners /\ TTL \in Nat /\ TTL > 0
    BY CountTypes
  <1>0. faults' = faults /\ overruns' = overruns /\ listening' = listening /\ since' = since
        /\ offset' = offset
    BY DEF leaseVars
  <1>1. Late(u)' \subseteq Late(u)
    BY <1>0 DEF Late
  <1>2. /\ Cardinality(Late(u)) \in Nat /\ Cardinality(Late(u)') \in Nat
        /\ Cardinality(Late(u)') =< Cardinality(Late(u))
        /\ p \in Late(u) /\ p \notin Late(u)' => Cardinality(Late(u)') + 1 =< Cardinality(Late(u))
    <2>1. Late(u)' \in SUBSET Listeners /\ (p \notin Late(u)' => Late(u)' \subseteq Late(u) \ {p})
      BY <1>1, <1>t
    <2>2. QED
      BY <1>1, <1>t, <2>1, LateSizes
  <1>3. \A q \in Listeners : Valid(q)' = Valid(q)
    BY <1>0 DEF Valid
  <1>4. \A q \in Listeners : Comes(q, u)' => Comes(q, u)
    BY <1>0 DEF Comes
  <1>5. Open(u)' => Open(u)
    BY <1>0, <1>3, <1>4 DEF Open
  <1>6. CASE meetings'[u] = meetings[u]
    BY <1>t, <1>0, <1>2, <1>5, <1>6 DEF Settled
  <1>7. CASE meetings'[u] # meetings[u]
    <2>1. poll[p].next = u /\ meetings'[u] = meetings[u] + 1 /\ poll'[p].next = u + 1
      BY <1>t, <1>7
    <2>2. CASE Valid(p)
      <3>1. Open(u)
        BY <1>t, <2>1, <2>2 DEF Open, Comes
      <3>2. ~Comes(p, u)'
        BY <1>t, <2>1 DEF Comes
      <3>3. ~Open(u)'
        <4>1. \A q \in Listeners : Valid(q)' => q = p
          BY <1>3, <2>2, ValidAlone
        <4>2. Valid(p)'
          BY <1>3, <2>2
        <4>3. QED
          BY <3>2, <4>1, <4>2 DEF Open
      <3>4. QED
        BY <1>t, <1>0, <1>2, <2>1, <3>1, <3>3 DEF Settled
    <2>3. CASE ~Valid(p)
      <3>1. since[p] \in 0..TTL /\ ~(since[p] < TTL)
        <4>1. p \in Listeners /\ listening[p] /\ since[p] \in 0..TTL
          BY <1>t
        <4>2. QED
          BY <4>1, <2>3, Zenon DEF Valid
      <3>0. since[p] = TTL
        <4>1. TTL \in Nat
          BY <1>t
        <4>2. QED
          BY <3>1, <4>1
      <3>2. p \in Late(u)
        <4>1. poll[p].next =< u
          <5>1. u \in Nat
            BY <1>t
          <5>2. QED
            BY <2>1, <5>1
        <4>2. p \in Listeners /\ listening[p]
          BY <1>t
        <4>3. QED
          BY <3>0, <4>1, <4>2, Zenon DEF Late
      <3>3. p \notin Late(u)'
        <4>1. ~(poll'[p].next =< u)
          BY <1>t, <2>1
        <4>2. QED
          BY <4>1 DEF Late
      <3>4. QED
        BY <1>t, <1>0, <1>2, <1>5, <2>1, <3>2, <3>3 DEF Settled
    <2>4. QED
      BY <2>2, <2>3
  <1>8. QED
    BY <1>6, <1>7

LEMMA TickCounted ==
  ASSUME PollsOK, PollsOK', NEW u \in Updates, BotTick
  PROVE  Settled(u)
  <1>t. /\ meetings \in [Updates -> Nat] /\ faults \in Nat /\ overruns \in Nat
        /\ offset \in Nat /\ u \in Nat /\ u > 0
        /\ poll \in [Listeners -> [from : Nat, next : Nat, upto : Nat]]
        /\ listening \in [Listeners -> BOOLEAN] /\ since \in [Listeners -> 0..TTL]
        /\ Late(u) \in SUBSET Listeners /\ TTL \in Nat /\ TTL > 0
    BY CountTypes
  <1>0. /\ since' = [p \in Listeners |-> IF listening[p] THEN OneOlder(since[p], TTL) ELSE 0]
        /\ UNCHANGED <<listening, faults, poll, offset, meetings>>
    BY DEF BotTick, LeaseTick
  <1>1. \A q \in Listeners : Comes(q, u)' = Comes(q, u)
    BY <1>0 DEF Comes
  <1>2. \A q \in Listeners : /\ q \in Late(u) => q \in Late(u)'
                             /\ Valid(q)' => Valid(q)
                             /\ q \in Late(u)' => q \in Late(u) \/ (Valid(q) /\ since'[q] = TTL)
                             /\ Valid(q) /\ ~Valid(q)' => listening[q] /\ since[q] < TTL /\ since'[q] = TTL
    BY <1>t, <1>0 DEF Late, Valid, OneOlder
  <1>3. Late(u)' \in SUBSET Listeners
    BY DEF Late
  <1>4. CASE \E p \in Listeners : Valid(p) /\ since'[p] = TTL
    <2>1. PICK p \in Listeners : Valid(p) /\ since'[p] = TTL
      BY <1>4
    <2>2. overruns' = overruns + 1
      BY <2>1 DEF BotTick, Overrun, Valid, Polls
    <2>3. \A q \in Listeners : ~Valid(q)'
      <3>1. ~Valid(p)'
        BY <2>1, <1>t DEF Valid
      <3>2. QED
        BY <1>2, <2>1, <3>1, ValidAlone
    <2>4. Open(u)' => offset =< u
      BY <1>0, <2>3 DEF Open
    <2>5. Comes(p, u) => Open(u)
      BY <2>1 DEF Open
    <2>6. Late(u)' \subseteq Late(u) \cup {p}
      BY <1>2, <1>3, <2>1, ValidAlone
    <2>7. poll[p].next > u => Late(u)' \subseteq Late(u)
      <3>1. SUFFICES ASSUME poll[p].next > u PROVE p \notin Late(u)'
        BY <2>6
      <3>2. poll'[p].next = poll[p].next /\ poll[p].next \in Nat
        BY <1>0, <1>t
      <3>3. QED
        BY <1>t, <3>1, <3>2 DEF Late
    <2>8. poll[p].next =< u => (Open(u)' => Open(u))
      <3>1. SUFFICES ASSUME poll[p].next =< u, Open(u)' PROVE Comes(p, u)
        BY <2>5
      <3>2. QED
        BY <2>4, <3>1 DEF Comes
    <2>9. /\ Cardinality(Late(u)) \in Nat /\ Cardinality(Late(u)') \in Nat
          /\ Cardinality(Late(u)') =< Cardinality(Late(u)) + 1
          /\ poll[p].next > u => Cardinality(Late(u)') =< Cardinality(Late(u))
      BY <1>t, <1>3, <2>6, <2>7, LateSizes
    <2>10. poll[p].next \in Nat
      BY <1>t
    <2>11. QED
      BY <1>t, <1>0, <2>2, <2>8, <2>9, <2>10 DEF Settled
  <1>5. CASE ~ \E p \in Listeners : Valid(p) /\ since'[p] = TTL
    <2>1. overruns' = overruns
      BY <1>5 DEF BotTick, Valid, Polls
    <2>2. \A q \in Listeners : Valid(q)' = Valid(q)
      <3>1. \A q \in Listeners : Valid(q) => Valid(q)'
        BY <1>2, <1>5
      <3>2. \A q \in Listeners : Valid(q) \in BOOLEAN /\ Valid(q)' \in BOOLEAN
        BY <1>t, <1>0 DEF Valid
      <3>3. QED
        BY <1>2, <3>1, <3>2
    <2>3. Late(u)' = Late(u)
      BY <1>2, <1>3, <1>5, <1>t
    <2>4. Open(u)' => Open(u)
      BY <1>0, <1>1, <2>2 DEF Open
    <2>5. Cardinality(Late(u)) \in Nat
      BY <1>t, LateSize
    <2>6. QED
      BY <1>t, <1>0, <2>1, <2>3, <2>4, <2>5 DEF Settled
  <1>6. QED
    BY <1>4, <1>5

LEMMA ClaimsCounted ==
  ASSUME PollsOK, PollsOK', NEW u \in Updates, NEW p \in Listeners, BotClaims(p)
  PROVE  Settled(u)
  <1>t. /\ meetings \in [Updates -> Nat] /\ faults \in Nat /\ overruns \in Nat
        /\ offset \in Nat /\ u \in Nat /\ u > 0
        /\ poll \in [Listeners -> [from : Nat, next : Nat, upto : Nat]]
        /\ listening \in [Listeners -> BOOLEAN] /\ since \in [Listeners -> 0..TTL]
        /\ Late(u) \in SUBSET Listeners /\ TTL \in Nat /\ TTL > 0
    BY CountTypes
  <1>0. /\ ~listening[p] /\ poll[p] = NoPoll
        /\ UNCHANGED <<offset, poll, meetings>>
        /\ IF listening'[p] /\ since'[p] = TTL THEN overruns' = overruns + 1
           ELSE overruns' = overruns
    BY DEF BotClaims, Polls, Overrun, PollsOK
  <1>1. \A q \in Listeners \ {p} : listening'[q] = listening[q] /\ since'[q] = since[q]
    BY <1>t DEF BotClaims, Ask, Claims, ReadRow, InsertRow, UpdateRow, Judge, Refuse, Grant,
                ClaimFails, ProcessStarts
  <1>f. faults' \in Nat /\ faults' >= faults
    BY <1>t DEF BotClaims, Ask, Claims, ReadRow, InsertRow, UpdateRow, Judge, Refuse, Grant,
                ClaimFails, ProcessStarts, Fault
  <1>l. listening' \in [Listeners -> BOOLEAN] /\ since' \in [Listeners -> 0..TTL]
    BY DEF PollsOK, LeaseInv, LeaseTypeOK
  <1>2. Late(u)' \in SUBSET Listeners /\ p \notin Late(u) /\ ~Valid(p)
        /\ \A q \in Listeners \ {p} : (q \in Late(u)' <=> q \in Late(u)) /\ Valid(q)' = Valid(q)
    BY <1>t, <1>0, <1>1 DEF Late, Valid
  <1>3. \A q \in Listeners : Comes(q, u)' = Comes(q, u)
    BY <1>0 DEF Comes
  <1>4. Comes(p, u) <=> offset =< u
    BY <1>0, <1>t DEF Comes, NoPoll
  <1>5. CASE Valid(p)'
    <2>1. \A q \in Listeners : ~Valid(q)
      <3>1. ASSUME NEW q \in Listeners, Valid(q)
            PROVE  FALSE
        <4>1. q # p /\ Valid(q)'
          BY <1>2, <3>1
        <4>2. owner' = q /\ owner' = p
          BY <1>5, <4>1 DEF PollsOK, LeaseInv, GrantsCovered, Valid
        <4>3. QED
          BY <4>1, <4>2
      <3>2. QED
        BY <3>1
    <2>2. \A q \in Listeners : Valid(q)' => q = p
      BY <1>2, <2>1
    <2>3. Open(u)' => offset =< u
      BY <1>3, <1>4, <1>5, <2>2 DEF Open
    <2>4. Open(u)' => Open(u)
      BY <2>1, <2>3 DEF Open
    <2>5. p \notin Late(u)'
      BY <1>5, <1>l, <1>t DEF Late, Valid
    <2>6. Late(u)' = Late(u)
      <3>1. \A q \in Listeners : q \in Late(u)' <=> q \in Late(u)
        BY <1>2, <2>5
      <3>2. QED
        BY <1>2, <1>t, <3>1
    <2>7. overruns' = overruns
      BY <1>0, <1>5, <1>l, <1>t DEF Valid
    <2>8. Cardinality(Late(u)) \in Nat
      BY <1>t, LateSize
    <2>9. QED
      BY <1>t, <1>f, <1>0, <2>4, <2>6, <2>7, <2>8 DEF Settled
  <1>6. CASE ~Valid(p)'
    <2>1. Open(u)' => Open(u)
      BY <1>0, <1>2, <1>3, <1>6 DEF Open
    <2>2. Late(u)' \subseteq Late(u) \cup {p}
      BY <1>2
    <2>3. overruns' = overruns => Late(u)' \subseteq Late(u)
      <3>1. SUFFICES ASSUME overruns' = overruns PROVE p \notin Late(u)'
        BY <2>2
      <3>2. ~(listening'[p] /\ since'[p] = TTL)
        BY <1>0, <1>t, <3>1
      <3>3. QED
        BY <3>2 DEF Late
    <2>4. overruns' = overruns \/ overruns' = overruns + 1
      BY <1>0
    <2>5. /\ Cardinality(Late(u)) \in Nat /\ Cardinality(Late(u)') \in Nat
          /\ Cardinality(Late(u)') =< Cardinality(Late(u)) + 1
          /\ overruns' = overruns => Cardinality(Late(u)') =< Cardinality(Late(u))
      BY <1>t, <1>2, <2>2, <2>3, LateSizes
    <2>6. QED
      BY <1>t, <1>f, <1>0, <2>1, <2>4, <2>5 DEF Settled
  <1>7. QED
    BY <1>5, <1>6

\* A process dies that does not poll.
LEMMA IdleDeathCounted ==
  ASSUME PollsOK, PollsOK', NEW u \in Updates, NEW p \in Listeners, PollerDies(p), ~listening[p]
  PROVE  Settled(u)
  <1>t. /\ meetings \in [Updates -> Nat] /\ faults \in Nat /\ overruns \in Nat
        /\ offset \in Nat /\ u \in Nat /\ u > 0
        /\ poll \in [Listeners -> [from : Nat, next : Nat, upto : Nat]]
        /\ listening \in [Listeners -> BOOLEAN] /\ since \in [Listeners -> 0..TTL]
        /\ Late(u) \in SUBSET Listeners /\ TTL \in Nat /\ TTL > 0
    BY CountTypes
  <1>0. poll[p] = NoPoll
    BY DEF PollsOK
  <1>1. /\ poll' = poll /\ listening' = listening /\ since' = [since EXCEPT ![p] = 0]
        /\ UNCHANGED <<offset, meetings, overruns>> /\ faults' = faults + 1
    BY <1>0, <1>t DEF PollerDies, ProcessDies, Fault
  <1>2. Late(u)' = Late(u)
    BY <1>1, <1>t DEF Late
  <1>3. \A q \in Listeners : Valid(q)' = Valid(q)
    BY <1>1, <1>t DEF Valid
  <1>4. \A q \in Listeners : Comes(q, u)' = Comes(q, u)
    BY <1>1 DEF Comes
  <1>5. Open(u)' => Open(u)
    BY <1>1, <1>3, <1>4 DEF Open
  <1>6. Cardinality(Late(u)) \in Nat
    BY <1>t, LateSize
  <1>7. QED
    BY <1>t, <1>1, <1>2, <1>5, <1>6 DEF Settled

LEMMA CountStep ==
  ASSUME PollsOK, PollsOK', NEW u \in Updates, BotNext
  PROVE  Settled(u)
  <1>t. /\ meetings \in [Updates -> Nat] /\ faults \in Nat /\ overruns \in Nat
        /\ offset \in Nat /\ confirmed \in Nat /\ sent \in Nat /\ u \in Nat /\ u > 0
        /\ poll \in [Listeners -> [from : Nat, next : Nat, upto : Nat]]
        /\ listening \in [Listeners -> BOOLEAN] /\ since \in [Listeners -> 0..TTL]
        /\ Late(u) \in SUBSET Listeners /\ TTL \in Nat /\ TTL > 0
    BY CountTypes
  <1>p. \A p \in Listeners : poll[p] # NoPoll => listening[p]
    BY DEF PollsOK
  <1>1. CASE UserWrites
    <2>1. UNCHANGED <<offset, poll, meetings, overruns, listening, since, faults>>
      BY <1>1 DEF UserWrites, leaseVars
    <2>2. Late(u)' = Late(u) /\ Open(u)' = Open(u)
      BY <2>1 DEF Late, Open, Valid, Comes
    <2>3. Cardinality(Late(u)) \in Nat
      BY <1>t, LateSize
    <2>4. QED
      BY <1>t, <2>1, <2>2, <2>3 DEF Settled
  <1>2. CASE BotTick
    BY <1>2, TickCounted
  <1>3. ASSUME NEW p \in Listeners, BotClaims(p)
        PROVE  Settled(u)
    BY <1>3, ClaimsCounted
  <1>4. ASSUME NEW p \in Listeners, LoadOffset(p)
        PROVE  Settled(u)
    <2>1. /\ listening[p] /\ poll[p] = NoPoll /\ UNCHANGED <<leaseVars, offset, overruns, meetings>>
          /\ poll' = [poll EXCEPT ![p] = [from |-> Larger(offset, 1), next |-> 0, upto |-> 0]]
      BY <1>4 DEF LoadOffset, Polls, PollGoesOn
    <2>2. /\ poll'[p].from = Larger(offset, 1) /\ poll'[p].next = 0 /\ poll[p].next = 0
          /\ \A q \in Listeners \ {p} : poll'[q] = poll[q]
      BY <1>t, <2>1 DEF NoPoll
    <2>3. Comes(p, u)' => Comes(p, u)
      BY <1>t, <2>1, <2>2 DEF Comes, Larger
    <2>4. QED
      BY <2>1, <2>2, <2>3, PollGoesOnCounted
  <1>5. ASSUME NEW p \in Listeners, GetUpdates(p)
        PROVE  Settled(u)
    <2>0. PICK first : first = Larger(poll[p].from, confirmed)
      OBVIOUS
    <2>1. /\ poll[p].from > 0 /\ poll[p].next = 0 /\ UNCHANGED <<offset, meetings, overruns>>
          /\ first \in Nat /\ first >= poll[p].from
      BY <1>5, <1>t, <2>0 DEF GetUpdates, Larger
    <2>2. listening[p]
      BY <1>p, <2>1 DEF NoPoll
    <2>3. CASE first > sent
      <3>1. PollOver(p) /\ UNCHANGED faults
        BY <1>5, <2>0, <2>3 DEF GetUpdates
      <3>2. QED
        BY <2>1, <2>2, <3>1, PollOverCounted DEF PollOver
    <2>4. CASE ~(first > sent)
      <3>1. /\ poll' = [poll EXCEPT ![p] = [poll[p] EXCEPT !.next = first, !.upto = sent]]
            /\ UNCHANGED leaseVars
        BY <1>5, <2>0, <2>4 DEF GetUpdates, PollGoesOn
      <3>2. /\ poll'[p].next = first
            /\ \A q \in Listeners \ {p} : poll'[q] = poll[q]
        BY <1>t, <3>1
      <3>3. Comes(p, u)' => Comes(p, u)
        BY <1>t, <2>1, <3>2 DEF Comes
      <3>4. QED
        BY <1>t, <2>1, <2>2, <3>1, <3>2, <3>3, PollGoesOnCounted
    <2>5. QED
      BY <2>3, <2>4
  <1>6. ASSUME NEW p \in Listeners, HandleUpdate(p)
        PROVE  Settled(u)
    <2>1. /\ poll[p].next \in 1..poll[p].upto
          /\ meetings' = [meetings EXCEPT ![poll[p].next] = @ + 1]
          /\ poll' = [poll EXCEPT ![p] = [poll[p] EXCEPT !.next = @ + 1]]
          /\ UNCHANGED <<leaseVars, offset, overruns>>
      BY <1>6 DEF HandleUpdate, Handling, OpensMeeting, PollGoesOn
    <2>2. /\ poll'[p].next = poll[p].next + 1 /\ poll[p].next > 0
          /\ poll[p].next \in Nat
          /\ \A q \in Listeners \ {p} : poll'[q] = poll[q]
      BY <1>t, <2>1
    <2>3. listening[p]
      BY <1>p, <2>2 DEF NoPoll
    <2>4. Comes(p, u)' => Comes(p, u)
      BY <1>t, <2>2 DEF Comes
    <2>5. poll'[p].next =< u => poll[p].next =< u
      BY <1>t, <2>2
    <2>6. QED
      BY <2>1, <2>2, <2>3, <2>4, <2>5, PollGoesOnCounted
  <1>7. ASSUME NEW p \in Listeners, HandlingFails(p)
        PROVE  Settled(u)
    <2>1. listening[p]
      BY <1>7, <1>p, <1>t DEF HandlingFails, Handling, NoPoll
    <2>2. QED
      BY <1>7, <2>1, PollOverCounted
         DEF HandlingFails, PollOver, Fault, OpensMeeting, OffsetAfterError
  <1>8. ASSUME NEW p \in Listeners, StoreOffset(p)
        PROVE  Settled(u)
    <2>1. listening[p]
      BY <1>8, <1>p, <1>t DEF StoreOffset, NoPoll
    <2>2. poll[p].next > poll[p].upto
      BY <1>8, <1>t DEF StoreOffset, Handling
    <2>3. QED
      BY <1>8, <2>1, <2>2, PollOverCounted DEF StoreOffset, PollOver, Fault, NextOffset
  <1>9. ASSUME NEW p \in Listeners, PollerDies(p)
        PROVE  Settled(u)
    <2>1. CASE listening[p]
      BY <1>9, <2>1, PollOverCounted DEF PollerDies, ProcessDies, Fault
    <2>2. CASE ~listening[p]
      BY <1>9, <2>2, IdleDeathCounted
    <2>3. QED
      BY <2>1, <2>2
  <1>10. ASSUME NEW p \in Listeners, LoadOffsetFails(p)
         PROVE  Settled(u)
    <2>1. /\ poll[p] = NoPoll /\ UNCHANGED <<offset, overruns, meetings, listening, since>>
          /\ poll' = [poll EXCEPT ![p] = [from |-> 1, next |-> 0, upto |-> 0]]
          /\ faults' = faults + 1
      BY <1>10 DEF LoadOffsetFails, Fault
    <2>2. \A q \in Listeners : poll'[q].next = poll[q].next
      BY <1>t, <2>1 DEF NoPoll
    <2>3. Late(u)' = Late(u)
      BY <2>1, <2>2 DEF Late
    <2>4. Cardinality(Late(u)) \in Nat
      BY <1>t, LateSize
    <2>5. QED
      BY <1>t, <2>1, <2>3, <2>4 DEF Settled
  <1>11. ASSUME NEW p \in Listeners, GetUpdatesFails(p)
         PROVE  Settled(u)
    <2>1. listening[p]
      BY <1>11, <1>p, <1>t DEF GetUpdatesFails, NoPoll
    <2>2. QED
      BY <1>11, <2>1, PollOverCounted DEF GetUpdatesFails, PollOver, Fault
  <1>12. QED
    BY <1>1, <1>2, <1>3, <1>4, <1>5, <1>6, <1>7, <1>8, <1>9, <1>10, <1>11 DEF BotNext

LEMMA RepeatInvariant == BotSpec => []RepeatInv
  <1>1. BotInit => RepeatInv
    <2>1. SUFFICES ASSUME BotInit PROVE RepeatInv
      OBVIOUS
    <2>2. PollsOK
      BY <2>1, PollsInit
    <2>3. ASSUME NEW u \in Updates
          PROVE  Counted(u)
      <3>1. Late(u) = {}
        BY <2>1 DEF BotInit, LeaseInit, Late
      <3>2. meetings[u] = 0 /\ faults = 0 /\ overruns = 0 /\ Cardinality(Late(u)) = 0
        BY <2>1, <3>1, FS_EmptySet DEF BotInit, LeaseInit
      <3>3. QED
        BY <3>2 DEF Counted, Chance
    <2>4. QED
      BY <2>2, <2>3 DEF RepeatInv
  <1>2. RepeatInv /\ [BotNext]_botVars => RepeatInv'
    <2>1. SUFFICES ASSUME RepeatInv, [BotNext]_botVars PROVE RepeatInv'
      OBVIOUS
    <2>2. PollsOK /\ PollsOK'
      BY <2>1, PollsStep DEF RepeatInv
    <2>3. CASE UNCHANGED botVars
      BY <2>1, <2>2, <2>3 DEF botVars, leaseVars, RepeatInv, Counted, Chance, Late, Open, Valid,
                              Comes
    <2>4. CASE BotNext
      <3>1. ASSUME NEW u \in Updates
            PROVE  Counted(u)'
        <4>1. Settled(u) /\ Counted(u)
          BY <2>1, <2>2, <2>4, CountStep DEF RepeatInv
        <4>2. /\ meetings[u] \in Nat /\ meetings'[u] \in Nat /\ faults \in Nat /\ faults' \in Nat
              /\ overruns \in Nat /\ overruns' \in Nat
          BY <2>2, LeaseAssumption DEF PollsOK, LeaseInv, LeaseTypeOK
        <4>3. Cardinality(Late(u)) \in Nat /\ Cardinality(Late(u)') \in Nat
          <5>1. Late(u) \in SUBSET Listeners /\ Late(u)' \in SUBSET Listeners
            BY DEF Late
          <5>2. QED
            BY <5>1, LeaseAssumption, FS_Subset, FS_CardinalityType
        <4>4. QED
          BY <4>1, <4>2, <4>3 DEF Settled, Counted, Chance
      <3>2. QED
        BY <2>2, <3>1 DEF RepeatInv
    <2>5. QED
      BY <2>1, <2>3, <2>4
  <1>3. QED
    BY <1>1, <1>2, PTL DEF BotSpec

(* A command opens one meeting, and one more for each fault and each poll     *)
(* that outlasted its lease at most, whatever the listeners' order.           *)
THEOREM BotRepeatsBounded == BotSpec => []RepeatsBounded
  <1>1. RepeatInv => RepeatsBounded
    <2>1. SUFFICES ASSUME RepeatInv, NEW u \in Updates
                   PROVE  meetings[u] =< 1 + faults + overruns
      BY DEF RepeatsBounded
    <2>2. PollsOK /\ Counted(u)
      BY <2>1 DEF RepeatInv
    <2>3. Late(u) \in SUBSET Listeners /\ meetings[u] \in Nat /\ faults \in Nat /\ overruns \in Nat
      BY <2>2, CountTypes
    <2>4. Cardinality(Late(u)) \in Nat
      BY <2>3, LeaseAssumption, FS_Subset, FS_CardinalityType
    <2>5. QED
      BY <2>2, <2>3, <2>4 DEF Counted, Chance
  <1>2. QED
    BY <1>1, RepeatInvariant, PTL

-----------------------------------------------------------------------------
(* The numbers of the updates: nobody is past the one that comes next.        *)

Fits(r, n) == r.from =< n + 1 /\ r.next =< n + 1 /\ r.upto =< n

NumbersOK ==
  /\ sent \in 0..MaxUpdates /\ confirmed \in 1..(sent + 1) /\ offset \in 0..(sent + 1)
  /\ answered \subseteq 1..sent
  /\ \A p \in Listeners : Fits(poll[p], sent)

\* One poll moves, to a place where the updates sent allow it to be.
LEMMA OnePollFits ==
  ASSUME PollsOK, NumbersOK, NEW p \in Listeners, NEW r, poll' = [poll EXCEPT ![p] = r],
         Fits(r, sent), sent' = sent, confirmed' \in 1..(sent + 1), offset' \in 0..(sent + 1),
         answered' \subseteq 1..sent
  PROVE  NumbersOK'
  <1>1. poll \in [Listeners -> [from : Nat, next : Nat, upto : Nat]]
    BY DEF PollsOK, BotInv
  <1>2. ASSUME NEW q \in Listeners PROVE Fits(poll'[q], sent)
    <2>1. CASE q = p
      BY <1>1, <2>1
    <2>2. CASE q # p
      BY <1>1, <2>2 DEF NumbersOK
    <2>3. QED
      BY <2>1, <2>2
  <1>3. QED
    BY <1>2 DEF NumbersOK, Fits

LEMMA NumbersStay ==
  ASSUME NumbersOK, UNCHANGED <<sent, confirmed, offset, poll, answered>>
  PROVE  NumbersOK'
  BY DEF NumbersOK, Fits

LEMMA NumbersStep == PollsOK /\ NumbersOK /\ [BotNext]_botVars => NumbersOK'
  <1> SUFFICES ASSUME PollsOK, NumbersOK, [BotNext]_botVars PROVE NumbersOK'
    OBVIOUS
  <1>0. /\ sent \in Nat /\ confirmed \in Nat /\ offset \in Nat
        /\ \A p \in Listeners : poll[p] \in [from : Nat, next : Nat, upto : Nat]
        /\ confirmed \in 1..(sent + 1) /\ offset \in 0..(sent + 1) /\ answered \subseteq 1..sent
        /\ \A p \in Listeners : Fits(poll[p], sent)
    BY DEF PollsOK, BotInv, NumbersOK
  <1>1. Fits(NoPoll, sent)
    BY <1>0 DEF Fits, NoPoll
  <1>2. CASE UserWrites
    <2>1. sent' = sent + 1 /\ sent' \in 0..MaxUpdates
      BY <1>2, <1>0, UpdatesAssumption DEF UserWrites, NumbersOK
    <2>2. UNCHANGED <<confirmed, offset, poll, answered>>
      BY <1>2 DEF UserWrites
    <2>3. \A p \in Listeners : Fits(poll[p], sent + 1)
      BY <1>0 DEF Fits
    <2>4. confirmed \in 1..(sent' + 1) /\ offset \in 0..(sent' + 1) /\ answered \subseteq 1..sent'
      BY <1>0, <2>1
    <2>5. \A p \in Listeners : Fits(poll'[p], sent')
      BY <2>1, <2>2, <2>3
    <2>6. QED
      BY <2>1, <2>2, <2>4, <2>5 DEF NumbersOK, Fits
  <1>3. CASE BotTick \/ UNCHANGED botVars
    BY <1>3, NumbersStay DEF BotTick, botVars
  <1>4. ASSUME NEW p \in Listeners, BotClaims(p)
        PROVE  NumbersOK'
    BY <1>4, NumbersStay DEF BotClaims
  <1>5. ASSUME NEW p \in Listeners, LoadOffset(p)
        PROVE  NumbersOK'
    <2>1. PICK r : r = [from |-> Larger(offset, 1), next |-> 0, upto |-> 0]
      OBVIOUS
    <2>2. Fits(r, sent)
      BY <1>0, <2>1 DEF Fits, Larger
    <2>3. poll' = [poll EXCEPT ![p] = r] /\ UNCHANGED <<sent, confirmed, offset, answered>>
      BY <1>5, <2>1 DEF LoadOffset, PollGoesOn
    <2>4. QED
      BY <1>0, <2>2, <2>3, OnePollFits
  <1>6. ASSUME NEW p \in Listeners, GetUpdates(p)
        PROVE  NumbersOK'
    <2>1. PICK first : first = Larger(poll[p].from, confirmed)
      OBVIOUS
    <2>2. first \in 1..(sent + 1)
      BY <1>0, <2>1 DEF Larger, Fits
    <2>3. confirmed' = first /\ UNCHANGED <<sent, offset, answered>>
      BY <1>6, <2>1 DEF GetUpdates
    <2>4. CASE PollOver(p)
      BY <1>0, <1>1, <2>2, <2>3, <2>4, OnePollFits DEF PollOver
    <2>5. CASE PollGoesOn(p, [poll[p] EXCEPT !.next = first, !.upto = sent])
      <3>1. PICK r : r = [poll[p] EXCEPT !.next = first, !.upto = sent]
        OBVIOUS
      <3>2. r.from = poll[p].from /\ r.next = first /\ r.upto = sent
        BY <1>0, <3>1
      <3>3. Fits(r, sent)
        BY <1>0, <2>2, <3>2 DEF Fits
      <3>4. poll' = [poll EXCEPT ![p] = r]
        BY <2>5, <3>1 DEF PollGoesOn
      <3>5. QED
        BY <1>0, <2>2, <2>3, <3>3, <3>4, OnePollFits
    <2>6. QED
      BY <1>6, <2>1, <2>4, <2>5 DEF GetUpdates
  <1>7. ASSUME NEW p \in Listeners, HandleUpdate(p)
        PROVE  NumbersOK'
    <2>1. PICK u : u = poll[p].next
      OBVIOUS
    <2>2. u \in 1..poll[p].upto /\ poll[p].upto =< sent /\ poll[p].upto \in Nat
      BY <1>0, <1>7, <2>1 DEF HandleUpdate, Handling, Fits
    <2>3. PICK r : r = [poll[p] EXCEPT !.next = u + 1]
      OBVIOUS
    <2>4. /\ poll' = [poll EXCEPT ![p] = r] /\ answered' = answered \cup {u}
          /\ UNCHANGED <<sent, confirmed, offset>>
      BY <1>7, <2>1, <2>3 DEF HandleUpdate, PollGoesOn
    <2>5. r.from = poll[p].from /\ r.next = u + 1 /\ r.upto = poll[p].upto
      BY <1>0, <2>3
    <2>6. Fits(r, sent)
      BY <1>0, <2>2, <2>5 DEF Fits
    <2>7. answered' \subseteq 1..sent
      BY <1>0, <2>2, <2>4
    <2>8. QED
      BY <1>0, <2>4, <2>6, <2>7, OnePollFits
  <1>8. ASSUME NEW p \in Listeners, HandlingFails(p)
        PROVE  NumbersOK'
    BY <1>0, <1>1, <1>8, OnePollFits DEF HandlingFails, PollOver, OffsetAfterError
  <1>9. ASSUME NEW p \in Listeners, StoreOffset(p)
        PROVE  NumbersOK'
    <2>1. poll[p].upto + 1 \in 0..(sent + 1)
      BY <1>0 DEF Fits
    <2>2. offset' \in 0..(sent + 1)
      BY <1>0, <1>9, <2>1 DEF StoreOffset, NextOffset
    <2>3. QED
      BY <1>0, <1>1, <1>9, <2>2, OnePollFits DEF StoreOffset, PollOver
  <1>10. ASSUME NEW p \in Listeners, PollerDies(p)
         PROVE  NumbersOK'
    BY <1>0, <1>1, <1>10, OnePollFits DEF PollerDies
  <1>11. ASSUME NEW p \in Listeners, LoadOffsetFails(p)
         PROVE  NumbersOK'
    <2>1. PICK r : r = [from |-> 1, next |-> 0, upto |-> 0]
      OBVIOUS
    <2>2. Fits(r, sent)
      BY <1>0, <2>1 DEF Fits
    <2>3. poll' = [poll EXCEPT ![p] = r] /\ UNCHANGED <<sent, confirmed, offset, answered>>
      BY <1>11, <2>1 DEF LoadOffsetFails
    <2>4. QED
      BY <1>0, <2>2, <2>3, OnePollFits
  <1>12. ASSUME NEW p \in Listeners, GetUpdatesFails(p)
         PROVE  NumbersOK'
    <2>1. Larger(poll[p].from, confirmed) \in 1..(sent + 1)
      BY <1>0 DEF Larger, Fits
    <2>2. /\ confirmed' \in 1..(sent + 1) /\ UNCHANGED <<sent, offset, answered>>
          /\ poll' = [poll EXCEPT ![p] = NoPoll]
      BY <1>0, <1>12, <2>1 DEF GetUpdatesFails, PollOver
    <2>3. QED
      BY <1>0, <1>1, <2>2, OnePollFits
  <1>13. QED
    BY <1>2, <1>3, <1>4, <1>5, <1>6, <1>7, <1>8, <1>9, <1>10, <1>11, <1>12 DEF BotNext

\* The bot's state stays within its types: nothing is confirmed, stored or
\* answered that was not sent, and who is not listening has no poll.
THEOREM BotTypes == BotSpec => []BotTypeOK
  <1>1. BotInit => PollsOK /\ NumbersOK
    BY PollsInit, UpdatesAssumption DEF BotInit, NumbersOK, Fits, NoPoll
  <1>2. PollsOK /\ NumbersOK => BotTypeOK
    <2>1. SUFFICES ASSUME PollsOK, NumbersOK PROVE BotTypeOK
      OBVIOUS
    <2>2. confirmed \in 1..(MaxUpdates + 1) /\ offset \in 0..(MaxUpdates + 1)
      BY <2>1, UpdatesAssumption DEF NumbersOK
    <2>3. QED
      BY <2>1, <2>2 DEF PollsOK, LeaseInv, NumbersOK, BotTypeOK, Polls
  <1>3. QED
    BY <1>1, <1>2, PollsStep, NumbersStep, PTL DEF BotSpec
=============================================================================
