----------------------------- MODULE BotPolling -----------------------------
(***************************************************************************)
(* RunTelegramBotListener: processes take turns in polling the Telegram bot.*)
(* A poll claims the lease, loads the stored offset, fetches the updates    *)
(* from there, handles one after the other and stores the new offset at the *)
(* end.  The lease is not renewed on the way, and an update that fails ends *)
(* the poll with nothing stored.                                            *)
(* A process "listens" (ListenerLease) while it polls.  All updates are     *)
(* /meeting commands, the only ones that leave something behind.            *)
(***************************************************************************)
EXTENDS ListenerLease

CONSTANTS
  MaxUpdates, \* bound of the model: commands users send
  MaxOverruns \* bound of the model: polls that outlast the lease

ASSUME UpdatesAssumption == MaxUpdates \in Nat /\ MaxOverruns \in Nat

VARIABLES
  sent,      \* updates 1..sent exist
  confirmed, \* Telegram has dropped the updates below this one
  offset,    \* the stored offset
  poll,      \* of each process: what it handles, or NoPoll
  meetings,  \* how many meetings each command has opened
  answered,  \* the commands that were handled to the end
  overruns   \* polls that outlasted their lease so far

botVars == <<leaseVars, sent, confirmed, offset, poll, meetings, answered, overruns>>

Updates == 1..MaxUpdates
NoPoll == [from |-> 0, next |-> 0, upto |-> 0]
Larger(m, n) == IF m > n THEN m ELSE n

BotInit ==
  /\ LeaseInit /\ sent = 0 /\ confirmed = 1 /\ offset = 0
  /\ poll = [p \in Listeners |-> NoPoll]
  /\ meetings = [u \in Updates |-> 0] /\ answered = {} /\ overruns = 0

Polls(p) == listening[p]
Overrun == overruns' = overruns + 1 /\ overruns < MaxOverruns

UserWrites ==
  /\ sent < MaxUpdates /\ sent' = sent + 1
  /\ UNCHANGED <<leaseVars, confirmed, offset, poll, meetings, answered, overruns>>

(* A tick with which the lease of a poll runs out is an overrun.             *)
BotTick ==
  /\ LeaseTick
  /\ IF \E p \in Listeners : Polls(p) /\ since[p] < TTL /\ since'[p] = TTL
       THEN Overrun ELSE UNCHANGED overruns
  /\ UNCHANGED <<sent, confirmed, offset, poll, meetings, answered>>

(* AcquireTelegramBotListenerLease: a poll that is refused ends at once.     *)
BotClaims(p) ==
  /\ ~Polls(p) /\ (Ask(p) \/ Claims(p) \/ ClaimFails(p) \/ ProcessStarts(p))
  /\ IF listening'[p] /\ since'[p] = TTL THEN Overrun ELSE UNCHANGED overruns
  /\ UNCHANGED <<sent, confirmed, offset, poll, meetings, answered>>

PollOver(p) ==
  /\ poll' = [poll EXCEPT ![p] = NoPoll]
  /\ listening' = [listening EXCEPT ![p] = FALSE]
  /\ since' = [since EXCEPT ![p] = 0]
  /\ UNCHANGED <<owner, age, asking, lag, unchanged>>

PollGoesOn(p, record) ==
  poll' = [poll EXCEPT ![p] = record] /\ UNCHANGED leaseVars

(* LoadBotOffset and getUpdates: Telegram drops what lies below the offset   *)
(* and returns the rest.                                                     *)
LoadOffset(p) ==
  /\ Polls(p) /\ poll[p] = NoPoll
  /\ PollGoesOn(p, [from |-> Larger(offset, 1), next |-> 0, upto |-> 0])
  /\ UNCHANGED <<sent, confirmed, offset, meetings, answered, overruns>>

(* An error of the load is ignored, and the poll asks from the beginning.     *)
LoadOffsetFails(p) ==
  /\ Polls(p) /\ poll[p] = NoPoll /\ Fault
  /\ poll' = [poll EXCEPT ![p] = [from |-> 1, next |-> 0, upto |-> 0]]
  /\ UNCHANGED <<owner, age, asking, lag, unchanged, listening, since>>
  /\ UNCHANGED <<sent, confirmed, offset, meetings, answered, overruns>>

GetUpdates(p) ==
  LET first == Larger(poll[p].from, confirmed)
  IN /\ poll[p].from > 0 /\ poll[p].next = 0
     /\ confirmed' = first
     /\ IF first > sent THEN PollOver(p) /\ UNCHANGED faults
        ELSE PollGoesOn(p, [poll[p] EXCEPT !.next = first, !.upto = sent])
     /\ UNCHANGED <<sent, offset, meetings, answered, overruns>>

(* The request fails before Telegram has taken the offset, or after.          *)
GetUpdatesFails(p) ==
  /\ poll[p].from > 0 /\ poll[p].next = 0 /\ Fault /\ PollOver(p)
  /\ confirmed' \in {confirmed, Larger(poll[p].from, confirmed)}
  /\ UNCHANGED <<sent, offset, meetings, answered, overruns>>

(* ProcessBotUpdate opens a meeting, dispatches it and replies.              *)
Handling(p) == poll[p].next \in 1..poll[p].upto
OpensMeeting(u) == meetings' = [meetings EXCEPT ![u] = @ + 1]

HandleUpdate(p) ==
  /\ Handling(p) /\ OpensMeeting(poll[p].next)
  /\ answered' = answered \cup {poll[p].next}
  /\ PollGoesOn(p, [poll[p] EXCEPT !.next = @ + 1])
  /\ UNCHANGED <<sent, confirmed, offset, overruns>>

(* Opening fails, or the dispatch or the reply does with the meeting opened. *)
OffsetAfterErrorPast(p) == poll[p].next + 1
OffsetAfterError(p) == offset

HandlingFails(p) ==
  /\ Handling(p) /\ Fault /\ PollOver(p)
  /\ \/ OpensMeeting(poll[p].next)
     \/ UNCHANGED meetings
  /\ offset' = OffsetAfterError(p)
  /\ UNCHANGED <<sent, confirmed, answered, overruns>>

LastHandled(p) == poll[p].upto
NextOffset(p) == poll[p].upto + 1

StoreOffset(p) ==
  /\ poll[p].next > 0 /\ ~Handling(p) /\ PollOver(p)
  /\ \/ offset' = NextOffset(p) /\ UNCHANGED faults
     \/ Fault /\ UNCHANGED offset
  /\ UNCHANGED <<sent, confirmed, meetings, answered, overruns>>

PollerDies(p) ==
  /\ ProcessDies(p) /\ poll' = [poll EXCEPT ![p] = NoPoll]
  /\ UNCHANGED <<sent, confirmed, offset, meetings, answered, overruns>>

BotNext ==
  \/ UserWrites \/ BotTick
  \/ \E p \in Listeners :
       \/ BotClaims(p) \/ LoadOffset(p) \/ LoadOffsetFails(p) \/ GetUpdates(p)
       \/ GetUpdatesFails(p) \/ HandleUpdate(p) \/ HandlingFails(p)
       \/ StoreOffset(p) \/ PollerDies(p)

BotSpec == BotInit /\ [][BotNext]_botVars

-----------------------------------------------------------------------------
BotTypeOK ==
  /\ LeaseTypeOK
  /\ sent \in 0..MaxUpdates /\ confirmed \in 1..(MaxUpdates + 1)
  /\ offset \in 0..(MaxUpdates + 1) /\ answered \subseteq 1..sent
  /\ \A p \in Listeners : poll[p] # NoPoll => Polls(p)

(* No command is lost: what the stored offset or Telegram has left behind    *)
(* was handled to the end, whoever polled and whatever failed or died.       *)
CommandsKept ==
  \A u \in Updates : u < Larger(offset, confirmed) => u \in answered

(* A command opens more than one meeting only for a reason: each further one *)
(* is owed to an error, a death or a poll that outlasted its lease.          *)
RepeatsBounded ==
  \A u \in Updates : meetings[u] <= 1 + faults + overruns
=============================================================================
