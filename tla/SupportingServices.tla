------------------------- MODULE SupportingServices -------------------------
(***************************************************************************)
(* Services beside the trading core, which share no state with each other:  *)
(* the listeners' lease, the Telegram bot, the token budget, the backups,   *)
(* the trust in message sources and the research teams.  A behaviour        *)
(* exercises one of them and the others rest, so that one run explores the  *)
(* sum of their state spaces and not the product.                           *)
(***************************************************************************)
EXTENDS BotPolling, TokenBudget, BackupArchives, SourceTrust, ResearchTeams

VARIABLE service

serviceVars == <<service, botVars, budgetVars, backupVars, trustVars, teamVars>>

Init ==
  /\ service \in {"listener", "bot", "budget", "backup", "trust", "teams"}
  /\ BotInit /\ BudgetInit /\ BackupInit /\ TrustInit /\ TeamsInit
  /\ service # "trust" => policy = CHOOSE p \in Policies : TRUE

botOwnVars == <<sent, confirmed, offset, poll, meetings, answered, overruns>>

Listener == service = "listener" /\ LeaseNext
  /\ UNCHANGED <<service, botOwnVars, budgetVars, backupVars, trustVars, teamVars>>
Bot == service = "bot" /\ BotNext
  /\ UNCHANGED <<service, budgetVars, backupVars, trustVars, teamVars>>
Budget == service = "budget" /\ BudgetNext
  /\ UNCHANGED <<service, botVars, backupVars, trustVars, teamVars>>
Backup == service = "backup" /\ BackupNext
  /\ UNCHANGED <<service, botVars, budgetVars, trustVars, teamVars>>
Trust == service = "trust" /\ TrustNext
  /\ UNCHANGED <<service, botVars, budgetVars, backupVars, teamVars>>
TeamRequests == service = "teams" /\ TeamsNext
  /\ UNCHANGED <<service, botVars, budgetVars, backupVars, trustVars>>

Next == Listener \/ Bot \/ Budget \/ Backup \/ Trust \/ TeamRequests

(* LeaseFairness, where the listeners run.                                   *)
ListenersAreFair ==
  /\ WF_leaseVars(service = "listener" /\ LeaseTick)
  /\ \A p \in Listeners :
       /\ WF_leaseVars(service = "listener" /\ Ask(p))
       /\ WF_leaseVars(service = "listener" /\ Claims(p))

Spec == Init /\ [][Next]_serviceVars /\ ListenersAreFair

-----------------------------------------------------------------------------
(* The types of all services.                                                *)
TypeOK ==
  BotTypeOK /\ BudgetTypeOK /\ BackupTypeOK /\ TrustTypeOK /\ TeamsTypeOK

(* ListenerTakenOver of the listeners: the lease of a dead holder does not   *)
(* stay with it.                                                             *)
ListenerIsTakenOver == service = "listener" => ListenerTakenOver
=============================================================================
