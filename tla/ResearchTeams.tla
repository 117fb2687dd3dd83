--------------------------- MODULE ResearchTeams ---------------------------
(***************************************************************************)
(* Research teams: each has an asset class, a paper account if its class    *)
(* trades one, and roles with tools.  Requests and the seeding of defaults  *)
(* run as transactions, atomic here as on SQLite, where one that another    *)
(* overtakes fails.  SQLite runs without foreign keys: what refers to what  *)
(* is up to the checks of these operations.                                 *)
(***************************************************************************)
EXTENDS FiniteSets

CONSTANTS
  Teams,
  PaperAccounts,
  NoAccount

ASSUME TeamsAssumption == NoAccount \notin PaperAccounts

VARIABLES
  team,     \* the research_teams rows with their roles
  accounts, \* the paper accounts that exist
  assigned  \* the teams that message subscriptions are assigned to

teamVars == <<team, accounts, assigned>>

Classes == {"a_share", "mixed", "prediction_market"}

(* Roles are told apart by whether every tool and skill of theirs is one     *)
(* that prediction-market teams may use.                                     *)
Roles == {"market", "prediction"}
NoTeam == [class |-> "none", account |-> NoAccount, roles |-> {},
           named |-> FALSE]
Rows == [class : Classes \cup {"none"}, account : PaperAccounts \cup {NoAccount},
         roles : SUBSET Roles,
         named : BOOLEAN] \* the row has DefaultPredictionTeamName

TeamsInit == team = [t \in Teams |-> NoTeam] /\ accounts = {} /\ assigned = {}

Existing == {t \in Teams : team[t].class # "none"}

(* The row is written unless a unique index, on the account and on the name, *)
(* refuses it.                                                               *)
HasRow(t, row) ==
  /\ row.account # NoAccount => \A u \in Existing \ {t} : team[u].account # row.account
  /\ row.named => \A u \in Existing \ {t} : ~team[u].named
  /\ team' = [team EXCEPT ![t] = row] /\ UNCHANGED <<accounts, assigned>>

RequiresAccount(class) == class # "prediction_market"

(* validatePaperAccountAvailable.                                            *)
AvailableUnlessBound(a, t) == \A u \in Existing \ {t} : team[u].account # a
Available(a, t) ==
  a \in accounts /\ \A u \in Existing \ {t} : team[u].account # a

(* sanitizePredictionTeamRoles.                                              *)
Sanitized(class, roles) ==
  IF class = "prediction_market" /\ roles # {} THEN {"prediction"} ELSE roles

DefaultRoles(class) ==
  IF class = "prediction_market" THEN {"prediction"} ELSE Roles

NameIsFree == \A t \in Existing : ~team[t].named

(* A prediction-market team may ask for an account, but is not given one.    *)
CreateTeam(t) ==
  /\ t \notin Existing
  /\ \E class \in Classes, account \in PaperAccounts \cup {NoAccount}, named \in BOOLEAN,
        source \in Existing \cup {t} :
       /\ RequiresAccount(class) => account # NoAccount
       /\ account # NoAccount => Available(account, t)
       /\ HasRow(t, [class |-> class, named |-> named,
                     account |-> IF RequiresAccount(class) THEN account ELSE NoAccount,
                     roles |-> Sanitized(class, team[source].roles)])

(* The request may carry an account, a class, a name, or several of them.    *)
(* An account given without a class is kept, whatever the class of the row.  *)
AccountGiven(t, class, account) ==
  RequiresAccount(class) \/ account # NoAccount => Available(account, t)

UpdateTeam(t) ==
  /\ t \in Existing
  /\ \E fields \in SUBSET {"paperAccountId", "assetClass", "name"},
        account \in PaperAccounts \cup {NoAccount}, class \in Classes, named \in BOOLEAN :
       LET newClass == IF "assetClass" \in fields THEN class ELSE team[t].class
           asked == IF "paperAccountId" \in fields THEN account ELSE team[t].account
           newAccount == IF "assetClass" \in fields /\ ~RequiresAccount(class)
                           THEN NoAccount ELSE asked
           newName == IF "name" \in fields THEN named ELSE team[t].named
       IN /\ "paperAccountId" \in fields => AccountGiven(t, newClass, account)
          /\ RequiresAccount(newClass) => newAccount # NoAccount
          /\ "assetClass" \in fields /\ newAccount # NoAccount => Available(newAccount, t)
          /\ HasRow(t, [team[t] EXCEPT !.class = newClass, !.account = newAccount,
                          !.named = newName, !.roles = Sanitized(newClass, @)])

(* DeleteTeam and DeleteTeamGraph.                                           *)
DeleteTeam(t) == t \in Existing /\ t \notin assigned /\ HasRow(t, NoTeam)

UpsertRole(t) ==
  /\ t \in Existing
  /\ \E role \in Roles :
       HasRow(t, [team[t] EXCEPT !.roles = @ \cup Sanitized(team[t].class, {role})])

(* Of roles of one kind another may be left.                                 *)
DeleteRole(t) ==
  \E role \in team[t].roles : HasRow(t, [team[t] EXCEPT !.roles = @ \ {role}])

ApplyDefaultRoles(t) ==
  t \in Existing /\ HasRow(t, [team[t] EXCEPT !.roles = DefaultRoles(team[t].class)])

(* The seeding at the start of a process and in the setup; the second also   *)
(* puts right a team that carries the default name.                          *)
EnsureDefaultTeam(t) ==
  /\ Existing = {}
  /\ \E a \in accounts :
       HasRow(t, [NoTeam EXCEPT !.class = "a_share", !.account = a,
                    !.roles = DefaultRoles("a_share")])

PredictionTeams == {t \in Existing : team[t].class = "prediction_market"}

EnsureDefaultPredictionTeam(t) ==
  \/ /\ t \in Existing /\ team[t].named
     /\ HasRow(t, [team[t] EXCEPT !.class = "prediction_market", !.account = NoAccount,
                     !.roles = {"prediction"}])
  \/ /\ NameIsFree /\ t \in PredictionTeams
     /\ HasRow(t, [team[t] EXCEPT !.roles = Sanitized("prediction_market", @)])
  \/ /\ NameIsFree /\ PredictionTeams = {} /\ t \notin Existing
     /\ HasRow(t, [NoTeam EXCEPT !.class = "prediction_market", !.named = TRUE,
                     !.roles = DefaultRoles("prediction_market")])

(* ReplaceSubscriptionAssignments, which counts the teams it is given.       *)
AssignSubscriptions(t) ==
  /\ t \in Existing \/ t \in assigned
  /\ assigned' = IF t \in assigned THEN assigned \ {t} ELSE assigned \cup {t}
  /\ UNCHANGED <<team, accounts>>

CreatePaperAccount(a) ==
  a \notin accounts /\ accounts' = accounts \cup {a} /\ UNCHANGED <<team, assigned>>

(* Refused while a team is bound to the account.                             *)
DeletePaperAccount(a) ==
  /\ a \in accounts /\ \A t \in Existing : team[t].account # a
  /\ accounts' = accounts \ {a} /\ UNCHANGED <<team, assigned>>

TeamsNext ==
  \/ \E t \in Teams :
       \/ CreateTeam(t) \/ UpdateTeam(t) \/ DeleteTeam(t)
       \/ UpsertRole(t) \/ DeleteRole(t) \/ ApplyDefaultRoles(t)
       \/ EnsureDefaultTeam(t) \/ EnsureDefaultPredictionTeam(t)
       \/ AssignSubscriptions(t)
  \/ \E a \in PaperAccounts : CreatePaperAccount(a) \/ DeletePaperAccount(a)

TeamsSpec == TeamsInit /\ [][TeamsNext]_teamVars

-----------------------------------------------------------------------------
TeamsTypeOK == team \in [Teams -> Rows] /\ accounts \subseteq PaperAccounts
               /\ assigned \subseteq Teams

(* No sequence of requests and restarts leaves a team that trades without an *)
(* account of its own, an account that two teams share, a reference to a row *)
(* that is gone, or a prediction-market team with a tool of the stock market.*)
TeamsSound ==
  \A t \in Existing \cup assigned :
    /\ t \in Existing
    /\ RequiresAccount(team[t].class) => team[t].account \in accounts
    /\ team[t].account # NoAccount =>
         /\ team[t].account \in accounts
         /\ \A u \in Existing : team[u].account = team[t].account => u = t
    /\ team[t].class = "prediction_market" => team[t].roles \subseteq {"prediction"}
=============================================================================
