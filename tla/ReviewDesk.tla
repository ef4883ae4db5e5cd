----------------------------- MODULE ReviewDesk -----------------------------
(***************************************************************************)
(* Deciding on the agent's campaigns (services/approval_service.py,        *)
(* ui/pages/approvals.py): review links that point at a campaign and       *)
(* expire, and decisions made by whoever a tab is signed in as (Accounts). *)
(* The agent submits a campaign and issues its link in two transactions.   *)
(***************************************************************************)
EXTENDS Accounts, Sequences, CampaignStates

CONSTANTS
  Campaigns,
  Senders,  \* users whose role is in SENDING_ROLES
  LinkTTL   \* approval_token_ttl_hours, in ticks

ASSUME DeskAssumption ==
  Admins \subseteq Senders /\ Senders \subseteq Users /\ LinkTTL \in Nat

VARIABLES
  status,  \* campaigns.status
  by,      \* who decided
  links,   \* approval_tokens, in the order they were issued
  told     \* per tab: what the page said of the link it was opened with

desk == <<status, by, links, told>>
vars == <<accounts, desk>>

Verdicts == {"verified", "used", "expired"}

DeskTypeOK ==
  /\ TypeOK
  /\ status \in [Campaigns -> CampaignStatus \cup NoRow]
  /\ by \in [Campaigns -> Users \cup {None}]
  /\ links \in Seq([campaign : Campaigns, until : Nat, used : BOOLEAN])
  /\ told \in [campaign : Campaigns, verdict : Verdicts] \cup {None}

DeskInit ==
  /\ Init
  /\ status = [c \in Campaigns |-> "DRAFT"]
  /\ by = [c \in Campaigns |-> None]
  /\ links = <<>>
  /\ told = None

(* Both write used_at on every unused token of a campaign.                 *)
Spent(c) ==
  [i \in DOMAIN links |->
    IF links[i].campaign = c
    THEN [campaign |-> c, until |-> links[i].until, used |-> TRUE] ELSE links[i]]

Submit(c) ==
  /\ CanTransition(status[c], "AWAITING_APPROVAL")
  /\ status' = [status EXCEPT ![c] = "AWAITING_APPROVAL"]
  /\ UNCHANGED <<accounts, by, links, told>>

(* The agent calls it once, after the submission, whatever has happened to *)
(* the campaign since; a killed agent does not call it at all.             *)
Issue(c) ==
  /\ status[c] # "DRAFT" /\ \A i \in DOMAIN links : links[i].campaign # c
  /\ links' = Append(Spent(c), [campaign |-> c, until |-> now + LinkTTL, used |-> FALSE])
  /\ UNCHANGED <<accounts, status, by, told>>

Live(l) == ~l.used /\ now < l.until
Verdict(l) == IF l.used THEN "used" ELSE IF Live(l) THEN "verified" ELSE "expired"

(* Seeded fault: a link works once, for whoever follows it first.          *)
OpenLinkSpending(t, i) ==
  /\ user[t] # None
  /\ told' = [campaign |-> links[i].campaign, verdict |-> Verdict(links[i])]
  /\ links' = Spent(links[i].campaign)
  /\ UNCHANGED <<accounts, status, by>>

(* _resolve_token: behind the login, for any role, spending nothing.       *)
OpenLink(t, i) ==
  /\ user[t] # None
  /\ told' = [campaign |-> links[i].campaign, verdict |-> Verdict(links[i])]
  /\ UNCHANGED <<accounts, status, by, links>>

(* _decide, for any pending campaign, with or without a link; the page     *)
(* then drops the link it was opened with.                                 *)
Decide(t, c, decision) ==
  /\ user[t] \in Senders
  /\ status[c] = "AWAITING_APPROVAL" /\ CanTransition(status[c], decision)
  /\ status' = [status EXCEPT ![c] = decision]
  /\ by' = [by EXCEPT ![c] = user[t]]
  /\ links' = Spent(c) /\ told' = None
  /\ UNCHANGED accounts

DeskStep ==
  \/ \E c \in Campaigns : Submit(c) \/ Issue(c)
  \/ \E t \in Tabs, i \in DOMAIN links : OpenLink(t, i)
  \/ \E t \in Tabs, c \in Campaigns :
       \E d \in {"APPROVED", "REJECTED"} : Decide(t, c, d)

DeskNext == (Next /\ UNCHANGED desk) \/ DeskStep

DeskSpec == DeskInit /\ [][DeskNext]_vars

-----------------------------------------------------------------------------
(* While a campaign awaits its decision its link keeps working until it    *)
(* expires, whoever has opened it, tried to decide or signed out since;    *)
(* and a reviewer reads "already used" only of a campaign that is decided  *)
(* (approval_service.py:132 "without spending it").                        *)
PendingKeepsItsLink ==
  /\ \A i \in DOMAIN links :
       status[links[i].campaign] = "AWAITING_APPROVAL" /\ now < links[i].until => Live(links[i])
  /\ told # None /\ told.verdict = "used" => status[told.campaign] # "AWAITING_APPROVAL"

(* What a comment promises and the code does not keep: nobody decides from *)
(* an account that is turned off (user_repo.py:49 "Deactivation must take  *)
(* effect immediately"; a signed-in tab is never asked again).             *)
DeciderIsActive ==
  [][\A c \in Campaigns : by'[c] # by[c] => account[by'[c]] = "active"]_vars
=============================================================================
