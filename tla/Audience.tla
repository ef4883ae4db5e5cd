------------------------------ MODULE Audience ------------------------------
(***************************************************************************)
(* Who may be mailed: the master mailing list (services/                   *)
(* subscriber_service.py), the do-not-send list, and the clicks that       *)
(* change them (services/engagement_service.py, ui/pages/engage.py),       *)
(* between recipients who open the links of their e-mails, staff who       *)
(* import and edit the list, and loads that turn it into a campaign's      *)
(* recipients (services/recipient_source.py, or an upload on Preview).     *)
(* A step is one committed transaction, or one call between two.           *)
(***************************************************************************)
EXTENDS Naturals, FiniteSets

CONSTANTS
  Addresses,   \* e-mail addresses
  Links,       \* the signed links mailed: [email, campaign, action]
  Files,       \* CSV files at hand, as sets of addresses
  Visitors,    \* browser tabs of recipients
  Staff,       \* dashboard sessions on the Recipients page
  Loaders,     \* agent passes and Preview uploads
  MaxLosses    \* bound: scripts interrupted

ASSUME AudienceAssumption ==
  /\ Links \subseteq [email : Addresses, campaign : Nat, action : {"LIKED", "UNSUBSCRIBED"}]
  /\ Files \subseteq SUBSET Addresses
  /\ MaxLosses \in Nat

VARIABLES
  subscriber,  \* the subscribers table: absent, active or inactive
  suppressed,  \* the suppressions table
  events,      \* the email_events table
  page, link,  \* what each visitor's tab shows, and of which link
  desk, hand,  \* where each staff session is, and the addresses it writes
  pc, list,    \* where each load is, and the addresses it holds
  losses,
  firsts,      \* history: clicks per link that were answered as the first
  left,        \* history: addresses whose unsubscribe was confirmed to them
  removed,     \* history: taken off the list, and not put back on purpose
  knew         \* history: `left` as it was when each load began

tables == <<subscriber, suppressed, events>>
visits == <<page, link>>
desks  == <<desk, hand>>
loads  == <<pc, list, knew>>
told   == <<firsts, left>>
vars   == <<tables, visits, desks, loads, losses, told, removed>>

Membership == {"absent", "active", "inactive"}
PageState  == {"closed", "asked", "recorded", "stopped", "done", "toldalready"}
DeskState  == {"idle", "importing", "adding"}
LoadPC     == {"idle", "empty", "seeding", "seeded", "read", "validated"}

TypeOK ==
  /\ subscriber \in [Addresses -> Membership]
  /\ suppressed \subseteq Addresses /\ events \subseteq Links
  /\ page \in [Visitors -> PageState] /\ link \in [Visitors -> Links]
  /\ desk \in [Staff -> DeskState] /\ hand \in [Staff -> SUBSET Addresses]
  /\ pc \in [Loaders -> LoadPC] /\ list \in [Loaders -> SUBSET Addresses]
  /\ \A r \in Loaders : pc[r] = "validated" => list[r] # {}
  /\ losses \in Nat
  /\ firsts \in [Links -> Nat] /\ left \subseteq Addresses
  /\ removed \subseteq Addresses /\ knew \in [Loaders -> SUBSET Addresses]

Init ==
  /\ subscriber = [a \in Addresses |-> "absent"]
  /\ suppressed = {} /\ events = {}
  /\ page = [v \in Visitors |-> "closed"] /\ link \in [Visitors -> Links]
  /\ desk = [s \in Staff |-> "idle"] /\ hand = [s \in Staff |-> {}]
  /\ pc = [r \in Loaders |-> "idle"] /\ list = [r \in Loaders |-> {}]
  /\ losses = 0
  /\ firsts = [l \in Links |-> 0] /\ left = {}
  /\ removed = {} /\ knew = [r \in Loaders |-> {}]

Active == {a \in Addresses : subscriber[a] = "active"}

-----------------------------------------------------------------------------
(* The master list.                                                        *)

(* Seeded fault: an import brings back whoever was removed.                *)
AddManyReviving(E, reactivate) ==
  /\ subscriber' = [a \in Addresses |-> IF a \in E THEN "active" ELSE subscriber[a]]
  /\ removed' = IF reactivate THEN removed \ E ELSE removed

(* add_many: new rows are active; only an explicit add brings one back.    *)
AddMany(E, reactivate) ==
  /\ subscriber' = [a \in Addresses |->
       IF a \in E /\ (subscriber[a] = "absent" \/ reactivate) THEN "active" ELSE subscriber[a]]
  /\ removed' = IF reactivate THEN removed \ E ELSE removed

(* deactivate: keeps the row.                                              *)
Drop(a) ==
  IF subscriber[a] = "active"
    THEN subscriber' = [subscriber EXCEPT ![a] = "inactive"] /\ removed' = removed \cup {a}
    ELSE UNCHANGED <<subscriber, removed>>

Sendable(E) == E \ suppressed   \* validate_recipients, of parsed addresses

(* import_csv: validated in one transaction, added in the next.            *)
StartImport(s, f) ==
  /\ desk[s] = "idle"
  /\ desk' = [desk EXCEPT ![s] = "importing"]
  /\ hand' = [hand EXCEPT ![s] = Sendable(f)]
  /\ UNCHANGED <<tables, visits, loads, losses, told, removed>>

(* add: refused if suppressed; on SQLite the check takes no lock.          *)
StartAdd(s, a) ==
  /\ desk[s] = "idle" /\ a \notin suppressed
  /\ desk' = [desk EXCEPT ![s] = "adding"]
  /\ hand' = [hand EXCEPT ![s] = {a}]
  /\ UNCHANGED <<tables, visits, loads, losses, told, removed>>

WriteRows(s) ==
  /\ desk[s] # "idle"
  /\ AddMany(hand[s], desk[s] = "adding")
  /\ desk' = [desk EXCEPT ![s] = "idle"]
  /\ hand' = [hand EXCEPT ![s] = {}]
  /\ UNCHANGED <<suppressed, events, visits, loads, losses, told>>

(* The row it inserts has been inserted meanwhile, or the script stops.    *)
GiveUp(s) ==
  /\ desk[s] # "idle"
  /\ desk' = [desk EXCEPT ![s] = "idle"]
  /\ hand' = [hand EXCEPT ![s] = {}]
  /\ UNCHANGED <<tables, visits, loads, losses, told, removed>>

Remove(a) ==
  /\ Drop(a)
  /\ UNCHANGED <<suppressed, events, visits, desks, loads, losses, told>>

(* restore does not consult the do-not-send list.                          *)
Restore(a) ==
  /\ subscriber[a] = "inactive"
  /\ subscriber' = [subscriber EXCEPT ![a] = "active"]
  /\ removed' = removed \ {a}
  /\ UNCHANGED <<suppressed, events, visits, desks, loads, losses, told>>

-----------------------------------------------------------------------------
(* A recipient's click.  Opening a link only reads: scanners do it too.    *)
Shows(v, p) == page' = [page EXCEPT ![v] = p]

OpenLink(v, l) ==
  /\ page[v] = "closed"
  /\ link' = [link EXCEPT ![v] = l]
  /\ Shows(v, IF l \in events THEN "toldalready" ELSE "asked")
  /\ UNCHANGED <<tables, desks, loads, losses, told, removed>>

CloseTab(v) ==
  /\ page[v] \in {"asked", "toldalready", "done"}
  /\ Shows(v, "closed")
  /\ UNCHANGED <<tables, link, desks, loads, losses, told, removed>>

(* Seeded faults: the answer trusts what the page knew when it was opened; *)
(* a repeated click is answered, and not acted on.                         *)
RecordAsInspected(v) ==
  /\ page[v] = "asked"
  /\ events' = events \cup {link[v]}
  /\ firsts' = [firsts EXCEPT ![link[v]] = @ + 1]
  /\ Shows(v, "recorded")
  /\ UNCHANGED <<subscriber, suppressed, link, desks, loads, losses, left, removed>>
RecordOnlyFirst(v) ==
  /\ page[v] = "asked"
  /\ events' = events \cup {link[v]}
  /\ firsts' = [firsts EXCEPT ![link[v]] = IF link[v] \in events THEN @ ELSE @ + 1]
  /\ IF link[v] \in events /\ link[v].action = "UNSUBSCRIBED"
       THEN Shows(v, "done") /\ left' = left \cup {link[v].email}
       ELSE Shows(v, "recorded") /\ UNCHANGED left
  /\ UNCHANGED <<subscriber, suppressed, link, desks, loads, losses, removed>>

(* apply, confirmed: the insert decides whether it is the first.           *)
Record(v) ==
  /\ page[v] = "asked"
  /\ events' = events \cup {link[v]}
  /\ firsts' = [firsts EXCEPT ![link[v]] = IF link[v] \in events THEN @ ELSE @ + 1]
  /\ Shows(v, "recorded")
  /\ UNCHANGED <<subscriber, suppressed, link, desks, loads, losses, left, removed>>

(* _stop_sending: the do-not-send list first, whether or not it was the    *)
(* first click ...                                                         *)
StopSending(v) ==
  /\ page[v] = "recorded" /\ link[v].action = "UNSUBSCRIBED"
  /\ suppressed' = suppressed \cup {link[v].email}
  /\ Shows(v, "stopped")
  /\ UNCHANGED <<subscriber, events, link, desks, loads, losses, told, removed>>

(* ... then the master list, whose failure is swallowed.                   *)
Deactivate(v) ==
  /\ page[v] = "stopped"
  /\ Drop(link[v].email) \/ UNCHANGED <<subscriber, removed>>
  /\ left' = left \cup {link[v].email}
  /\ Shows(v, "done")
  /\ UNCHANGED <<suppressed, events, link, desks, loads, losses, firsts>>

Thank(v) ==
  /\ page[v] = "recorded" /\ link[v].action = "LIKED"
  /\ Shows(v, "done")
  /\ UNCHANGED <<tables, link, desks, loads, losses, told, removed>>

(* An exception, a closed tab or a killed process between two of them.     *)
Interrupt(v) ==
  /\ page[v] \in {"recorded", "stopped"} /\ losses < MaxLosses
  /\ losses' = losses + 1
  /\ Shows(v, "closed")
  /\ UNCHANGED <<tables, link, desks, loads, told, removed>>

-----------------------------------------------------------------------------
(* Loading recipients.                                                     *)
Holds(r, at, E) == pc' = [pc EXCEPT ![r] = at] /\ list' = [list EXCEPT ![r] = E]

(* RecipientSource.load reads the active rows, if there are any ...        *)
BeginLoad(r) ==
  /\ pc[r] = "idle"
  /\ Holds(r, IF Active = {} THEN "empty" ELSE "read", Active)
  /\ knew' = [knew EXCEPT ![r] = left]
  /\ UNCHANGED <<tables, visits, desks, losses, told, removed>>

(* ... or else seeds the list from a file: an import like any other ...    *)
Bootstrap(r, f) ==
  /\ pc[r] = "empty"
  /\ Holds(r, "seeding", Sendable(f))
  /\ UNCHANGED <<tables, visits, desks, losses, told, removed, knew>>

NoFile(r) ==
  /\ pc[r] = "empty"
  /\ Holds(r, "idle", {})
  /\ UNCHANGED <<tables, visits, desks, losses, told, removed, knew>>

Seed(r) ==
  /\ pc[r] = "seeding"
  /\ AddMany(list[r], FALSE)
  /\ Holds(r, "seeded", {})
  /\ UNCHANGED <<suppressed, events, visits, desks, losses, told, knew>>

(* ... and reads it again.                                                 *)
ReadAgain(r) ==
  /\ pc[r] = "seeded"
  /\ Holds(r, IF Active = {} THEN "idle" ELSE "read", Active)
  /\ UNCHANGED <<tables, visits, desks, losses, told, removed, knew>>

(* On Preview the addresses come from an upload.                           *)
Upload(r, f) ==
  /\ pc[r] = "idle"
  /\ Holds(r, "read", f)
  /\ knew' = [knew EXCEPT ![r] = left]
  /\ UNCHANGED <<tables, visits, desks, losses, told, removed>>

(* Seeded faults: the list is trusted; an empty result is attached.        *)
ValidateTrusting(r) ==
  /\ pc[r] = "read"
  /\ IF list[r] = {} THEN Holds(r, "idle", {}) ELSE Holds(r, "validated", list[r])
  /\ UNCHANGED <<tables, visits, desks, losses, told, removed, knew>>
ValidateAnyway(r) ==
  /\ pc[r] = "read"
  /\ Holds(r, "validated", Sendable(list[r]))
  /\ UNCHANGED <<tables, visits, desks, losses, told, removed, knew>>

(* Suppression is applied here, in bulk; nobody left is an error.          *)
Validate(r) ==
  /\ pc[r] = "read"
  /\ IF Sendable(list[r]) = {} THEN Holds(r, "idle", {})
                               ELSE Holds(r, "validated", Sendable(list[r]))
  /\ UNCHANGED <<tables, visits, desks, losses, told, removed, knew>>

(* The list is attached (save_recipients), to a campaign the agent may     *)
(* have taken long to write; or its writing fails, and the list is dropped.*)
AttachList(r) ==
  /\ pc[r] = "validated"
  /\ Holds(r, "idle", {})
  /\ UNCHANGED <<tables, visits, desks, losses, told, removed, knew>>

-----------------------------------------------------------------------------
VisitorStep(v) ==
  \/ \E l \in Links : OpenLink(v, l)
  \/ CloseTab(v) \/ Record(v) \/ StopSending(v) \/ Deactivate(v) \/ Thank(v) \/ Interrupt(v)

StaffStep(s) ==
  \/ \E f \in Files : StartImport(s, f)
  \/ \E a \in Addresses : StartAdd(s, a)
  \/ WriteRows(s) \/ GiveUp(s)

LoadStep(r) ==
  \/ BeginLoad(r) \/ NoFile(r) \/ Seed(r) \/ ReadAgain(r) \/ Validate(r) \/ AttachList(r)
  \/ \E f \in Files : Bootstrap(r, f) \/ Upload(r, f)

Next ==
  \/ \E v \in Visitors : VisitorStep(v)
  \/ \E s \in Staff : StaffStep(s)
  \/ \E r \in Loaders : LoadStep(r)
  \/ \E a \in Addresses : Remove(a) \/ Restore(a)

Spec == Init /\ [][Next]_vars

-----------------------------------------------------------------------------
(* Whoever was told by a click that they are unsubscribed is on the        *)
(* do-not-send list, also when an earlier click of theirs was interrupted  *)
(* after it was recorded, and nothing takes them off it again.             *)
OptOutHolds == left \subseteq suppressed

(* A recipient list that is about to be attached has nobody on it who had  *)
(* been told so before the load began, whatever imports, restores and      *)
(* additions the master list has seen since.                               *)
OptOutReachesLists ==
  \A r \in Loaders : pc[r] = "validated" => list[r] \cap knew[r] = {}

(* Of all clicks on one link, in however many tabs, one counts as the      *)
(* first; and one has, if the event is there.                              *)
FirstTimeOnce ==
  \A l \in Links : firsts[l] = IF l \in events THEN 1 ELSE 0

(* Whoever was taken off the list stays off until somebody puts them back  *)
(* by name: no import and no bootstrap, however it interleaves, does.      *)
RemovedStaysRemoved == \A a \in removed : subscriber[a] = "inactive"

-----------------------------------------------------------------------------
(* What the code's own words promise and it does not keep: the page that   *)
(* says "You are already unsubscribed. No further newsletters will be      *)
(* sent." (ui/pages/engage.py) is shown to people on the do-not-send list. *)
ToldMeansStopped ==
  \A v \in Visitors :
    page[v] = "toldalready" /\ link[v].action = "UNSUBSCRIBED"
      => link[v].email \in suppressed
=============================================================================
