------------------------- MODULE CampaignLifecycle -------------------------
(***************************************************************************)
(* The life of campaigns between the people and the timers that move them: *)
(* dashboard script runs (Sessions) that edit, decide and send, and worker *)
(* dispatch passes (Workers) that send what was approved once its window   *)
(* opens.  They share the `campaigns` table.  A step is one committed      *)
(* transaction, or one call between two transactions; whatever a process   *)
(* read earlier it keeps in job, copy and queue and acts on later.         *)
(*                                                                         *)
(* A send run is abstract here: it claims the campaign, hands at least one *)
(* message to the provider or none, and settles, is abandoned by an        *)
(* exception, or is lost with its process.  Module Delivery has its        *)
(* recipients.                                                             *)
(***************************************************************************)
EXTENDS Naturals, FiniteSets, CampaignStates

CONSTANTS
  Campaigns,       \* campaign rows that may come to exist
  AgentCampaigns,  \* those the agent drafts; the others come from the UI
  Sessions,        \* script runs of the dashboard
  Workers,         \* dispatch passes of agent workers
  Approvers,       \* users whose role is in SENDING_ROLES
  None,            \* an absent value
  MaxTime,         \* bound: the clock stops here
  MaxEdits,        \* bound: versions of one campaign's content
  MaxCrashes,      \* bound: processes killed or interrupted
  NextSend         \* settings.next_send_after, as a function of the time

Procs == Sessions \cup Workers
Time  == 0 .. MaxTime

ASSUME LifecycleAssumption ==
  /\ AgentCampaigns \subseteq Campaigns
  /\ Sessions \cap Workers = {}
  /\ MaxTime \in Nat /\ MaxEdits \in Nat /\ MaxCrashes \in Nat
  /\ None \notin Campaigns \cup Approvers \cup Nat

(* next_send_after is strictly after the approval (config/settings.py).    *)
ASSUME ScheduleAssumption ==
  /\ NextSend \in [Time -> Nat]
  /\ \A t \in Time : NextSend[t] > t

VARIABLES
  status,      \* campaigns.status
  content,     \* version of the editable fields
  approvedAt,  \* campaigns.approved_at
  approvedBy,  \* campaigns.approved_by
  now,         \* the wall clock
  pc,          \* where each process is
  job,         \* the campaign it works on
  copy,        \* the content it read
  queue,       \* the DueCampaign snapshot of a dispatch pass
  crashes,     \* processes lost so far
  claims,      \* history: sends begun per campaign
  mail,        \* history: what the provider accepted, per campaign
  decided,     \* history: content on the reviewer's screen when approved
  submitted    \* history: campaigns the agent has parked for a reviewer

row   == <<status, content, approvedAt, approvedBy>>
proc  == <<pc, job, copy, queue>>
ghost == <<claims, mail, decided, submitted>>
vars  == <<row, now, proc, crashes, ghost>>

SessionPC == {"closed", "viewing", "editing", "rewriting", "deleting"}
WorkerPC  == {"idle", "passing"}
SendPC    == {"claiming", "claimed", "mailed"}
InRun(p)  == pc[p] \in {"claimed", "mailed"}

(* A process moves to `to`, holding campaign c and the content v it read.  *)
Moves(p, to, c, v) ==
  /\ pc' = [pc EXCEPT ![p] = to]
  /\ job' = [job EXCEPT ![p] = c]
  /\ copy' = [copy EXCEPT ![p] = v]

(* Where a run returns to: the page, or the rest of the pass.              *)
Leave(p) ==
  IF p \in Sessions THEN Moves(p, "viewing", job[p], 0)
                    ELSE Moves(p, "passing", None, 0)

TypeOK ==
  /\ status \in [Campaigns -> CampaignStatus \cup NoRow]
  /\ content \in [Campaigns -> Nat]
  /\ approvedAt \in [Campaigns -> Time \cup {None}]
  /\ approvedBy \in [Campaigns -> Approvers \cup {None}]
  /\ now \in Time
  /\ pc \in [Procs -> SessionPC \cup WorkerPC \cup SendPC]
  /\ job \in [Procs -> Campaigns \cup {None}]
  /\ copy \in [Procs -> Nat]
  /\ queue \in [Workers -> SUBSET [campaign : Campaigns, approvedAt : Time]]
  /\ crashes \in Nat
  /\ claims \in [Campaigns -> Nat]
  /\ mail \in [Campaigns -> SUBSET [by : Procs, at : Time, content : Nat]]
  /\ decided \in [Campaigns -> Nat \cup {None}]
  /\ submitted \subseteq AgentCampaigns

Init ==
  /\ status = [c \in Campaigns |-> "ABSENT"]
  /\ content = [c \in Campaigns |-> 0]
  /\ approvedAt = [c \in Campaigns |-> None]
  /\ approvedBy = [c \in Campaigns |-> None]
  /\ now = 0
  /\ pc = [p \in Procs |-> IF p \in Sessions THEN "closed" ELSE "idle"]
  /\ job = [p \in Procs |-> None]
  /\ copy = [p \in Procs |-> 0]
  /\ queue = [w \in Workers |-> {}]
  /\ crashes = 0
  /\ claims = [c \in Campaigns |-> 0]
  /\ mail = [c \in Campaigns |-> {}]
  /\ decided = [c \in Campaigns |-> None]
  /\ submitted = {}

-----------------------------------------------------------------------------
(* Rows: creation, the state machine, the agent's submission.              *)

(* transition_or_raise: one conditional UPDATE, an exception otherwise.    *)
TransitionOrRaise(c, to) ==
  /\ status[c] \in SourcesOf(to)
  /\ status' = [status EXCEPT ![c] = to]

(* GenerationService._persist commits a new DRAFT.                         *)
Create(c) ==
  /\ status[c] = "ABSENT"
  /\ status' = [status EXCEPT ![c] = "DRAFT"]
  /\ UNCHANGED <<content, approvedAt, approvedBy, now, proc, crashes, ghost>>

(* History's Duplicate: the copy is a DRAFT with the content and nothing   *)
(* else of its source.                                                     *)
Duplicate(c, d) ==
  /\ status[c] \in CampaignStatus
  /\ status[d] = "ABSENT" /\ d \notin AgentCampaigns
  /\ status' = [status EXCEPT ![d] = "DRAFT"]
  /\ content' = [content EXCEPT ![d] = content[c]]
  /\ UNCHANGED <<approvedAt, approvedBy, now, proc, crashes, ghost>>

MarkReady(c) ==
  /\ TransitionOrRaise(c, "READY")
  /\ UNCHANGED <<content, approvedAt, approvedBy, now, proc, crashes, ghost>>

Archive(c) ==
  /\ TransitionOrRaise(c, "ARCHIVED")
  /\ UNCHANGED <<content, approvedAt, approvedBy, now, proc, crashes, ghost>>

(* The agent parks its draft for a human; refused when somebody has sent,  *)
(* archived or deleted it meanwhile.  A pass that dies before leaves it.   *)
Submit(c) ==
  /\ c \in AgentCampaigns
  /\ TransitionOrRaise(c, "AWAITING_APPROVAL")
  /\ submitted' = submitted \cup {c}
  /\ UNCHANGED <<content, approvedAt, approvedBy, now, proc, crashes,
                 claims, mail, decided>>

(* _decide: an approver's answer.  An approval is stamped in the           *)
(* transaction that moves the status; its review links are left out.      *)
Decide(u, c, decision) ==
  /\ u \in Approvers
  /\ status[c] = "AWAITING_APPROVAL"
  /\ TransitionOrRaise(c, decision)
  /\ IF decision = "APPROVED"
       THEN /\ approvedAt' = [approvedAt EXCEPT ![c] = now]
            /\ approvedBy' = [approvedBy EXCEPT ![c] = u]
            /\ decided' = [decided EXCEPT ![c] = content[c]]
       ELSE UNCHANGED <<approvedAt, approvedBy, decided>>
  /\ UNCHANGED <<content, now, proc, crashes, claims, mail, submitted>>

-----------------------------------------------------------------------------
(* Dashboard script runs on the Preview page.                              *)

(* The page opens what its user drafted or duplicated, what the Approvals  *)
(* page offers to edit, or any recent campaign of the dashboard, whoever   *)
(* wrote it and whatever its status; it may stay open from then on.        *)
Open(s, c) ==
  /\ pc[s] = "closed" /\ status[c] \in CampaignStatus
  /\ Moves(s, "viewing", c, 0)
  /\ UNCHANGED <<row, now, queue, crashes, ghost>>

Close(s) ==
  /\ pc[s] = "viewing"
  /\ Moves(s, "closed", None, 0)
  /\ UNCHANGED <<row, now, queue, crashes, ghost>>

(* A rerun reads the row, then acts on what it read: it saves an edit or   *)
(* deletes (both refused unless the row it read is editable), rewrites a   *)
(* field (never refused), or sends the content it read.                    *)
StartRun(s, next) ==
  /\ pc[s] = "viewing"
  /\ status[job[s]] \in CampaignStatus
  /\ next \in {"editing", "deleting"} => status[job[s]] \in EditableStates
  /\ Moves(s, next, job[s], IF next = "claiming" THEN content[job[s]] ELSE 0)
  /\ UNCHANGED <<row, now, queue, crashes, ghost>>

(* The UPDATE of update_content, keyed by id alone.                        *)
WriteContent(s) ==
  /\ pc[s] \in {"editing", "rewriting"}
  /\ status[job[s]] \in CampaignStatus
  /\ content[job[s]] < MaxEdits
  /\ content' = [content EXCEPT ![job[s]] = @ + 1]
  /\ Leave(s)
  /\ UNCHANGED <<status, approvedAt, approvedBy, now, queue, crashes, ghost>>

(* The LLM refuses to rewrite, or the row is gone by the UPDATE.           *)
AbandonWrite(s) ==
  /\ pc[s] \in {"editing", "rewriting"}
  /\ Leave(s)
  /\ UNCHANGED <<row, now, queue, crashes, ghost>>

(* The DELETE of CampaignService.delete, keyed by id alone.                *)
DeleteRow(s) ==
  /\ pc[s] = "deleting"
  /\ status' = [status EXCEPT ![job[s]] = "DELETED"]
  /\ Leave(s)
  /\ UNCHANGED <<content, approvedAt, approvedBy, now, queue, crashes, ghost>>

-----------------------------------------------------------------------------
(* Dispatch passes of the worker.                                          *)

(* Seeded fault: the snapshot also takes what still awaits a decision.     *)
SnapshotPending(w) ==
  /\ pc[w] = "idle"
  /\ queue' = [queue EXCEPT ![w] =
       {[campaign |-> c, approvedAt |-> approvedAt[c]] :
          c \in {d \in Campaigns : status[d] \in {"AWAITING_APPROVAL", "APPROVED"}}}]
  /\ pc' = [pc EXCEPT ![w] = "passing"]
  /\ UNCHANGED <<row, now, job, copy, crashes, ghost>>

(* approved_campaigns: the snapshot the pass works through.                *)
Snapshot(w) ==
  /\ pc[w] = "idle"
  /\ queue' = [queue EXCEPT ![w] =
       {[campaign |-> c, approvedAt |-> approvedAt[c]] :
          c \in {d \in Campaigns : status[d] = "APPROVED"}}]
  /\ pc' = [pc EXCEPT ![w] = "passing"]
  /\ UNCHANGED <<row, now, job, copy, crashes, ghost>>

Oldest(w, e) == e \in queue[w] /\ \A f \in queue[w] : e.approvedAt <= f.approvedAt

(* A candidate whose window has not opened waits for a later pass.         *)
LeaveWaiting(w, e) ==
  /\ pc[w] = "passing" /\ Oldest(w, e)
  /\ now < NextSend[e.approvedAt]
  /\ queue' = [queue EXCEPT ![w] = @ \ {e}]
  /\ UNCHANGED <<row, now, pc, job, copy, crashes, ghost>>

(* Seeded faults: the gate opens with the approval; it opens for an        *)
(* instant only.                                                           *)
TakeApproved(w, e) ==
  /\ pc[w] = "passing" /\ Oldest(w, e)
  /\ now >= e.approvedAt
  /\ queue' = [queue EXCEPT ![w] = @ \ {e}]
  /\ Moves(w, "claiming", e.campaign, content[e.campaign])
  /\ UNCHANGED <<row, now, crashes, ghost>>
TakeAtTheInstant(w, e) ==
  /\ pc[w] = "passing" /\ Oldest(w, e)
  /\ now = NextSend[e.approvedAt]
  /\ queue' = [queue EXCEPT ![w] = @ \ {e}]
  /\ Moves(w, "claiming", e.campaign, content[e.campaign])
  /\ UNCHANGED <<row, now, crashes, ghost>>

(* A due candidate: get_content in a transaction of its own, then the send.*)
TakeDue(w, e) ==
  /\ pc[w] = "passing" /\ Oldest(w, e)
  /\ now >= NextSend[e.approvedAt]
  /\ queue' = [queue EXCEPT ![w] = @ \ {e}]
  /\ IF status[e.campaign] \in CampaignStatus
       THEN Moves(w, "claiming", e.campaign, content[e.campaign])
       ELSE UNCHANGED <<pc, job, copy>>
  /\ UNCHANGED <<row, now, crashes, ghost>>

EndPass(w) ==
  /\ pc[w] = "passing" /\ queue[w] = {}
  /\ Moves(w, "idle", None, 0)
  /\ UNCHANGED <<row, now, queue, crashes, ghost>>

-----------------------------------------------------------------------------
(* A send run, whoever started it.                                         *)

(* Seeded fault: the claim trusts the transition table, which also has the *)
(* settled states as sources of SENDING.                                   *)
ClaimByTable(p) ==
  /\ pc[p] = "claiming"
  /\ status[job[p]] \in SourcesOf("SENDING")
  /\ status' = [status EXCEPT ![job[p]] = "SENDING"]
  /\ Moves(p, "claimed", job[p], copy[p])
  /\ claims' = [claims EXCEPT ![job[p]] = @ + 1]
  /\ UNCHANGED <<content, approvedAt, approvedBy, now, queue, crashes, mail, decided, submitted>>

(* begin_send: the conditional UPDATE that takes the campaign.             *)
Claim(p) ==
  /\ pc[p] = "claiming"
  /\ status[job[p]] \in SendableStates
  /\ status' = [status EXCEPT ![job[p]] = "SENDING"]
  /\ Moves(p, "claimed", job[p], copy[p])
  /\ claims' = [claims EXCEPT ![job[p]] = @ + 1]
  /\ UNCHANGED <<content, approvedAt, approvedBy, now, queue, crashes, mail, decided, submitted>>

(* The UPDATE matches no row, or the list is empty, as a draft's may be    *)
(* but not that of a campaign the agent submitted with its recipients:     *)
(* ValidationError, nothing written.                                       *)
ClaimRefused(p) ==
  /\ pc[p] = "claiming"
  /\ status[job[p]] # "APPROVED"
  /\ Leave(p)
  /\ UNCHANGED <<row, now, queue, crashes, ghost>>

(* The provider accepts the first message.                                 *)
MailOut(p) ==
  /\ pc[p] = "claimed"
  /\ Moves(p, "mailed", job[p], 0)
  /\ mail' = [mail EXCEPT ![job[p]] =
       @ \cup {[by |-> p, at |-> now, content |-> copy[p]]}]
  /\ UNCHANGED <<row, now, queue, crashes, claims, decided, submitted>>

(* _settle, with the status its counts produce.                            *)
Settle(p, sent, failed) ==
  /\ InRun(p)
  /\ sent > 0 <=> pc[p] = "mailed"
  /\ status[job[p]] \in CampaignStatus
  /\ status' = [status EXCEPT ![job[p]] = Transitioned(@, Outcome(sent, failed))]
  /\ Leave(p)
  /\ UNCHANGED <<content, approvedAt, approvedBy, now, queue, crashes, ghost>>

(* An exception after the claim: rendering, the provider's configuration,  *)
(* an unresolved link token, a failed write of the outcomes.  The caller   *)
(* reports it; nobody moves the status back.                               *)
AbortRun(p) ==
  /\ InRun(p)
  /\ Leave(p)
  /\ UNCHANGED <<row, now, queue, crashes, ghost>>

(* The process is killed, or Streamlit interrupts the script for a rerun.  *)
Crash(p) ==
  /\ crashes < MaxCrashes
  /\ pc[p] \notin {"closed", "idle"}
  /\ crashes' = crashes + 1
  /\ Moves(p, IF p \in Sessions THEN "closed" ELSE "idle", None, 0)
  /\ queue' = [w \in Workers |-> IF w = p THEN {} ELSE queue[w]]
  /\ UNCHANGED <<row, now, ghost>>

Tick ==
  /\ now < MaxTime
  /\ now' = now + 1
  /\ UNCHANGED <<row, proc, crashes, ghost>>

-----------------------------------------------------------------------------
RowStep(c) ==
  \/ Create(c) \/ MarkReady(c) \/ Archive(c) \/ Submit(c)
  \/ \E d \in Campaigns : Duplicate(c, d)
  \/ \E u \in Approvers, d \in {"APPROVED", "REJECTED"} : Decide(u, c, d)

SessionStep(s) ==
  \/ \E c \in Campaigns : Open(s, c)
  \/ Close(s)
  \/ \E next \in {"editing", "rewriting", "deleting", "claiming"} : StartRun(s, next)
  \/ WriteContent(s) \/ AbandonWrite(s) \/ DeleteRow(s)

PassStep(w) ==
  \/ Snapshot(w) \/ EndPass(w)
  \/ \E e \in queue[w] : LeaveWaiting(w, e) \/ TakeDue(w, e)

RunStep(p) ==
  \/ Claim(p) \/ ClaimRefused(p) \/ MailOut(p) \/ AbortRun(p)
  \/ \E sent, failed \in {0, 1} : Settle(p, sent, failed)

Next ==
  \/ \E c \in Campaigns : RowStep(c)
  \/ \E s \in Sessions : SessionStep(s)
  \/ \E w \in Workers : PassStep(w)
  \/ \E p \in Procs : RunStep(p) \/ Crash(p)
  \/ Tick

Spec == Init /\ [][Next]_vars

(* The worker's scheduler keeps starting passes and a pass runs to its end,*)
(* its sends included.  Nothing is assumed of people, their pages and the  *)
(* clock.                                                                  *)
Fairness == \A w \in Workers : WF_vars(PassStep(w) \/ RunStep(w))

FairSpec == Spec /\ Fairness

-----------------------------------------------------------------------------
(* No campaign is claimed for sending twice, however many sessions, reruns *)
(* and workers press at once and however often runs fail: the promise of   *)
(* begin_send (campaign_repo.py) that a double send is impossible.         *)
SendBegunOnce ==
  \A c \in Campaigns :
    /\ claims[c] <= 1
    /\ \A p, q \in Procs :
         InRun(p) /\ InRun(q) /\ job[p] = c /\ job[q] = c => p = q

(* A campaign the agent has submitted is mailed only once an approver has  *)
(* approved it, and never when it was rejected or archived undecided,      *)
(* although a page may have been opened on it while it was still a draft   *)
(* and a pass may have read the table earlier: both may try to send        *)
(* (agent_service.py:302, what _submit_for_approval guarantees).           *)
SubmittedMailNeedsApproval ==
  \A c \in submitted : \A m \in mail[c] :
    approvedAt[c] # None /\ approvedAt[c] <= m.at

(* What a dispatch pass mails is approved and its window has opened by the *)
(* approval the row carries, although the pass decided from a snapshot.    *)
DispatchWaitsForWindow ==
  \A c \in Campaigns : \A m \in mail[c] :
    m.by \in Workers => approvedAt[c] # None /\ NextSend[approvedAt[c]] <= m.at

(* While a run is in progress its campaign is SENDING: it is neither       *)
(* archived nor settled by another, and (only a racing delete apart, which *)
(* checked the status before the claim) its row is there.                  *)
RunHoldsCampaign ==
  \A p \in Procs : InRun(p) => status[job[p]] \in {"SENDING", "DELETED"}

(* An approval is stamped once and never moves: approved_at, from which    *)
(* the send time is computed, outlives edits, sends and archiving.         *)
ApprovalStampedOnce ==
  [][\A c \in Campaigns : approvedAt[c] # None =>
       approvedAt'[c] = approvedAt[c] /\ approvedBy'[c] = approvedBy[c]]_vars

(* An approved campaign does not wait for ever: from the instant its       *)
(* window opens, and however late a pass comes, a dispatch pass takes it,  *)
(* unless somebody sends or archives it first (dispatch_service.py: due    *)
(* means that the window has opened, not that it opens now).  Nobody but   *)
(* the agent has campaigns approved.                                       *)
ApprovedGoesOut ==
  \A c \in AgentCampaigns :
    (status[c] = "APPROVED" /\ NextSend[approvedAt[c]] <= now)
      ~> status[c] # "APPROVED"

-----------------------------------------------------------------------------
(* What the repository's comments promise and the code does not keep.      *)

(* A campaign that is mid-send reaches a settled state (core/enums.py).    *)
SendingSettles ==
  \A c \in Campaigns : status[c] = "SENDING" ~> status[c] # "SENDING"

(* Nothing the agent drafted goes out before a human approved it           *)
(* (agent_service.py:11).                                                  *)
AgentMailNeedsApproval ==
  \A c \in AgentCampaigns : \A m \in mail[c] :
    approvedAt[c] # None /\ approvedAt[c] <= m.at

(* Approval guarantees the content: what goes out of an approved campaign  *)
(* is what was on the reviewer's screen (core/enums.py: no editing after   *)
(* approval).                                                              *)
ApprovalFixesContent ==
  \A c \in AgentCampaigns : \A m \in mail[c] :
    decided[c] # None => m.content = decided[c]
=============================================================================
