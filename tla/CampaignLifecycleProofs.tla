---------------------- MODULE CampaignLifecycleProofs ----------------------
(***************************************************************************)
(* Invariance proofs for CampaignLifecycle, for every set of campaigns,    *)
(* sessions, workers and approvers and every bound.  The invariant is      *)
(* built in three layers, each proved from those before it:                *)
(*   Typed     types, and which control points a process can be at;        *)
(*   Claimed   who holds a campaign, and that a claim is never repeated;   *)
(*   Approved  what an approval, a snapshot and an accepted mail imply.    *)
(* The last section is about the send window whose verdict dispatch uses,  *)
(* for every year, schedule and instant.                                   *)
(***************************************************************************)
EXTENDS CampaignLifecycle, SendWindow, TLAPS

Busy(p) == pc[p] \notin {"closed", "idle", "passing"}

PcByKind ==
  /\ \A s \in Sessions : pc[s] \in SessionPC \cup SendPC
  /\ \A w \in Workers : pc[w] \in WorkerPC \cup SendPC

BusyHasJob == \A p \in Procs : Busy(p) => job[p] \in Campaigns

(* A snapshot copies approved_at only because every APPROVED row has one.  *)
ApprovedIsStamped ==
  \A c \in Campaigns : status[c] = "APPROVED" => approvedAt[c] \in Time

Typed == TypeOK /\ PcByKind /\ BusyHasJob /\ ApprovedIsStamped

-----------------------------------------------------------------------------
(* The transition table, read backwards: where each status is reached from.*)
LEMMA Sources ==
  /\ SourcesOf("READY") = {"DRAFT"}
  /\ SourcesOf("AWAITING_APPROVAL") = {"DRAFT", "READY"}
  /\ SourcesOf("APPROVED") = {"AWAITING_APPROVAL"}
  /\ SourcesOf("REJECTED") = {"AWAITING_APPROVAL"}
  /\ SourcesOf("ARCHIVED") = CampaignStatus \ {"SENDING", "ARCHIVED"}
  /\ SourcesOf("SENT") = {"SENDING"}
  /\ SourcesOf("FAILED") = {"SENDING"}
  /\ SourcesOf("PARTIAL_FAILURE") = {"SENDING"}
  BY DEF SourcesOf, CanTransition, Transitions, CampaignStatus

(* A run settles in one of three states, all reached from SENDING only.    *)
LEMMA Settling ==
  ASSUME NEW sent \in {0, 1}, NEW failed \in {0, 1}
  PROVE  /\ Outcome(sent, failed) \in {"SENT", "FAILED", "PARTIAL_FAILURE"}
         /\ SourcesOf(Outcome(sent, failed)) = {"SENDING"}
  <1>1. Outcome(sent, failed) \in {"SENT", "FAILED", "PARTIAL_FAILURE"}
    BY DEF Outcome
  <1>2. QED
    BY <1>1, Sources

(* The row a run settles, seen as an assignment.                           *)
LEMMA SettleWrites ==
  ASSUME NEW p \in Procs, NEW sent \in {0, 1}, NEW failed \in {0, 1},
         Settle(p, sent, failed)
  PROVE  \E o \in {"SENT", "FAILED", "PARTIAL_FAILURE"} :
           status' = [status EXCEPT ![job[p]] = IF @ = "SENDING" THEN o ELSE @]
  BY Settling DEF Settle, Transitioned

-----------------------------------------------------------------------------
(* The processes are typed: every step keeps types, and a process that is  *)
(* past its page or its pass holds a campaign.                             *)
LEMMA TypedInit == Init => Typed
  BY LifecycleAssumption
     DEF Init, Typed, TypeOK, PcByKind, BusyHasJob, ApprovedIsStamped, Busy, Procs, Time, NoRow,
         SessionPC, WorkerPC

LEMMA TypedStep == Typed /\ [Next]_vars => Typed'
  <1> SUFFICES ASSUME Typed, [Next]_vars
               PROVE  Typed'
    OBVIOUS
  <1> USE LifecycleAssumption, Sources
      DEF Typed, TypeOK, PcByKind, BusyHasJob, ApprovedIsStamped, Busy, Procs,
          SessionPC, WorkerPC, SendPC
  <1>1. ASSUME NEW c \in Campaigns, RowStep(c)
        PROVE  Typed'
    <2>1. CASE Create(c)
      BY <2>1 DEF Create, CampaignStatus, row, proc, ghost
    <2>2. CASE MarkReady(c)
      BY <2>2 DEF MarkReady, TransitionOrRaise, CampaignStatus, row, proc, ghost
    <2>3. CASE Archive(c)
      BY <2>3 DEF Archive, TransitionOrRaise, CampaignStatus, row, proc, ghost
    <2>4. CASE Submit(c)
      BY <2>4 DEF Submit, TransitionOrRaise, CampaignStatus, row, proc, ghost
    <2>5. ASSUME NEW d \in Campaigns, Duplicate(c, d)
          PROVE  Typed'
      BY <2>5 DEF Duplicate, CampaignStatus, row, proc, ghost
    <2>6. ASSUME NEW u \in Approvers, NEW decision \in {"APPROVED", "REJECTED"}, Decide(u, c, decision)
          PROVE  Typed'
      BY <2>6 DEF Decide, TransitionOrRaise, CampaignStatus, Time, row, proc, ghost
    <2> QED
      BY <1>1, <2>1, <2>2, <2>3, <2>4, <2>5, <2>6 DEF RowStep
  <1>2. ASSUME NEW s \in Sessions, SessionStep(s)
        PROVE  Typed'
    <2>1. ASSUME NEW c \in Campaigns, Open(s, c)
          PROVE  Typed'
      BY <2>1 DEF Open, Moves, row, proc, ghost
    <2>2. CASE Close(s)
      BY <2>2 DEF Close, Moves, row, proc, ghost
    <2>3. ASSUME NEW next \in {"editing", "rewriting", "deleting", "claiming"}, StartRun(s, next)
          PROVE  Typed'
      BY <2>3 DEF StartRun, Moves, row, proc, ghost
    <2>4. CASE WriteContent(s)
      BY <2>4 DEF WriteContent, Leave, Moves, row, proc, ghost
    <2>5. CASE AbandonWrite(s)
      BY <2>5 DEF AbandonWrite, Leave, Moves, row, proc, ghost
    <2>6. CASE DeleteRow(s)
      BY <2>6 DEF DeleteRow, Leave, Moves, NoRow, row, proc, ghost
    <2> QED
      BY <1>2, <2>1, <2>2, <2>3, <2>4, <2>5, <2>6 DEF SessionStep
  <1>3. ASSUME NEW w \in Workers, PassStep(w)
        PROVE  Typed'
    <2>1. CASE Snapshot(w)
      BY <2>1 DEF Snapshot, row, proc, ghost
    <2>2. CASE EndPass(w)
      BY <2>2 DEF EndPass, Moves, row, proc, ghost
    <2>3. ASSUME NEW e \in queue[w], LeaveWaiting(w, e)
          PROVE  Typed'
      BY <2>3 DEF LeaveWaiting, row, proc, ghost
    <2>4. ASSUME NEW e \in queue[w], TakeDue(w, e)
          PROVE  Typed'
      BY <2>4 DEF TakeDue, Moves, row, proc, ghost
    <2> QED
      BY <1>3, <2>1, <2>2, <2>3, <2>4 DEF PassStep
  <1>4. ASSUME NEW p \in Procs, RunStep(p)
        PROVE  Typed'
    <2>1. CASE Claim(p)
      BY <2>1 DEF Claim, Moves, CampaignStatus, row, proc, ghost
    <2>2. CASE ClaimRefused(p)
      BY <2>2 DEF ClaimRefused, Leave, Moves, row, proc, ghost
    <2>3. CASE MailOut(p)
      BY <2>3 DEF MailOut, Moves, row, proc, ghost
    <2>4. CASE AbortRun(p)
      BY <2>4 DEF AbortRun, InRun, Leave, Moves, row, proc, ghost
    <2>5. ASSUME NEW sent \in {0, 1}, NEW failed \in {0, 1}, Settle(p, sent, failed)
          PROVE  Typed'
      <3>1. /\ status' \in [Campaigns -> CampaignStatus \cup NoRow]
            /\ \A c \in Campaigns : status'[c] = "APPROVED" => status[c] = "APPROVED"
        BY <2>5, SettleWrites DEF CampaignStatus
      <3>2. QED
        BY <2>5, <3>1 DEF Settle, InRun, Leave, Moves, row, proc, ghost
    <2> QED
      BY <1>4, <2>1, <2>2, <2>3, <2>4, <2>5 DEF RunStep
  <1>5. ASSUME NEW p \in Procs, Crash(p)
        PROVE  Typed'
    BY <1>5 DEF Crash, Moves, row, ghost
  <1>6. CASE Tick
    BY <1>6 DEF Tick, Time, row, proc, ghost
  <1>7. CASE UNCHANGED vars
    BY <1>7 DEF vars, row, proc, ghost
  <1> QED
    BY <1>1, <1>2, <1>3, <1>4, <1>5, <1>6, <1>7 DEF Next
-----------------------------------------------------------------------------
(* A claim is never repeated: a campaign that can still be claimed has not *)
(* been, a run works on a claimed campaign, and on one of its own.         *)
Unsent == {"ABSENT", "DRAFT", "READY", "AWAITING_APPROVAL", "APPROVED", "REJECTED"}

UnsentUnclaimed ==
  \A c \in Campaigns : claims[c] <= 1 /\ (status[c] \in Unsent => claims[c] = 0)

RunClaimed == \A p \in Procs : InRun(p) => claims[job[p]] = 1

OneRun ==
  \A p, q \in Procs : InRun(p) /\ InRun(q) /\ job[p] = job[q] => p = q

Claimed == UnsentUnclaimed /\ RunClaimed /\ OneRun /\ RunHoldsCampaign

LEMMA ClaimedInit == Init => Claimed
  BY DEF Init, Claimed, UnsentUnclaimed, RunClaimed, OneRun, RunHoldsCampaign,
         InRun, Procs

LEMMA ClaimedStep == Typed /\ Claimed /\ [Next]_vars => Claimed'
  <1> SUFFICES ASSUME Typed, Claimed, [Next]_vars
               PROVE  Claimed'
    OBVIOUS
  <1> USE LifecycleAssumption, Sources
      DEF Typed, TypeOK, BusyHasJob, Busy, Procs, Claimed, UnsentUnclaimed,
          RunClaimed, OneRun, RunHoldsCampaign, InRun, Unsent
  <1>1. ASSUME NEW c \in Campaigns, RowStep(c)
        PROVE  Claimed'
    <2>1. CASE Create(c)
      BY <2>1 DEF Create, row, proc, ghost
    <2>2. CASE MarkReady(c)
      BY <2>2 DEF MarkReady, TransitionOrRaise, row, proc, ghost
    <2>3. CASE Archive(c)
      BY <2>3 DEF Archive, TransitionOrRaise, CampaignStatus, row, proc, ghost
    <2>4. CASE Submit(c)
      BY <2>4 DEF Submit, TransitionOrRaise, row, proc, ghost
    <2>5. ASSUME NEW d \in Campaigns, Duplicate(c, d)
          PROVE  Claimed'
      BY <2>5 DEF Duplicate, row, proc, ghost
    <2>6. ASSUME NEW u \in Approvers, NEW decision \in {"APPROVED", "REJECTED"}, Decide(u, c, decision)
          PROVE  Claimed'
      BY <2>6 DEF Decide, TransitionOrRaise, row, proc, ghost
    <2> QED
      BY <1>1, <2>1, <2>2, <2>3, <2>4, <2>5, <2>6 DEF RowStep
  <1>2. ASSUME NEW s \in Sessions, SessionStep(s)
        PROVE  Claimed'
    <2>1. ASSUME NEW c \in Campaigns, Open(s, c)
          PROVE  Claimed'
      BY <2>1 DEF Open, Moves, row, proc, ghost
    <2>2. CASE Close(s)
      BY <2>2 DEF Close, Moves, row, proc, ghost
    <2>3. ASSUME NEW next \in {"editing", "rewriting", "deleting", "claiming"}, StartRun(s, next)
          PROVE  Claimed'
      BY <2>3 DEF StartRun, Moves, row, proc, ghost
    <2>4. CASE WriteContent(s)
      BY <2>4 DEF WriteContent, Leave, Moves, row, proc, ghost
    <2>5. CASE AbandonWrite(s)
      BY <2>5 DEF AbandonWrite, Leave, Moves, row, proc, ghost
    <2>6. CASE DeleteRow(s)
      BY <2>6 DEF DeleteRow, Leave, Moves, row, proc, ghost
    <2> QED
      BY <1>2, <2>1, <2>2, <2>3, <2>4, <2>5, <2>6 DEF SessionStep
  <1>3. ASSUME NEW w \in Workers, PassStep(w)
        PROVE  Claimed'
    <2>1. CASE Snapshot(w)
      BY <2>1 DEF Snapshot, row, proc, ghost
    <2>2. CASE EndPass(w)
      BY <2>2 DEF EndPass, Moves, row, proc, ghost
    <2>3. ASSUME NEW e \in queue[w], LeaveWaiting(w, e)
          PROVE  Claimed'
      BY <2>3 DEF LeaveWaiting, row, proc, ghost
    <2>4. ASSUME NEW e \in queue[w], TakeDue(w, e)
          PROVE  Claimed'
      BY <2>4 DEF TakeDue, Moves, row, proc, ghost
    <2> QED
      BY <1>3, <2>1, <2>2, <2>3, <2>4 DEF PassStep
  <1>4. ASSUME NEW p \in Procs, RunStep(p)
        PROVE  Claimed'
    <2>1. CASE Claim(p)
      BY <2>1 DEF Claim, Moves, SendableStates, row, proc, ghost
    <2>2. CASE ClaimRefused(p)
      BY <2>2 DEF ClaimRefused, Leave, Moves, row, proc, ghost
    <2>3. CASE MailOut(p)
      BY <2>3 DEF MailOut, Moves, row, proc, ghost
    <2>4. CASE AbortRun(p)
      BY <2>4 DEF AbortRun, Leave, Moves, row, proc, ghost
    <2>5. ASSUME NEW sent \in {0, 1}, NEW failed \in {0, 1}, Settle(p, sent, failed)
          PROVE  Claimed'
      <3>1. PICK o \in {"SENT", "FAILED", "PARTIAL_FAILURE"} :
                status' = [status EXCEPT ![job[p]] = IF @ = "SENDING" THEN o ELSE @]
        BY <2>5, SettleWrites
      <3>2. \A q \in Procs : InRun(q)' => q # p /\ InRun(q) /\ job'[q] = job[q]
        BY <2>5 DEF Settle, Leave, Moves
      <3>3. UnsentUnclaimed'
        BY <2>5, <3>1 DEF Settle, ghost
      <3>4. RunClaimed' /\ OneRun' /\ RunHoldsCampaign'
        BY <2>5, <3>1, <3>2 DEF Settle, ghost
      <3>5. QED
        BY <3>3, <3>4
    <2> QED
      BY <1>4, <2>1, <2>2, <2>3, <2>4, <2>5 DEF RunStep
  <1>5. ASSUME NEW p \in Procs, Crash(p)
        PROVE  Claimed'
    BY <1>5 DEF Crash, Moves, row, ghost
  <1>6. CASE Tick
    BY <1>6 DEF Tick, Time, row, proc, ghost
  <1>7. CASE UNCHANGED vars
    BY <1>7 DEF vars, row, proc, ghost
  <1> QED
    BY <1>1, <1>2, <1>3, <1>4, <1>5, <1>6, <1>7 DEF Next
-----------------------------------------------------------------------------
(* What an approval implies afterwards.  Approved rows never return to a   *)
(* reviewable or editable state, so the stamp a snapshot copied is still   *)
(* the row's; a campaign the agent has submitted is never again a draft, so*)
(* whoever held it from before can claim it only once it is approved; and  *)
(* a dispatch pass claims nothing before the window of that stamp.         *)
Unapproved == {"ABSENT", "DRAFT", "READY", "AWAITING_APPROVAL", "REJECTED"}

ApprovedSince ==
  \A c \in Campaigns :
    approvedAt[c] # None => status[c] \notin Unapproved /\ approvedAt[c] <= now

SubmittedStays ==
  \A c \in submitted : status[c] \notin {"ABSENT", "DRAFT", "READY"}

QueueFresh ==
  \A w \in Workers : \A e \in queue[w] : approvedAt[e.campaign] = e.approvedAt

DueJobs ==
  \A w \in Workers : pc[w] \in SendPC =>
    approvedAt[job[w]] # None /\ NextSend[approvedAt[job[w]]] <= now

MailClaimed == \A c \in Campaigns : mail[c] # {} => claims[c] = 1

SubmittedClaims ==
  \A c \in submitted : claims[c] # 0 => approvedAt[c] # None

MailDated ==
  \A c \in Campaigns : approvedAt[c] # None =>
    \A m \in mail[c] : approvedAt[c] <= m.at

Approved ==
  /\ ApprovedSince /\ SubmittedStays /\ QueueFresh /\ DueJobs
  /\ MailClaimed /\ SubmittedClaims /\ MailDated /\ DispatchWaitsForWindow

LEMMA ApprovedInit == Init => Approved
  BY LifecycleAssumption
     DEF Init, Approved, ApprovedSince, SubmittedStays, QueueFresh, DueJobs,
         MailClaimed, SubmittedClaims, MailDated, DispatchWaitsForWindow, Busy,
         Procs, SendPC

LEMMA ApprovedStep == Typed /\ Claimed /\ Approved /\ [Next]_vars => Approved'
  <1> SUFFICES ASSUME Typed, Claimed, Approved, [Next]_vars
               PROVE  Approved'
    OBVIOUS
  <1> USE LifecycleAssumption, ScheduleAssumption, Sources
      DEF Typed, TypeOK, PcByKind, BusyHasJob, ApprovedIsStamped, Busy, Procs,
          SessionPC, WorkerPC, SendPC, InRun, Unsent, Claimed,
          UnsentUnclaimed, RunClaimed, Approved, Unapproved, ApprovedSince,
          SubmittedStays, QueueFresh, DueJobs, MailClaimed, SubmittedClaims, MailDated,
          DispatchWaitsForWindow
  <1>a. None \notin Time
    BY DEF Time
  <1>b. \A w \in Workers : \A e \in queue[w] :
          e.campaign \in Campaigns /\ e.approvedAt \in Time
    OBVIOUS
  <1>c. \A w \in Workers : pc[w] \in SendPC =>
          /\ job[w] \in Campaigns
          /\ approvedAt[job[w]] \in Time /\ NextSend[approvedAt[job[w]]] \in Nat
    OBVIOUS
  <1>1. ASSUME NEW c \in Campaigns, RowStep(c)
        PROVE  Approved'
    <2>1. CASE Create(c)
      BY <2>1 DEF Create, row, proc, ghost
    <2>2. CASE MarkReady(c)
      BY <2>2 DEF MarkReady, TransitionOrRaise, row, proc, ghost
    <2>3. CASE Archive(c)
      BY <2>3 DEF Archive, TransitionOrRaise, CampaignStatus, row, proc, ghost
    <2>4. CASE Submit(c)
      BY <2>4 DEF Submit, TransitionOrRaise, row, proc, ghost
    <2>5. ASSUME NEW d \in Campaigns, Duplicate(c, d)
          PROVE  Approved'
      BY <2>5 DEF Duplicate, row, proc, ghost
    <2>6. ASSUME NEW u \in Approvers, NEW decision \in {"APPROVED", "REJECTED"}, Decide(u, c, decision)
          PROVE  Approved'
      <3>0. approvedAt[c] = None /\ claims[c] = 0 /\ mail[c] = {}
        BY <2>6 DEF Decide
      <3>1. ApprovedSince' /\ SubmittedStays'
        BY <3>0, <2>6 DEF Decide, TransitionOrRaise, proc, Time
      <3>2. QueueFresh'
        BY <1>a, <1>b, <3>0, <2>6 DEF Decide, TransitionOrRaise, proc
      <3>3. DueJobs'
        BY <3>0, <2>6 DEF Decide, TransitionOrRaise, proc
      <3>4. MailClaimed' /\ SubmittedClaims'
        BY <3>0, <2>6 DEF Decide, TransitionOrRaise, proc
      <3>5. mail' = mail /\ \A d \in Campaigns : d # c => approvedAt'[d] = approvedAt[d]
        BY <2>6 DEF Decide
      <3>6. MailDated'
        BY ONLY <3>0, <3>5, MailDated DEF MailDated
      <3>7. DispatchWaitsForWindow'
        BY ONLY <3>0, <3>5, DispatchWaitsForWindow DEF DispatchWaitsForWindow
      <3> QED
        BY <3>1, <3>2, <3>3, <3>4, <3>6, <3>7
    <2> QED
      BY <1>1, <2>1, <2>2, <2>3, <2>4, <2>5, <2>6 DEF RowStep
  <1>2. ASSUME NEW s \in Sessions, SessionStep(s)
        PROVE  Approved'
    <2>1. ASSUME NEW c \in Campaigns, Open(s, c)
          PROVE  Approved'
      BY <2>1 DEF Open, Moves, CampaignStatus, PendingApproval, row, proc, ghost
    <2>2. CASE Close(s)
      BY <2>2 DEF Close, Moves, row, proc, ghost
    <2>3. ASSUME NEW next \in {"editing", "rewriting", "deleting", "claiming"}, StartRun(s, next)
          PROVE  Approved'
      BY <2>3 DEF StartRun, Moves, row, proc, ghost
    <2>4. CASE WriteContent(s)
      BY <2>4 DEF WriteContent, Leave, Moves, row, proc, ghost
    <2>5. CASE AbandonWrite(s)
      BY <2>5 DEF AbandonWrite, Leave, Moves, row, proc, ghost
    <2>6. CASE DeleteRow(s)
      BY <2>6 DEF DeleteRow, Leave, Moves, row, proc, ghost
    <2> QED
      BY <1>2, <2>1, <2>2, <2>3, <2>4, <2>5, <2>6 DEF SessionStep
  <1>3. ASSUME NEW w \in Workers, PassStep(w)
        PROVE  Approved'
    <2>1. CASE Snapshot(w)
      BY <2>1 DEF Snapshot, row, proc, ghost
    <2>2. CASE EndPass(w)
      BY <2>2 DEF EndPass, Moves, row, proc, ghost
    <2>3. ASSUME NEW e \in queue[w], LeaveWaiting(w, e)
          PROVE  Approved'
      BY <2>3 DEF LeaveWaiting, row, proc, ghost
    <2>4. ASSUME NEW e \in queue[w], TakeDue(w, e)
          PROVE  Approved'
      <3>1. ApprovedSince' /\ SubmittedStays'
        BY <1>a, <1>b, <2>4 DEF TakeDue, Moves, row, ghost
      <3>2. QueueFresh'
        BY <2>4 DEF TakeDue, Moves, row, ghost
      <3>3. DueJobs'
        BY <1>a, <1>b, <1>c, <2>4 DEF TakeDue, Moves, row, ghost
      <3>4. MailClaimed' /\ SubmittedClaims'
        BY <2>4 DEF TakeDue, Moves, row, ghost
      <3>5. MailDated' /\ DispatchWaitsForWindow'
        BY <2>4 DEF TakeDue, Moves, row, ghost
      <3> QED
        BY <3>1, <3>2, <3>3, <3>4, <3>5
    <2> QED
      BY <1>3, <2>1, <2>2, <2>3, <2>4 DEF PassStep
  <1>4. ASSUME NEW p \in Procs, RunStep(p)
        PROVE  Approved'
    <2>1. CASE Claim(p)
      <3>1. ApprovedSince' /\ SubmittedStays'
        BY <2>1 DEF Claim, Moves, SendableStates
      <3>2. QueueFresh'
        BY <2>1 DEF Claim, Moves, SendableStates
      <3>3. DueJobs'
        BY <2>1 DEF Claim, Moves, SendableStates
      <3>4. MailClaimed' /\ SubmittedClaims'
        BY <1>a, <2>1 DEF Claim, Moves, SendableStates
      <3>5. MailDated' /\ DispatchWaitsForWindow'
        BY <2>1 DEF Claim, Moves, SendableStates
      <3> QED
        BY <3>1, <3>2, <3>3, <3>4, <3>5
    <2>2. CASE ClaimRefused(p)
      BY <2>2 DEF ClaimRefused, Leave, Moves, row, proc, ghost
    <2>3. CASE MailOut(p)
      BY <2>3 DEF MailOut, Moves, row, proc, ghost
    <2>4. CASE AbortRun(p)
      BY <2>4 DEF AbortRun, Leave, Moves, row, proc, ghost
    <2>5. ASSUME NEW sent \in {0, 1}, NEW failed \in {0, 1}, Settle(p, sent, failed)
          PROVE  Approved'
      <3>0. PICK o \in {"SENT", "FAILED", "PARTIAL_FAILURE"} :
                status' = [status EXCEPT ![job[p]] = IF @ = "SENDING" THEN o ELSE @]
        BY <2>5, SettleWrites
      <3>1. ApprovedSince' /\ SubmittedStays'
        BY <3>0, <2>5 DEF Settle, Leave, Moves, ghost
      <3>2. QueueFresh'
        BY <3>0, <2>5 DEF Settle, Leave, Moves, ghost
      <3>3. DueJobs'
        BY <3>0, <2>5 DEF Settle, Leave, Moves, ghost
      <3>4. MailClaimed' /\ SubmittedClaims'
        BY <3>0, <2>5 DEF Settle, Leave, Moves, ghost
      <3>5. MailDated' /\ DispatchWaitsForWindow'
        BY <3>0, <2>5 DEF Settle, Leave, Moves, ghost
      <3> QED
        BY <3>1, <3>2, <3>3, <3>4, <3>5
    <2> QED
      BY <1>4, <2>1, <2>2, <2>3, <2>4, <2>5 DEF RunStep
  <1>5. ASSUME NEW p \in Procs, Crash(p)
        PROVE  Approved'
    BY <1>5 DEF Crash, Moves, row, ghost
  <1>6. CASE Tick
    <2>1. ApprovedSince' /\ SubmittedStays'
      BY <1>6 DEF Tick, Time, row, proc, ghost
    <2>2. QueueFresh'
      BY <1>6 DEF Tick, Time, row, proc, ghost
    <2>3. DueJobs'
      BY <1>c, <1>6 DEF Tick, Time, row, proc, ghost
    <2>4. MailClaimed' /\ SubmittedClaims'
      BY <1>6 DEF Tick, Time, row, proc, ghost
    <2>5. MailDated' /\ DispatchWaitsForWindow'
      BY <1>6 DEF Tick, Time, row, proc, ghost
    <2> QED
      BY <2>1, <2>2, <2>3, <2>4, <2>5
  <1>7. CASE UNCHANGED vars
    BY <1>7 DEF vars, row, proc, ghost
  <1> QED
    BY <1>1, <1>2, <1>3, <1>4, <1>5, <1>6, <1>7 DEF Next
-----------------------------------------------------------------------------
(* The theorems, for every instance.                                       *)

LifecycleInv == Typed /\ Claimed /\ Approved

(* The three layers together are an inductive invariant.                   *)
THEOREM Invariance == Spec => []LifecycleInv
  <1>1. Init => LifecycleInv
    BY TypedInit, ClaimedInit, ApprovedInit DEF LifecycleInv
  <1>2. LifecycleInv /\ [Next]_vars => LifecycleInv'
    BY TypedStep, ClaimedStep, ApprovedStep DEF LifecycleInv
  <1>3. QED
    BY <1>1, <1>2, PTL DEF Spec

(* Every variable keeps its type; in particular a snapshot never copies a  *)
(* missing approved_at, on which next_send_after would fail.               *)
THEOREM TypeCorrect == Spec => []TypeOK
  <1>1. LifecycleInv => TypeOK
    BY DEF LifecycleInv, Typed
  <1>2. QED
    BY <1>1, Invariance, PTL

(* begin_send's promise: no campaign is claimed twice, and no two runs     *)
(* work on one campaign, for any number of sessions and workers.           *)
THEOREM DoubleSendImpossible == Spec => []SendBegunOnce
  <1>1. LifecycleInv => SendBegunOnce
    BY DEF LifecycleInv, Claimed, UnsentUnclaimed, OneRun, SendBegunOnce
  <1>2. QED
    BY <1>1, Invariance, PTL

(* A run's campaign is SENDING (or deleted under it) until the run ends.   *)
THEOREM RunKeepsCampaign == Spec => []RunHoldsCampaign
  <1>1. LifecycleInv => RunHoldsCampaign
    BY DEF LifecycleInv, Claimed
  <1>2. QED
    BY <1>1, Invariance, PTL

(* No mail of a campaign the agent has submitted without an earlier        *)
(* approval, whatever pages were opened on it while it was a draft.        *)
THEOREM NoMailUnapproved == Spec => []SubmittedMailNeedsApproval
  <1>1. LifecycleInv => SubmittedMailNeedsApproval
    BY LifecycleAssumption
       DEF LifecycleInv, Typed, TypeOK, Claimed, UnsentUnclaimed, Unsent,
           Approved, MailClaimed, SubmittedClaims, MailDated,
           SubmittedMailNeedsApproval
  <1>2. QED
    BY <1>1, Invariance, PTL

(* A dispatch pass mails only what is approved and due.                    *)
THEOREM NoDispatchBeforeWindow == Spec => []DispatchWaitsForWindow
  <1>1. LifecycleInv => DispatchWaitsForWindow
    BY DEF LifecycleInv, Approved
  <1>2. QED
    BY <1>1, Invariance, PTL

(* The approval of a campaign is stamped once and never moves: only _decide*)
(* writes it, and only on a row that no approval has touched.              *)
THEOREM StampsAreFinal == Spec => ApprovalStampedOnce
  <1> DEFINE Kept == \A c \in Campaigns : approvedAt[c] # None =>
               approvedAt'[c] = approvedAt[c] /\ approvedBy'[c] = approvedBy[c]
  <1>1. LifecycleInv /\ [Next]_vars => Kept
    <2> SUFFICES ASSUME LifecycleInv, [Next]_vars
                 PROVE  Kept
      OBVIOUS
    <2>1. ASSUME NEW u \in Approvers, NEW d \in Campaigns,
                 NEW decision \in {"APPROVED", "REJECTED"}, Decide(u, d, decision)
          PROVE  Kept
      BY <2>1 DEF Decide, LifecycleInv, Typed, TypeOK, Approved, ApprovedSince, Unapproved
    <2>2. CASE UNCHANGED <<approvedAt, approvedBy>>
      BY <2>2
    <2>3. QED
      BY <2>1, <2>2
         DEF Next, RowStep, SessionStep, PassStep, RunStep, vars, row, Create,
             MarkReady, Archive, Submit, Duplicate, Open, Close,
             StartRun, WriteContent, AbandonWrite, DeleteRow, Snapshot,
             EndPass, LeaveWaiting, TakeDue, Claim, ClaimRefused, MailOut,
             AbortRun, Settle, Crash, Tick
  <1>2. QED
    BY <1>1, Invariance, PTL DEF Spec, ApprovalStampedOnce

-----------------------------------------------------------------------------
(* The send window (AgentSettings.next_send_after).                        *)
LEMMA MonthLength ==
  ASSUME NEW y \in Nat, NEW m \in Months
  PROVE  DaysInMonth(y, m) \in 28..31
BY DEF DaysInMonth, Months

LEMMA DayNumberInt ==
  ASSUME NEW y \in Nat \ {0}, NEW m \in Months, NEW d \in Int
  PROVE  DayNumber(y, m, d) \in Int
BY DEF DayNumber, DaysBeforeYear, DaysBeforeMonth, Months

(* The month number splits into a year and a month, and the next number    *)
(* is the next month (_add_months).                                        *)
LEMMA NextMonth ==
  ASSUME NEW i \in Nat
  PROVE  /\ YearOf(i) \in Nat /\ MonthOf(i) \in Months
         /\ MonthOf(i) < 12 => YearOf(i + 1) = YearOf(i) /\ MonthOf(i + 1) = MonthOf(i) + 1
         /\ MonthOf(i) = 12 => YearOf(i + 1) = YearOf(i) + 1 /\ MonthOf(i + 1) = 1
BY DEF YearOf, MonthOf, Months

LEMMA YearLength ==
  ASSUME NEW y \in Nat \ {0}
  PROVE  DaysBeforeYear(y + 1) = DaysBeforeYear(y) + (IF Leap(y) THEN 366 ELSE 365)
BY DEF DaysBeforeYear, Leap

(* A month's first day comes the length of the month before after that     *)
(* month's first day.                                                      *)
LEMMA MonthFollows ==
  ASSUME NEW i \in Nat, YearOf(i) # 0
  PROVE  /\ FirstDay(i) \in Int
         /\ FirstDay(i + 1) = FirstDay(i) + DaysInMonth(YearOf(i), MonthOf(i))
<1> DEFINE y == YearOf(i)  m == MonthOf(i)
<1>1. y \in Nat \ {0} /\ m \in Months
  BY NextMonth
<1>2. FirstDay(i) \in Int
  BY <1>1, DayNumberInt DEF FirstDay
<1>3. CASE m < 12
  <2>1. FirstDay(i + 1) = DayNumber(y, m + 1, 1)
    BY <1>3, NextMonth DEF FirstDay
  <2>2. DayNumber(y, m + 1, 1) = DayNumber(y, m, 1) + DaysInMonth(y, m)
    <3> HIDE DEF y, m
    <3>1. DaysBeforeYear(y) \in Int
      BY <1>1 DEF DaysBeforeYear
    <3>2. DaysBeforeMonth(y, m + 1) = DaysBeforeMonth(y, m) + DaysInMonth(y, m)
      BY <1>1, <1>3 DEF DaysBeforeMonth, DaysInMonth, Months
    <3>3. DaysBeforeMonth(y, m) \in Int /\ DaysInMonth(y, m) \in Int
      BY <1>1 DEF DaysBeforeMonth, DaysInMonth, Months
    <3> QED BY <3>1, <3>2, <3>3 DEF DayNumber
  <2> QED BY <1>2, <2>1, <2>2 DEF FirstDay
<1>4. CASE m = 12
  <2>1. FirstDay(i + 1) = DayNumber(y + 1, 1, 1)
    BY <1>4, NextMonth DEF FirstDay
  <2>2. DayNumber(y + 1, 1, 1) = DayNumber(y, 12, 1) + 31
    <3> HIDE DEF y, m
    <3>1. DaysBeforeYear(y) \in Int
      BY <1>1 DEF DaysBeforeYear
    <3> QED BY <1>1, <3>1, YearLength DEF DayNumber, DaysBeforeMonth
  <2>3. DaysInMonth(y, 12) = 31
    BY DEF DaysInMonth
  <2> QED BY <1>2, <1>4, <2>1, <2>2, <2>3 DEF FirstDay
<1> QED BY <1>1, <1>2, <1>3, <1>4 DEF Months

(* Division by the seven days of a week.                                   *)
LEMMA SevenDivides ==
  ASSUME NEW a \in Int
  PROVE  \E q \in Int, r \in 0..6 : a = 7 * q + r /\ a % 7 = r
OBVIOUS

LEMMA SevenRemains ==
  ASSUME NEW a \in Int, NEW b \in 0..6
  PROVE  (7 * a + b) % 7 = b
OBVIOUS

(* Before it is clamped the day is one of the 35 from the first, on the    *)
(* weekday asked for, and one week less is always in the month: the loop   *)
(* of _nth_weekday_of_month steps back at most once.                       *)
LEMMA UnclampedBound ==
  ASSUME NEW y \in Nat \ {0}, NEW m \in Months, NEW w \in 0..6, NEW n \in 1..5
  PROVE  /\ Unclamped(y, m, w, n) \in ((n - 1) * 7 + 1)..(n * 7)
         /\ Unclamped(y, m, w, n) - 7 <= DaysInMonth(y, m)
         /\ Weekday(DayNumber(y, m, 1) + Unclamped(y, m, w, n) - 1) = w
<1>1. PICK first \in Int : first = DayNumber(y, m, 1)
  BY DayNumberInt
<1>2. PICK f \in 0..6 : f = Weekday(first)
  BY DEF Weekday
<1>3. PICK k \in 0..6 : k = (w - f) % 7
  OBVIOUS
<1>4. Unclamped(y, m, w, n) = 1 + k + (n - 1) * 7
  <2>1. Weekday(DayNumber(y, m, 1)) = f
    BY <1>1, <1>2
  <2> QED BY <1>3, <2>1 DEF Unclamped
<1>5. DaysInMonth(y, m) \in 28..31
  BY MonthLength
<1>6. (first - 1 + k + (n - 1) * 7) % 7 = w
  <2>1. PICK q \in Int : first - 1 = 7 * q + f
    <3>1. f = (first - 1) % 7
      BY <1>2 DEF Weekday
    <3>2. first - 1 \in Int
      OBVIOUS
    <3>3. PICK q \in Int, r \in 0..6 : first - 1 = 7 * q + r /\ (first - 1) % 7 = r
      BY <3>2, SevenDivides
    <3> QED BY <3>1, <3>3
  <2>2. k = w - f \/ k = w - f + 7
    BY <1>3
  <2>3. CASE k = w - f
    <3>1. first - 1 + k + (n - 1) * 7 = 7 * (q + n - 1) + w
      BY <2>1, <2>3
    <3> QED BY <3>1, SevenRemains
  <2>4. CASE k = w - f + 7
    <3>1. first - 1 + k + (n - 1) * 7 = 7 * (q + n) + w
      BY <2>1, <2>4
    <3> QED BY <3>1, SevenRemains
  <2> QED BY <2>2, <2>3, <2>4
<1>7. Weekday(DayNumber(y, m, 1) + Unclamped(y, m, w, n) - 1) = w
  <2>1. DayNumber(y, m, 1) + Unclamped(y, m, w, n) - 1 = first + k + (n - 1) * 7
    BY <1>1, <1>4
  <2>2. first + k + (n - 1) * 7 - 1 = first - 1 + k + (n - 1) * 7
    OBVIOUS
  <2> QED BY <1>6, <2>1, <2>2 DEF Weekday
<1> QED BY <1>4, <1>5, <1>7

(* Every month has its slot's day, on the weekday asked for: the month     *)
(* with four of them has a fifth by counting the last again.               *)
THEOREM SlotInMonth ==
  ASSUME NEW y \in Nat \ {0}, NEW m \in Months, NEW w \in 0..6, NEW n \in 1..5
  PROVE  /\ NthWeekday(y, m, w, n) \in 1..DaysInMonth(y, m)
         /\ Weekday(DayNumber(y, m, NthWeekday(y, m, w, n))) = w
<1> DEFINE day == Unclamped(y, m, w, n)
<1>1. day \in 1..35 /\ day - 7 <= DaysInMonth(y, m)
  BY UnclampedBound
<1>2. DaysInMonth(y, m) \in 28..31
  BY MonthLength
<1>3. PICK first \in Int : first = DayNumber(y, m, 1)
  BY DayNumberInt
<1>4. \A d \in Int : DayNumber(y, m, d) = first + d - 1
  BY <1>3 DEF DayNumber, DaysBeforeYear, DaysBeforeMonth, Months
<1>5. Weekday(first + day - 1) = w
  BY <1>3, UnclampedBound
<1>6. Weekday(first + (day - 7) - 1) = Weekday(first + day - 1)
  BY <1>1 DEF Weekday
<1> HIDE DEF day
<1> QED BY <1>1, <1>2, <1>4, <1>5, <1>6 DEF NthWeekday, day

(* A month's slot lies in that month, so slots of later months come later. *)
LEMMA SlotBounds ==
  ASSUME NEW i \in Nat, YearOf(i) # 0, NEW s \in Schedules
  PROVE  /\ Slot(i, s) \in Int
         /\ FirstDay(i) * MinutesPerDay <= Slot(i, s)
         /\ Slot(i, s) < FirstDay(i + 1) * MinutesPerDay
<1>1. YearOf(i) \in Nat \ {0} /\ MonthOf(i) \in Months
  BY NextMonth
<1>2. PICK day \in 1..DaysInMonth(YearOf(i), MonthOf(i)) :
        day = NthWeekday(YearOf(i), MonthOf(i), s.weekday, s.nth)
  <2>1. s.weekday \in 0..6 /\ s.nth \in 1..5
    BY DEF Schedules
  <2> QED BY <1>1, <2>1, SlotInMonth
<1>3. DaysInMonth(YearOf(i), MonthOf(i)) \in 28..31
  BY <1>1, MonthLength
<1>4. PICK clock \in 0..1439 : clock = s.clock
  BY DEF Schedules
<1>5. Slot(i, s) = (FirstDay(i) + day - 1) * MinutesPerDay + clock
  BY <1>2, <1>4 DEF Slot
<1>6. FirstDay(i) \in Int
      /\ FirstDay(i + 1) = FirstDay(i) + DaysInMonth(YearOf(i), MonthOf(i))
  BY MonthFollows
<1>7. PICK first \in Int, length \in 28..31 :
        first = FirstDay(i) /\ length = DaysInMonth(YearOf(i), MonthOf(i))
  BY <1>3, <1>6
<1>8. Slot(i, s) = (first + day - 1) * 1440 + clock
  BY <1>5, <1>7 DEF MinutesPerDay
<1>9. FirstDay(i + 1) = first + length
  BY <1>6, <1>7
<1>10. day \in Int /\ 1 <= day /\ day <= length
  BY <1>3, <1>7
<1>11. /\ (first + day - 1) * 1440 + clock \in Int
       /\ first * 1440 <= (first + day - 1) * 1440 + clock
       /\ (first + day - 1) * 1440 + clock < (first + length) * 1440
  BY <1>10
<1> QED BY <1>7, <1>8, <1>9, <1>11 DEF MinutesPerDay

(* The window opens strictly after the instant it is asked for             *)
(* (next_send_after: never the same instant), and on a monthly schedule    *)
(* never later than the slot of the next month.                            *)
THEOREM StrictlyAfter ==
  ASSUME NEW i \in Nat, YearOf(i) # 0, NEW s \in Schedules,
         NEW t \in Int, InMonth(t, i)
  PROVE  /\ NextSendAfter(t, i, s) \in Int
         /\ NextSendAfter(t, i, s) > t
<1>1. CASE s.monthly
  <2>1. YearOf(i + 1) # 0 /\ i + 1 \in Nat
    BY NextMonth DEF Months
  <2>2. Slot(i, s) \in Int /\ Slot(i + 1, s) \in Int
    BY <2>1, SlotBounds
  <2>3. t < FirstDay(i + 1) * MinutesPerDay
    BY <2>1, MonthFollows DEF InMonth, Day, MinutesPerDay
  <2>4. FirstDay(i + 1) * MinutesPerDay <= Slot(i + 1, s)
    BY <2>1, SlotBounds
  <2>5. FirstDay(i + 1) \in Int
    BY <2>1, MonthFollows
  <2> QED BY <1>1, <2>2, <2>3, <2>4, <2>5 DEF NextSendAfter, MinutesPerDay
<1>2. CASE ~s.monthly
  <2>1. PICK clock \in 0..1439 : clock = s.clock
    BY DEF Schedules
  <2>2. PICK d \in Int : d = t \div 1440 /\ t < (d + 1) * 1440
    OBVIOUS
  <2>3. PICK today \in Int : today = d * 1440 + clock
    OBVIOUS
  <2>4. NextSendAfter(t, i, s) = IF today > t THEN today ELSE today + 1440
    BY <1>2, <2>1, <2>2, <2>3 DEF NextSendAfter, Day, MinutesPerDay
  <2>5. CASE today > t
    BY <2>4, <2>5
  <2>6. CASE today <= t
    <3>1. t < d * 1440 + 1440
      BY <2>2
    <3>2. today + 1440 > t
      BY <2>3, <3>1
    <3> QED BY <2>4, <2>6, <3>2
  <2> QED BY <2>5, <2>6
<1> QED BY <1>1, <1>2

(* No slot is passed over: none of the month before, this one or the next  *)
(* lies between the instant and the window that is returned for it.        *)
THEOREM NoSlotSkipped ==
  ASSUME NEW i \in Nat, YearOf(i) # 0, NEW s \in Schedules, s.monthly,
         NEW t \in Int, InMonth(t, i), NEW j \in {i - 1, i, i + 1}, YearOf(j) # 0,
         j \in Nat
  PROVE  ~(t < Slot(j, s) /\ Slot(j, s) < NextSendAfter(t, i, s))
<1>1. FirstDay(i) * MinutesPerDay <= t
  BY MonthFollows DEF InMonth, Day, MinutesPerDay
<1>2. Slot(i, s) \in Int /\ Slot(j, s) \in Int
  BY SlotBounds
<1>3. CASE j = i - 1
  BY <1>1, <1>2, <1>3, SlotBounds, MonthFollows DEF MinutesPerDay
<1>4. CASE j = i
  BY <1>2, <1>4 DEF NextSendAfter
<1>5. CASE j = i + 1
  <2>1. Slot(i, s) < FirstDay(i + 1) * MinutesPerDay
        /\ FirstDay(i + 1) * MinutesPerDay <= Slot(j, s)
    BY <1>5, SlotBounds
  <2>2. FirstDay(i + 1) \in Int
    BY <1>5, MonthFollows
  <2> QED BY <1>2, <1>5, <2>1, <2>2 DEF NextSendAfter, MinutesPerDay
<1> QED BY <1>3, <1>4, <1>5
=============================================================================
