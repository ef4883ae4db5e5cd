------------------------ MODULE AgentPipelineProofs ------------------------
(***************************************************************************)
(* AgentPipeline for every set of posts and sources and every limit.       *)
(* Types hold for any number of runners.  What the limits promise holds    *)
(* for one runner (the worker schedules its pass with max_instances=1):    *)
(* a second one counts the same headroom and takes the same post.          *)
(***************************************************************************)
EXTENDS AgentPipeline, FiniteSetTheorems, SequenceTheorems, TLAPS

Rows == [key : Keys, status : CampaignStatus, recipients : BOOLEAN]

(* A draft of the post the runner is on exists and is not submitted yet.   *)
Started(r) == pc[r] \in {"linking", "attaching", "submitting"}

DraftIsMine ==
  \A r \in Runners : Started(r) =>
    LET c == campaigns[draft[r]] IN
    /\ c.key = current[r] /\ c.status = "DRAFT"
    /\ pc[r] = "submitting" => c.recipients

(* A runner holds work only between selecting it and taking it, and what   *)
(* it holds is still unfinished.                                           *)
WorkIsPending ==
  \A r \in Runners :
    /\ pc[r] # "counted" => room[r] = 0
    /\ pc[r] \in {"idle", "discovered", "counted"} => work[r] = {}
    /\ work[r] \subseteq Pending
    /\ current[r] \notin work[r]
    /\ Drafting(r) => attempts[current[r]] < MaxAttempts

(* What is before the reviewers has left the queue: nothing marks its row  *)
(* again, so nothing generates it again.                                   *)
SubmittedHasLeft ==
  /\ \A k \in Keys : \A i \in Submitted(k) :
       /\ state[k] = "GENERATED" /\ attempts[k] < MaxAttempts
       /\ campaigns[i].recipients
       /\ \A j \in Submitted(k) : i = j
  /\ \A r \in Runners : Drafting(r) => Submitted(current[r]) = {}

Queued == TypeOK /\ DraftIsMine /\ WorkIsPending /\ SubmittedHasLeft

(* Each generation of a row is paid for: by a recorded failure, by a loss, *)
(* or by the one the row still has or has been submitted with.             *)
Gens(k)  == {i \in 1 .. Len(campaigns) : campaigns[i].key = k}
Holds(k) == Submitted(k) # {} \/ \E r \in Runners : Started(r) /\ current[r] = k

Budget ==
  \A k \in Keys :
    /\ attempts[k] <= MaxAttempts
    /\ Cardinality(Gens(k)) <= attempts[k] + losses + (IF Holds(k) THEN 1 ELSE 0)

(* The row of a post being notified about points at what was submitted.    *)
NotifiedIsLinked ==
  \A r \in Runners : pc[r] = "notifying" => linked[current[r]] \in Submitted(current[r])

(* What the pass may still submit was in the headroom it counted.          *)
Headroom ==
  \A r \in Runners :
    Cardinality(InFlight) + room[r] + Cardinality(work[r])
      + (IF Drafting(r) THEN 1 ELSE 0) <= MaxInFlight

-----------------------------------------------------------------------------
(* The operators the steps are built from.                                 *)
LEMMA SourceStates ==
  /\ SourcesOf("AWAITING_APPROVAL") = {"DRAFT", "READY"}
  /\ SourcesOf("APPROVED") = {"AWAITING_APPROVAL"}
  /\ SourcesOf("REJECTED") = {"AWAITING_APPROVAL"}
  BY DEF SourcesOf, CanTransition, Transitions, CampaignStatus

LEMMA KeysFinite == IsFiniteSet(Keys) /\ NoKey \notin Keys
<1> DEFINE f == [x \in Posts \X Sources |-> [post |-> x[1], source |-> x[2]]]
<1>1. IsFiniteSet(Posts \X Sources)
  BY AgentAssumption, FS_Product
<1>2. f \in Surjection(Posts \X Sources, Keys)
  <2>1. f \in [Posts \X Sources -> Keys]
    BY DEF Keys
  <2>2. ASSUME NEW k \in Keys PROVE \E x \in Posts \X Sources : f[x] = k
    <3>1. <<k.post, k.source>> \in Posts \X Sources /\ k = [post |-> k.post, source |-> k.source]
      BY DEF Keys
    <3>2. f[<<k.post, k.source>>] = [post |-> k.post, source |-> k.source]
      BY <3>1
    <3> QED BY <3>1, <3>2
  <2> QED BY <2>1, <2>2, Zenon DEF Surjection
<1> QED
  BY <1>1, <1>2, FS_Surjection, AgentAssumption

(* Appending a campaign leaves the others as they are.                     *)
LEMMA Appended ==
  ASSUME TypeOK, NEW c \in Rows, campaigns' = Append(campaigns, c)
  PROVE  /\ campaigns' \in Seq(Rows)
         /\ Len(campaigns) \in Nat /\ Len(campaigns') = Len(campaigns) + 1
         /\ campaigns'[Len(campaigns) + 1] = c
         /\ \A i \in 1 .. Len(campaigns) : campaigns'[i] = campaigns[i] /\ campaigns[i] \in Rows
<1>1. campaigns \in Seq(Rows)
  BY DEF TypeOK, Rows
<1> QED
  BY <1>1, AppendProperties, LenProperties, ElementOfSeq

(* Replacing one campaign, or one of its fields, leaves the others too.    *)
LEMMA Replaced ==
  ASSUME TypeOK, NEW i \in 1 .. Len(campaigns), NEW c \in Rows,
         campaigns' = [campaigns EXCEPT ![i] = c]
  PROVE  /\ campaigns' \in Seq(Rows)
         /\ Len(campaigns) \in Nat /\ Len(campaigns') = Len(campaigns)
         /\ \A j \in 1 .. Len(campaigns) : campaigns'[j] = IF j = i THEN c ELSE campaigns[j]
<1>1. campaigns \in Seq(Rows)
  BY DEF TypeOK, Rows
<1>2. Len(campaigns) \in Nat
  BY <1>1, LenProperties
<1> QED
  BY <1>1, <1>2, ExceptSeq

LEMMA Restated ==
  ASSUME TypeOK, NEW i \in 1 .. Len(campaigns), NEW s \in CampaignStatus,
         campaigns' = [campaigns EXCEPT ![i].status = s]
  PROVE  /\ campaigns' \in Seq(Rows)
         /\ Len(campaigns) \in Nat /\ Len(campaigns') = Len(campaigns)
         /\ \A j \in 1 .. Len(campaigns) :
              /\ campaigns'[j].key = campaigns[j].key
              /\ campaigns'[j].recipients = campaigns[j].recipients
              /\ campaigns'[j].status = IF j = i THEN s ELSE campaigns[j].status
<1>1. campaigns[i] \in Rows
  BY ElementOfSeq DEF TypeOK, Rows
<1>2. PICK c \in Rows : /\ c = [campaigns[i] EXCEPT !.status = s]
                        /\ c.key = campaigns[i].key
                        /\ c.recipients = campaigns[i].recipients /\ c.status = s
  BY <1>1 DEF Rows
<1>3. campaigns' = [campaigns EXCEPT ![i] = c]
  BY <1>2
<1>5. \A j \in 1 .. Len(campaigns) : campaigns'[j] = IF j = i THEN c ELSE campaigns[j]
  BY <1>2, <1>3, Replaced
<1>4. ASSUME NEW j \in 1 .. Len(campaigns)
      PROVE  /\ campaigns'[j].key = campaigns[j].key
             /\ campaigns'[j].recipients = campaigns[j].recipients
             /\ campaigns'[j].status = IF j = i THEN s ELSE campaigns[j].status
  <2>1. CASE j = i
    BY <1>2, <1>3, <2>1, Replaced, Zenon
  <2>2. CASE j # i
    <3>1. campaigns'[j] = campaigns[j]
      BY <1>5, <2>2
    <3>2. campaigns'[j].status = IF j = i THEN s ELSE campaigns[j].status
      BY <2>2, <3>1
    <3> QED BY <3>1, <3>2, Zenon
  <2> QED BY <2>1, <2>2, Zenon
<1> QED
  BY <1>2, <1>3, <1>4, Replaced, Zenon

LEMMA Readdressed ==
  ASSUME TypeOK, NEW i \in 1 .. Len(campaigns),
         campaigns' = [campaigns EXCEPT ![i].recipients = TRUE]
  PROVE  /\ campaigns' \in Seq(Rows)
         /\ Len(campaigns) \in Nat /\ Len(campaigns') = Len(campaigns)
         /\ campaigns'[i].recipients
         /\ \A j \in 1 .. Len(campaigns) :
              /\ campaigns'[j].key = campaigns[j].key
              /\ campaigns'[j].status = campaigns[j].status
              /\ campaigns[j].recipients => campaigns'[j].recipients
<1>1. campaigns[i] \in Rows
  BY ElementOfSeq DEF TypeOK, Rows
<1> DEFINE c == [campaigns[i] EXCEPT !.recipients = TRUE]
<1>2. c \in Rows
  BY <1>1 DEF Rows
<1>3. c.key = campaigns[i].key /\ c.status = campaigns[i].status
  BY <1>1 DEF Rows
<1>4. campaigns' = [campaigns EXCEPT ![i] = c]
  BY Zenon
<1>5. c.recipients
  <2>1. DOMAIN campaigns[i] = {"key", "status", "recipients"}
    BY <1>1 DEF Rows
  <2> QED BY <2>1, Zenon
<1> HIDE DEF c
<1>7. \A j \in 1 .. Len(campaigns) : campaigns'[j] = IF j = i THEN c ELSE campaigns[j]
  BY <1>2, <1>4, Replaced
<1>6. ASSUME NEW j \in 1 .. Len(campaigns)
      PROVE  /\ campaigns'[j].key = campaigns[j].key
             /\ campaigns'[j].status = campaigns[j].status
             /\ campaigns[j].recipients => campaigns'[j].recipients
             /\ j = i => campaigns'[j].recipients
  <2>1. CASE j = i
    BY <1>2, <1>3, <1>4, <1>5, <2>1, Replaced, Zenon
  <2>2. CASE j # i
    <3>1. campaigns'[j] = campaigns[j]
      BY <1>7, <2>2
    <3> QED BY <2>2, <3>1, Zenon
  <2> QED BY <2>1, <2>2, Zenon
<1> QED
  BY <1>2, <1>4, <1>6, Replaced, Zenon
-----------------------------------------------------------------------------
(* Types, for any number of runners.                                       *)
LEMMA MarkTyped ==
  ASSUME TypeOK, NEW k \in Keys, NEW s \in PostState, Mark(k, s)
  PROVE  /\ state' \in [Keys -> PostState \cup {"unseen"}]
         /\ attempts' \in [Keys -> Nat]
  BY DEF TypeOK, Mark

LEMMA LenNat == TypeOK => Len(campaigns) \in Nat
  BY LenProperties DEF TypeOK

LEMMA DiscoverTyped ==
  ASSUME TypeOK, NEW r \in Runners, Discover(r)
  PROVE  state' \in [Keys -> PostState \cup {"unseen"}]
  BY DEF TypeOK, Discover, PostState

LEMMA RoomTyped ==
  ASSUME TypeOK, NEW r \in Runners, CountInFlight(r)
  PROVE  room' \in [Runners -> Nat]
<1>1. IsFiniteSet(1 .. Len(campaigns)) /\ InFlight \in SUBSET (1 .. Len(campaigns))
  BY LenNat, FS_Interval DEF InFlight
<1>2. Cardinality(InFlight) \in Nat
  BY <1>1, FS_Subset, FS_CardinalityType
<1>3. CASE Cardinality(InFlight) < MaxInFlight
  <2>1. Least(MaxPostsPerRun, MaxInFlight - Cardinality(InFlight)) \in Nat
    BY <1>2, <1>3, AgentAssumption DEF Least
  <2> QED
    BY <1>3, <2>1 DEF CountInFlight, TypeOK
<1>4. CASE ~(Cardinality(InFlight) < MaxInFlight)
  BY <1>4 DEF CountInFlight, TypeOK
<1> QED
  BY <1>3, <1>4

(* What a runner holds at the stages that work on it.                      *)
LEMMA Held ==
  ASSUME TypeOK, NEW r \in Runners
  PROVE  /\ Drafting(r) \/ pc[r] = "notifying" => current[r] \in Keys
         /\ Started(r) \/ pc[r] = "notifying" => draft[r] \in 1 .. Len(campaigns)
<1>1. Drafting(r) \/ pc[r] = "notifying" => current[r] \in Keys
  BY DEF TypeOK, Drafting, DraftingPC
<1>2. Started(r) \/ pc[r] = "notifying" => draft[r] # 0
  BY DEF TypeOK, Started, DraftingPC
<1>3. draft[r] \in 0 .. Len(campaigns)
  BY DEF TypeOK
<1> QED
  BY <1>1, <1>2, <1>3, LenNat

LEMMA TypeInit == Init => TypeOK
<1> SUFFICES ASSUME Init PROVE TypeOK
  OBVIOUS
<1>1. campaigns \in Seq([key : Keys, status : CampaignStatus, recipients : BOOLEAN]) /\ Len(campaigns) = 0
  BY EmptySeq DEF Init
<1> QED
  BY <1>1 DEF Init, TypeOK, PostState, PassPC, DraftingPC

LEMMA TypeStep == TypeOK /\ [Next]_vars => TypeOK'
<1> SUFFICES ASSUME TypeOK, [Next]_vars PROVE TypeOK'
  OBVIOUS
<1> USE LenNat
<1>1. ASSUME NEW p \in Posts, Publish(p) PROVE TypeOK'
  BY <1>1 DEF Publish, pass, TypeOK
<1>2. ASSUME NEW r \in Runners, PassStep(r) PROVE TypeOK'
  <2>1. CASE Discover(r)
    BY <2>1, DiscoverTyped DEF Discover, Goes, TypeOK, PassPC, DraftingPC
  <2>2. CASE SkipPass(r)
    BY <2>2 DEF SkipPass, Goes, posts, TypeOK, PassPC, DraftingPC
  <2>3. CASE CountInFlight(r)
    BY <2>3, RoomTyped DEF CountInFlight, Goes, posts, TypeOK, PassPC, DraftingPC
  <2>4. CASE Select(r)
    BY <2>4 DEF Select, Pending, Goes, posts, TypeOK, PassPC, DraftingPC
  <2>5. ASSUME NEW k \in work[r], Take(r, k) PROVE TypeOK'
    BY <2>5, KeysFinite DEF Take, Goes, posts, TypeOK, PassPC, DraftingPC
  <2>6. CASE EndRun(r)
    BY <2>6 DEF EndRun, Goes, posts, TypeOK, PassPC, DraftingPC
  <2>7. CASE Extract(r)
    BY <2>7, MarkTyped DEF Extract, Goes, TypeOK, PassPC, DraftingPC, PostState
  <2>8. CASE Generate(r)
    <3>1. [key |-> current[r], status |-> "DRAFT", recipients |-> FALSE] \in Rows
      BY <2>8 DEF Generate, TypeOK, DraftingPC, Rows, CampaignStatus
    <3>2. campaigns' \in Seq(Rows) /\ Len(campaigns') = Len(campaigns) + 1
      BY <2>8, <3>1, Appended DEF Generate
    <3> QED
      BY <2>8, <3>2 DEF Generate, Goes, posts, TypeOK, PassPC, DraftingPC, Rows
  <2>9. CASE MarkGenerated(r)
    BY <2>9, MarkTyped DEF MarkGenerated, Goes, TypeOK, PassPC, DraftingPC, PostState
  <2>10. CASE AttachRecipients(r)
    <3>1. draft[r] \in 1 .. Len(campaigns)
      BY <2>10, Held DEF AttachRecipients, Started
    <3>2. campaigns' \in Seq(Rows) /\ Len(campaigns') = Len(campaigns)
      BY <2>10, <3>1, Readdressed DEF AttachRecipients
    <3> QED
      BY <2>10, <3>2 DEF AttachRecipients, Goes, posts, TypeOK, PassPC, DraftingPC, Rows
  <2>11. CASE Submit(r)
    <3>1. draft[r] \in 1 .. Len(campaigns) /\ "AWAITING_APPROVAL" \in CampaignStatus
      BY <2>11, Held DEF Submit, Started, CampaignStatus
    <3>2. campaigns' \in Seq(Rows) /\ Len(campaigns') = Len(campaigns)
      BY <2>11, <3>1, Restated DEF Submit
    <3> QED
      BY <2>11, <3>2, MarkTyped DEF Submit, Goes, TypeOK, PassPC, DraftingPC, PostState, Rows
  <2>12. CASE Notify(r)
    BY <2>12 DEF Notify, LeavePost, Goes, posts, TypeOK, PassPC, DraftingPC
  <2>13. CASE RecordFailure(r)
    BY <2>13, MarkTyped DEF RecordFailure, Drafting, LeavePost, Goes, TypeOK, PassPC, DraftingPC, PostState
  <2> QED
    BY <1>2, <2>1, <2>2, <2>3, <2>4, <2>5, <2>6, <2>7, <2>8, <2>9, <2>10, <2>11, <2>12, <2>13
       DEF PassStep
<1>3. ASSUME NEW r \in Runners, LoseFailure(r) PROVE TypeOK'
  BY <1>3 DEF LoseFailure, LeavePost, Goes, posts, TypeOK, PassPC, DraftingPC
<1>4. ASSUME NEW r \in Runners, Crash(r) PROVE TypeOK'
  BY <1>4 DEF Crash, Goes, posts, TypeOK, PassPC, DraftingPC
<1>5. ASSUME NEW i \in 1 .. Len(campaigns), Reviewed(i) \/ Dispatch(i) PROVE TypeOK'
  <2>1. PICK s \in CampaignStatus : campaigns' = [campaigns EXCEPT ![i].status = s]
    BY <1>5, Zenon DEF Reviewed, Review, Dispatch, CampaignStatus
  <2>2. campaigns' \in Seq(Rows) /\ Len(campaigns') = Len(campaigns)
    BY <2>1, Restated
  <2> QED
    BY <1>5, <2>2 DEF Reviewed, Review, Dispatch, posts, pass, TypeOK, Rows
<1>6. CASE UNCHANGED vars
  BY <1>6 DEF vars, posts, pass, TypeOK
<1> QED
  BY <1>1, <1>2, <1>3, <1>4, <1>5, <1>6 DEF Next

(* Every variable keeps its type, and a runner holds a row and a draft     *)
(* exactly at the stages that work on them, whoever else runs a pass.      *)
THEOREM TypeCorrect == Spec => []TypeOK
  BY TypeInit, TypeStep, PTL DEF Spec
-----------------------------------------------------------------------------
(* What each step does to the sets of campaigns the invariants speak of.   *)
SameSets ==
  /\ \A k \in Keys : Submitted(k)' = Submitted(k) /\ Gens(k)' = Gens(k)
  /\ InFlight' = InFlight

LEMMA UntouchedSets == UNCHANGED campaigns => SameSets
  BY DEF SameSets, Submitted, Gens, InFlight

LEMMA GeneratedSets ==
  ASSUME TypeOK, NEW r \in Runners, Generate(r)
  PROVE  /\ Len(campaigns') = Len(campaigns) + 1
         /\ \A i \in 1 .. Len(campaigns) : campaigns'[i] = campaigns[i]
         /\ campaigns'[Len(campaigns) + 1].key = current[r]
         /\ campaigns'[Len(campaigns) + 1].status = "DRAFT"
         /\ \A k \in Keys : Submitted(k)' = Submitted(k)
         /\ \A k \in Keys : Gens(k)' = IF k = current[r] THEN Gens(k) \cup {Len(campaigns) + 1} ELSE Gens(k)
         /\ InFlight' = InFlight
<1> DEFINE c == [key |-> current[r], status |-> "DRAFT", recipients |-> FALSE]
           n == Len(campaigns)
<1>1. c \in Rows /\ c.key = current[r] /\ c.status = "DRAFT"
  BY Held DEF Generate, Drafting, DraftingPC, Rows, CampaignStatus
<1>2. /\ n \in Nat /\ Len(campaigns') = n + 1 /\ campaigns'[n + 1] = c
      /\ \A i \in 1 .. n : campaigns'[i] = campaigns[i]
  BY <1>1, Appended DEF Generate
<1>3. 1 .. n + 1 = (1 .. n) \cup {n + 1} /\ n + 1 \notin 1 .. n
  BY <1>2
<1> HIDE DEF c
<1>4. InFlight' = InFlight
  BY <1>1, <1>2, <1>3 DEF InFlight
<1>5. \A k \in Keys : Submitted(k)' = Submitted(k)
  BY <1>1, <1>2, <1>3 DEF Submitted
<1>6. \A k \in Keys : Gens(k)' = IF k = current[r] THEN Gens(k) \cup {n + 1} ELSE Gens(k)
  BY <1>1, <1>2, <1>3 DEF Gens
<1> QED
  BY <1>1, <1>2, <1>4, <1>5, <1>6, Zenon

LEMMA AttachedSets ==
  ASSUME TypeOK, NEW r \in Runners, AttachRecipients(r)
  PROVE  /\ SameSets /\ draft[r] \in 1 .. Len(campaigns) /\ Len(campaigns') = Len(campaigns)
         /\ campaigns'[draft[r]].recipients
         /\ \A j \in 1 .. Len(campaigns) :
              /\ campaigns'[j].key = campaigns[j].key
              /\ campaigns'[j].status = campaigns[j].status
              /\ campaigns[j].recipients => campaigns'[j].recipients
<1>1. draft[r] \in 1 .. Len(campaigns)
  BY Held DEF AttachRecipients, Started
<1>2. /\ Len(campaigns') = Len(campaigns) /\ campaigns'[draft[r]].recipients
      /\ \A j \in 1 .. Len(campaigns) :
           /\ campaigns'[j].key = campaigns[j].key
           /\ campaigns'[j].status = campaigns[j].status
           /\ campaigns[j].recipients => campaigns'[j].recipients
  BY <1>1, Readdressed, Zenon DEF AttachRecipients
<1>3. SameSets
  BY <1>2 DEF SameSets, Submitted, Gens, InFlight
<1> QED
  BY <1>1, <1>2, <1>3

LEMMA SubmittedSets ==
  ASSUME TypeOK, NEW r \in Runners, Submit(r), DraftIsMine
  PROVE  /\ draft[r] \in 1 .. Len(campaigns) /\ Len(campaigns') = Len(campaigns)
         /\ draft[r] \notin InFlight /\ draft[r] \notin Submitted(current[r])
         /\ campaigns[draft[r]].recipients
         /\ \A j \in 1 .. Len(campaigns) :
              campaigns'[j].key = campaigns[j].key /\ campaigns'[j].recipients = campaigns[j].recipients
         /\ \A k \in Keys : Submitted(k)' =
              IF k = current[r] THEN Submitted(k) \cup {draft[r]} ELSE Submitted(k)
         /\ \A k \in Keys : Gens(k)' = Gens(k)
         /\ InFlight' = InFlight \cup {draft[r]}
<1> DEFINE d == draft[r]
<1>1. d \in 1 .. Len(campaigns) /\ "AWAITING_APPROVAL" \in CampaignStatus
  BY Held DEF Submit, Started, CampaignStatus
<1>2. campaigns[d].key = current[r] /\ campaigns[d].status = "DRAFT" /\ campaigns[d].recipients
  BY Zenon DEF Submit, DraftIsMine, Started
<1>3. /\ Len(campaigns') = Len(campaigns)
      /\ \A j \in 1 .. Len(campaigns) :
           /\ campaigns'[j].key = campaigns[j].key
           /\ campaigns'[j].recipients = campaigns[j].recipients
           /\ campaigns'[j].status = IF j = d THEN "AWAITING_APPROVAL" ELSE campaigns[j].status
  BY <1>1, Restated, Zenon DEF Submit
<1>4. d \notin InFlight /\ d \notin Submitted(current[r])
  BY <1>2 DEF InFlight, Submitted
<1>5. \A k \in Keys : Submitted(k)' = IF k = current[r] THEN Submitted(k) \cup {d} ELSE Submitted(k)
  BY <1>1, <1>2, <1>3 DEF Submitted
<1>6. (\A k \in Keys : Gens(k)' = Gens(k)) /\ InFlight' = InFlight \cup {d}
  BY <1>1, <1>2, <1>3 DEF Gens, InFlight
<1> QED
  BY <1>1, <1>2, <1>3, <1>4, <1>5, <1>6, Zenon

LEMMA ReviewedSets ==
  ASSUME TypeOK, NEW i \in 1 .. Len(campaigns), Reviewed(i) \/ Dispatch(i)
  PROVE  /\ Len(campaigns') = Len(campaigns) /\ campaigns[i].status # "DRAFT"
         /\ \A j \in 1 .. Len(campaigns) :
              /\ campaigns'[j].key = campaigns[j].key
              /\ campaigns'[j].recipients = campaigns[j].recipients
              /\ j # i => campaigns'[j].status = campaigns[j].status
         /\ \A k \in Keys : Submitted(k)' = Submitted(k) /\ Gens(k)' = Gens(k)
         /\ InFlight' \subseteq InFlight
<1>1. PICK s \in CampaignStatus :
        /\ campaigns' = [campaigns EXCEPT ![i].status = s] /\ s # "DRAFT"
        /\ campaigns[i].status \in {"AWAITING_APPROVAL", "APPROVED"}
  BY SourceStates DEF Reviewed, Review, Dispatch, CampaignStatus
<1>2. /\ Len(campaigns') = Len(campaigns)
      /\ \A j \in 1 .. Len(campaigns) :
           /\ campaigns'[j].key = campaigns[j].key
           /\ campaigns'[j].recipients = campaigns[j].recipients
           /\ campaigns'[j].status = IF j = i THEN s ELSE campaigns[j].status
  BY <1>1, Restated, Zenon
<1>3. (\A k \in Keys : Submitted(k)' = Submitted(k) /\ Gens(k)' = Gens(k)) /\ InFlight' \subseteq InFlight
  BY <1>1, <1>2 DEF Submitted, Gens, InFlight
<1>4. ASSUME NEW j \in 1 .. Len(campaigns), j # i PROVE campaigns'[j].status = campaigns[j].status
  BY <1>2, <1>4
<1> QED
  BY <1>1, <1>2, <1>3, <1>4, Zenon
-----------------------------------------------------------------------------
(* One runner: a row is taken up once at a time, and never again after it  *)
(* was submitted.                                                          *)
OneRunner == \E r : Runners = {r}

LEMMA QueuedInit == Init => Queued
<1> SUFFICES ASSUME Init PROVE Queued
  OBVIOUS
<1>1. TypeOK
  BY TypeInit
<1>2. \A k \in Keys : Submitted(k) = {}
  BY DEF Init, Submitted
<1>3. DraftIsMine /\ WorkIsPending /\ SubmittedHasLeft
  BY <1>2, KeysFinite DEF Init, DraftIsMine, WorkIsPending, SubmittedHasLeft, Started, Drafting, DraftingPC
<1> QED
  BY <1>1, <1>3 DEF Queued

LEMMA DraftStep ==
  ASSUME OneRunner, Queued, Next
  PROVE  DraftIsMine'
<1>1. PICK r : Runners = {r}
  BY DEF OneRunner
<1>2. SUFFICES ASSUME Started(r)'
               PROVE  /\ campaigns'[draft'[r]].key = current'[r] /\ campaigns'[draft'[r]].status = "DRAFT"
                      /\ pc'[r] = "submitting" => campaigns'[draft'[r]].recipients
  BY <1>1, Zenon DEF DraftIsMine
<1> USE DEF Queued
<1>3. TypeOK /\ r \in Runners /\ pc'[r] \in {"linking", "attaching", "submitting"}
  BY <1>1, <1>2 DEF Started
<1>4. Started(r) => /\ campaigns[draft[r]].key = current[r] /\ campaigns[draft[r]].status = "DRAFT"
                    /\ pc[r] = "submitting" => campaigns[draft[r]].recipients
  BY <1>3, Zenon DEF DraftIsMine
<1>5. ASSUME NEW p \in Posts, Publish(p) PROVE UNCHANGED <<campaigns, draft, current, pc>>
  BY <1>5 DEF Publish, pass
<1>6. CASE UNCHANGED <<campaigns, draft, current, pc>>
  BY <1>2, <1>4, <1>6, Zenon DEF Started
<1>7. CASE Generate(r)
  <2>1. draft'[r] = Len(campaigns) + 1 /\ pc'[r] = "linking" /\ current' = current
    BY <1>3, <1>7 DEF Generate, Goes, TypeOK
  <2>2. campaigns'[Len(campaigns) + 1].key = current[r] /\ campaigns'[Len(campaigns) + 1].status = "DRAFT"
    BY <1>3, <1>7, GeneratedSets
  <2> QED BY <2>1, <2>2, Zenon
<1>8. CASE MarkGenerated(r)
  <2>1. UNCHANGED <<campaigns, draft, current>> /\ pc'[r] = "attaching" /\ Started(r)
    BY <1>3, <1>8 DEF MarkGenerated, Goes, TypeOK, Started
  <2> QED BY <1>4, <2>1, Zenon
<1>9. CASE AttachRecipients(r)
  <2>1. UNCHANGED <<draft, current>> /\ Started(r)
    BY <1>9 DEF AttachRecipients, Started
  <2> QED BY <1>3, <1>4, <1>9, <2>1, AttachedSets, Zenon
<1>10. ASSUME NEW i \in 1 .. Len(campaigns), Reviewed(i) \/ Dispatch(i)
       PROVE  /\ campaigns'[draft'[r]].key = current'[r] /\ campaigns'[draft'[r]].status = "DRAFT"
              /\ pc'[r] = "submitting" => campaigns'[draft'[r]].recipients
  <2>1. UNCHANGED <<pc, draft, current>>
    BY <1>10 DEF Reviewed, Review, Dispatch, pass
  <2>2. Started(r) /\ draft[r] \in 1 .. Len(campaigns)
    BY <1>2, <1>3, <2>1, Held DEF Started
  <2>3. draft[r] # i
    BY <1>3, <1>4, <1>10, <2>2, ReviewedSets
  <2>4. /\ campaigns'[draft[r]].key = campaigns[draft[r]].key
        /\ campaigns'[draft[r]].status = campaigns[draft[r]].status
        /\ campaigns'[draft[r]].recipients = campaigns[draft[r]].recipients
    BY <1>3, <1>10, <2>2, <2>3, ReviewedSets, Zenon
  <2> QED BY <1>4, <2>1, <2>2, <2>4, Zenon
<1>11. ASSUME NEW q \in Runners, PassStep(q) \/ LoseFailure(q) \/ Crash(q),
              ~Generate(q), ~MarkGenerated(q), ~AttachRecipients(q)
       PROVE  FALSE
  <2>1. q = r /\ pc \in [Runners -> PassPC]
    BY <1>1, <1>3 DEF TypeOK
  <2> QED
    BY <1>3, <1>11, <2>1
       DEF PassStep, Discover, SkipPass, CountInFlight, Select, Take, EndRun, Extract, Submit, Notify,
           RecordFailure, LoseFailure, Crash, LeavePost, Goes
<1> QED
  BY <1>1, <1>5, <1>6, <1>7, <1>8, <1>9, <1>10, <1>11, Zenon DEF Next, PassStep

LEMMA WorkStep ==
  ASSUME OneRunner, Queued, Next
  PROVE  WorkIsPending'
<1>1. PICK r : Runners = {r}
  BY DEF OneRunner
<1> USE DEF Queued
<1>2. /\ TypeOK /\ r \in Runners /\ NoKey \notin Keys
      /\ pc[r] # "counted" => room[r] = 0
      /\ pc[r] \in {"idle", "discovered", "counted"} => work[r] = {}
      /\ work[r] \subseteq Pending /\ current[r] \notin work[r]
      /\ Drafting(r) => attempts[current[r]] < MaxAttempts
  BY <1>1, KeysFinite DEF WorkIsPending
<1>3. SUFFICES /\ pc'[r] # "counted" => room'[r] = 0
               /\ pc'[r] \in {"idle", "discovered", "counted"} => work'[r] = {}
               /\ work'[r] \subseteq Pending' /\ current'[r] \notin work'[r]
               /\ Drafting(r)' => attempts'[current'[r]] < MaxAttempts
  BY <1>1 DEF WorkIsPending
<1> USE DEF Drafting
<1>4. CASE UNCHANGED <<pc, room, work, current, state, attempts>>
  BY <1>2, <1>4 DEF Pending
<1>5. CASE Discover(r)
  BY <1>2, <1>5 DEF Discover, Goes, TypeOK, DraftingPC
<1>6. CASE SkipPass(r) \/ CountInFlight(r) \/ EndRun(r)
  BY <1>2, <1>6 DEF SkipPass, CountInFlight, EndRun, Goes, posts, TypeOK, DraftingPC, Pending
<1>7. CASE Select(r)
  <2>1. work'[r] \subseteq Pending /\ pc'[r] = "choosing" /\ room'[r] = 0 /\ current' = current
    BY <1>2, <1>7 DEF Select, Goes, TypeOK
  <2>2. current[r] = NoKey /\ Pending' = Pending /\ NoKey \notin Pending
    BY <1>2, <1>7 DEF Select, posts, TypeOK, DraftingPC, Pending
  <2> QED BY <2>1, <2>2 DEF DraftingPC
<1>8. ASSUME NEW k \in work[r], Take(r, k)
      PROVE  /\ pc'[r] # "counted" => room'[r] = 0
             /\ pc'[r] \in {"idle", "discovered", "counted"} => work'[r] = {}
             /\ work'[r] \subseteq Pending' /\ current'[r] \notin work'[r]
             /\ Drafting(r)' => attempts'[current'[r]] < MaxAttempts
  BY <1>2, <1>8 DEF Take, Goes, posts, TypeOK, DraftingPC, Pending
<1>9. CASE Extract(r) \/ MarkGenerated(r) \/ Submit(r)
  <2>1. PICK s \in PostState : s # "FAILED" /\ Mark(current[r], s)
    BY <1>9 DEF Extract, MarkGenerated, Submit, PostState
  <2>2. /\ UNCHANGED <<room, work, current>> /\ Drafting(r)
        /\ pc'[r] \in {"generating", "attaching", "notifying"}
    BY <1>2, <1>9 DEF Extract, MarkGenerated, Submit, Goes, TypeOK, DraftingPC
  <2>3. /\ attempts' = attempts /\ current[r] \in Keys
        /\ \A k \in Keys : k # current[r] => state'[k] = state[k]
    BY <1>2, <2>1, <2>2, Held DEF Mark, TypeOK
  <2>4. work[r] \subseteq Pending'
    BY <1>2, <2>3 DEF Pending
  <2> QED BY <1>2, <2>2, <2>3, <2>4 DEF DraftingPC
<1>10. CASE Generate(r) \/ AttachRecipients(r) \/ Notify(r) \/ LoseFailure(r)
  BY <1>2, <1>10
     DEF Generate, AttachRecipients, Notify, LoseFailure, LeavePost, Goes, posts, TypeOK, DraftingPC, Pending
<1>11. CASE RecordFailure(r)
  <2>1. /\ UNCHANGED <<room, work>> /\ pc'[r] = "choosing" /\ current'[r] = NoKey
        /\ pc[r] \in DraftingPC /\ Mark(current[r], "FAILED")
    BY <1>2, <1>11 DEF RecordFailure, LeavePost, Goes, TypeOK
  <2>2. \A k \in Keys : k # current[r] => state'[k] = state[k] /\ attempts'[k] = attempts[k]
    BY <1>2, <2>1 DEF Mark, TypeOK
  <2>3. work[r] \subseteq Pending' /\ NoKey \notin work[r]
    BY <1>2, <2>2 DEF Pending
  <2> QED BY <1>2, <2>1, <2>3 DEF DraftingPC
<1>12. CASE Crash(r)
  BY <1>2, <1>12 DEF Crash, Goes, TypeOK, DraftingPC
<1>13. ASSUME NEW p \in Posts, Publish(p) PROVE UNCHANGED <<pc, room, work, current, state, attempts>>
  BY <1>13 DEF Publish, pass
<1>14. ASSUME NEW i \in 1 .. Len(campaigns), Reviewed(i) \/ Dispatch(i)
       PROVE  UNCHANGED <<pc, room, work, current, state, attempts>>
  BY <1>14 DEF Reviewed, Review, Dispatch, pass, posts
<1> QED
  BY <1>1, <1>4, <1>5, <1>6, <1>7, <1>8, <1>9, <1>10, <1>11, <1>12, <1>13, <1>14, Zenon
     DEF Next, PassStep
(* A step that marks the current row leaves every other row as it was.     *)
LEMMA Marks ==
  ASSUME TypeOK, NEW r \in Runners,
         Extract(r) \/ MarkGenerated(r) \/ Submit(r) \/ RecordFailure(r)
  PROVE  /\ Drafting(r) /\ current[r] \in Keys
         /\ \A k \in Keys : k # current[r] => state'[k] = state[k] /\ attempts'[k] = attempts[k]
         /\ Extract(r) \/ MarkGenerated(r) \/ Submit(r) => attempts' = attempts
         /\ RecordFailure(r) => attempts'[current[r]] = attempts[current[r]] + 1
         /\ MarkGenerated(r) \/ Submit(r) => state'[current[r]] = "GENERATED"
<1>1. Drafting(r)
  BY DEF Extract, MarkGenerated, Submit, RecordFailure, Drafting, DraftingPC
<1>2. current[r] \in Keys
  BY <1>1, Held
<1>3. CASE RecordFailure(r)
  <2>1. Mark(current[r], "FAILED") /\ pc'[r] = "choosing"
    BY <1>3 DEF RecordFailure, LeavePost, Goes, TypeOK
  <2>2. ~Extract(r) /\ ~MarkGenerated(r) /\ ~Submit(r)
    BY <2>1 DEF Extract, MarkGenerated, Submit, Goes, TypeOK
  <2> QED BY <1>1, <1>2, <2>1, <2>2 DEF Mark, TypeOK
<1>4. CASE ~RecordFailure(r)
  <2>1. PICK s \in {"EXTRACTED", "GENERATED"} :
          Mark(current[r], s) /\ (MarkGenerated(r) \/ Submit(r) => s = "GENERATED")
    <3>1. CASE MarkGenerated(r) \/ Submit(r)
      BY <3>1 DEF MarkGenerated, Submit
    <3>2. CASE ~(MarkGenerated(r) \/ Submit(r))
      BY <1>4, <3>2 DEF Extract
    <3> QED BY <3>1, <3>2
  <2> QED BY <1>1, <1>2, <1>4, <2>1 DEF Mark, TypeOK
<1> QED
  BY <1>3, <1>4

LEMMA LeftStep ==
  ASSUME OneRunner, Queued, Next
  PROVE  SubmittedHasLeft'
<1>1. PICK r : Runners = {r}
  BY DEF OneRunner
<1> USE DEF Queued
<1>2. TypeOK /\ r \in Runners /\ NoKey \notin Keys
  BY <1>1, KeysFinite
<1>3. Drafting(r) => current[r] \in Keys /\ Submitted(current[r]) = {} /\ attempts[current[r]] < MaxAttempts
  BY <1>2, Held DEF SubmittedHasLeft, WorkIsPending
<1> DEFINE Left(k) == \A i \in Submitted(k) :
                        /\ state[k] = "GENERATED" /\ attempts[k] < MaxAttempts
                        /\ campaigns[i].recipients
                        /\ \A j \in Submitted(k) : i = j
<1>4. \A k \in Keys : Left(k)
  BY Zenon DEF SubmittedHasLeft
<1>5. SUFFICES (\A k \in Keys : Left(k)') /\ (Drafting(r)' => Submitted(current[r])' = {})
  BY <1>1, Zenon DEF SubmittedHasLeft
<1> HIDE DEF Queued
<1>6. CASE UNCHANGED <<campaigns, state, attempts, pc, current>>
  <2>1. \A k : Submitted(k)' = Submitted(k)
    BY <1>6 DEF Submitted
  <2> QED BY <1>3, <1>4, <1>6, <2>1, Zenon DEF Drafting
<1>7. CASE Discover(r) \/ SkipPass(r) \/ CountInFlight(r) \/ Select(r) \/ EndRun(r)
           \/ Notify(r) \/ LoseFailure(r) \/ Crash(r)
  <2>1. UNCHANGED <<campaigns, attempts>> /\ ~Drafting(r)'
    BY <1>2, <1>7 DEF Discover, SkipPass, CountInFlight, Select, EndRun, Notify, LoseFailure, Crash,
                      LeavePost, Goes, posts, TypeOK, Drafting, DraftingPC
  <2>2. \A k \in Keys : state[k] = "GENERATED" => state'[k] = "GENERATED"
    BY <1>2, <1>7 DEF Discover, SkipPass, CountInFlight, Select, EndRun, Notify, LoseFailure, Crash,
                      posts, TypeOK
  <2>3. \A k : Submitted(k)' = Submitted(k)
    BY <2>1 DEF Submitted
  <2> QED BY <1>4, <2>1, <2>2, <2>3, Zenon
<1>8. ASSUME NEW k \in work[r], Take(r, k)
      PROVE  (\A j \in Keys : Left(j)') /\ (Drafting(r)' => Submitted(current[r])' = {})
  <2>1. UNCHANGED <<campaigns, attempts, state>> /\ current'[r] = k
    BY <1>2, <1>8 DEF Take, posts, TypeOK
  <2>2. k \in Keys /\ state[k] \in RetryableStates
    BY <1>1, <1>8 DEF Queued, WorkIsPending, Pending
  <2>3. Submitted(k) = {}
    BY <1>4, <2>2 DEF RetryableStates
  <2>4. \A j : Submitted(j)' = Submitted(j)
    BY <2>1 DEF Submitted
  <2> QED BY <1>4, <2>1, <2>3, <2>4, Zenon
<1>9. CASE Extract(r) \/ MarkGenerated(r)
  <2>1. UNCHANGED <<campaigns, current, attempts>> /\ Drafting(r)
    BY <1>2, <1>9, Marks DEF Extract, MarkGenerated
  <2>2. \A j : Submitted(j)' = Submitted(j)
    BY <2>1 DEF Submitted
  <2>3. \A k \in Keys : k # current[r] => state'[k] = state[k]
    BY <1>2, <1>9, Marks
  <2>4. ASSUME NEW k \in Keys PROVE Left(k)'
    <3>1. CASE k = current[r]
      BY <1>3, <2>1, <2>2, <3>1, Zenon
    <3>2. CASE k # current[r]
      BY <1>4, <2>1, <2>2, <2>3, <3>2, Zenon
    <3> QED BY <3>1, <3>2
  <2> QED BY <1>3, <2>1, <2>2, <2>4, Zenon
<1>10. CASE RecordFailure(r)
  <2>1. UNCHANGED campaigns /\ ~Drafting(r)' /\ Drafting(r)
    BY <1>2, <1>10 DEF RecordFailure, LeavePost, Goes, TypeOK, Drafting, DraftingPC
  <2>2. \A j : Submitted(j)' = Submitted(j)
    BY <2>1 DEF Submitted
  <2>3. \A k \in Keys : k # current[r] => state'[k] = state[k] /\ attempts'[k] = attempts[k]
    BY <1>2, <1>10, Marks
  <2>4. ASSUME NEW k \in Keys PROVE Left(k)'
    <3>1. CASE k = current[r]
      BY <1>3, <2>1, <2>2, <3>1, Zenon
    <3>2. CASE k # current[r]
      BY <1>4, <2>1, <2>2, <2>3, <3>2, Zenon
    <3> QED BY <3>1, <3>2
  <2> QED BY <2>1, <2>4
<1>11. CASE Generate(r)
  <2>1. UNCHANGED <<state, attempts, current>> /\ Drafting(r)
    BY <1>11 DEF Generate, posts, Drafting, DraftingPC
  <2>2. \A k \in Keys : Submitted(k)' = Submitted(k)
    BY <1>2, <1>11, GeneratedSets
  <2>3. \A k : \A i \in Submitted(k) : campaigns'[i] = campaigns[i]
    BY <1>2, <1>11, GeneratedSets DEF Submitted
  <2>4. ASSUME NEW k \in Keys PROVE Left(k)'
    <3>1. Left(k) /\ Submitted(k)' = Submitted(k)
      BY <1>4, <2>2
    <3>2. ASSUME NEW i \in Submitted(k) PROVE campaigns'[i].recipients
      BY <2>3, <3>1, Zenon
    <3> QED BY <2>1, <3>1, <3>2, Zenon
  <2> QED BY <1>3, <2>1, <2>2, <2>4, Zenon
<1>12. CASE AttachRecipients(r)
  <2>1. UNCHANGED <<state, attempts, current>> /\ Drafting(r)
    BY <1>12 DEF AttachRecipients, posts, Drafting, DraftingPC
  <2>2. \A k \in Keys : Submitted(k)' = Submitted(k)
    BY <1>2, <1>12, AttachedSets DEF SameSets
  <2>3. \A k : \A i \in Submitted(k) : campaigns[i].recipients => campaigns'[i].recipients
    BY <1>2, <1>12, AttachedSets, Zenon DEF Submitted
  <2>4. ASSUME NEW k \in Keys PROVE Left(k)'
    <3>1. Left(k) /\ Submitted(k)' = Submitted(k)
      BY <1>4, <2>2
    <3>2. ASSUME NEW i \in Submitted(k) PROVE campaigns'[i].recipients
      BY <2>3, <3>1, Zenon
    <3> QED BY <2>1, <3>1, <3>2, Zenon
  <2> QED BY <1>3, <2>1, <2>2, <2>4, Zenon
<1>13. CASE Submit(r)
  <2>1. UNCHANGED current /\ ~Drafting(r)' /\ Drafting(r)
    BY <1>2, <1>13 DEF Submit, Goes, TypeOK, Drafting, DraftingPC
  <2>2. /\ draft[r] \in 1 .. Len(campaigns) /\ campaigns[draft[r]].recipients
        /\ \A j \in 1 .. Len(campaigns) : campaigns'[j].recipients = campaigns[j].recipients
    BY <1>2, <1>13, SubmittedSets, Zenon DEF Queued
  <2>3. \A k \in Keys : Submitted(k)' =
          IF k = current[r] THEN Submitted(k) \cup {draft[r]} ELSE Submitted(k)
    BY <1>2, <1>13, SubmittedSets DEF Queued
  <2>4. /\ attempts' = attempts /\ state'[current[r]] = "GENERATED"
        /\ \A k \in Keys : k # current[r] => state'[k] = state[k]
    BY <1>2, <1>13, Marks
  <2>5. ASSUME NEW k \in Keys PROVE Left(k)'
    <3>1. CASE k = current[r]
      <4>1. Submitted(k)' = {draft[r]}
        BY <1>3, <2>1, <2>3, <3>1
      <4> QED BY <1>3, <2>1, <2>2, <2>4, <3>1, <4>1, Zenon
    <3>2. CASE k # current[r]
      <4>1. Submitted(k)' = Submitted(k)
        BY <2>3, <3>2
      <4>2. \A i \in Submitted(k) : campaigns'[i].recipients = campaigns[i].recipients
        BY <2>2, Zenon DEF Submitted
      <4> QED BY <1>4, <2>4, <3>2, <4>1, <4>2, Zenon
    <3> QED BY <3>1, <3>2
  <2> QED BY <2>1, <2>5
<1>14. ASSUME NEW p \in Posts, Publish(p) PROVE UNCHANGED <<campaigns, state, attempts, pc, current>>
  BY <1>14 DEF Publish, pass
<1>15. ASSUME NEW i \in 1 .. Len(campaigns), Reviewed(i) \/ Dispatch(i)
       PROVE  (\A k \in Keys : Left(k)') /\ (Drafting(r)' => Submitted(current[r])' = {})
  <2>1. UNCHANGED <<state, attempts, current, pc>>
    BY <1>15 DEF Reviewed, Review, Dispatch, pass, posts
  <2>2. \A k \in Keys : Submitted(k)' = Submitted(k)
    BY <1>2, <1>15, ReviewedSets
  <2>3. \A k : \A j \in Submitted(k) : campaigns'[j].recipients = campaigns[j].recipients
    BY <1>2, <1>15, ReviewedSets, Zenon DEF Submitted
  <2>4. ASSUME NEW k \in Keys PROVE Left(k)'
    <3>1. Left(k) /\ Submitted(k)' = Submitted(k)
      BY <1>4, <2>2
    <3>2. ASSUME NEW j \in Submitted(k) PROVE campaigns'[j].recipients
      BY <2>3, <3>1, Zenon
    <3> QED BY <2>1, <3>1, <3>2, Zenon
  <2> QED BY <1>3, <2>1, <2>2, <2>4, Zenon DEF Drafting
<1> QED
  BY <1>1, <1>6, <1>7, <1>8, <1>9, <1>10, <1>11, <1>12, <1>13, <1>14, <1>15, Zenon
     DEF Next, PassStep
LEMMA QueuedStep == OneRunner /\ Queued /\ [Next]_vars => Queued'
<1> SUFFICES ASSUME OneRunner, Queued, [Next]_vars PROVE Queued'
  OBVIOUS
<1>1. TypeOK'
  BY TypeStep DEF Queued
<1>2. CASE Next
  BY <1>1, <1>2, DraftStep, WorkStep, LeftStep DEF Queued
<1>3. CASE UNCHANGED vars
  <2>1. UNCHANGED <<state, attempts, campaigns, pc, room, work, current, draft>>
    BY <1>3 DEF vars, posts, pass
  <2>2. DraftIsMine' = DraftIsMine
    BY <2>1, Zenon DEF DraftIsMine, Started
  <2>3. WorkIsPending' = WorkIsPending
    BY <2>1, Zenon DEF WorkIsPending, Pending, Drafting
  <2>4. SubmittedHasLeft' = SubmittedHasLeft
    <3>1. \A k : Submitted(k)' = Submitted(k)
      BY <2>1 DEF Submitted
    <3> QED BY <2>1, <3>1, Zenon DEF SubmittedHasLeft, Drafting
  <2> QED BY <1>1, <2>2, <2>3, <2>4 DEF Queued
<1> QED
  BY <1>2, <1>3

LEMMA OnceFollows == Queued => SubmittedOncePerRow
<1> SUFFICES ASSUME Queued, NEW k \in Keys
             PROVE  Cardinality(Submitted(k)) <= 1 /\ \A i \in Submitted(k) : campaigns[i].recipients
  BY DEF SubmittedOncePerRow
<1>1. \A i \in Submitted(k) : campaigns[i].recipients /\ \A j \in Submitted(k) : i = j
  BY Zenon DEF Queued, SubmittedHasLeft
<1>2. Submitted(k) = {} \/ \E i : Submitted(k) = {i}
  BY <1>1
<1>3. Cardinality(Submitted(k)) \in {0, 1}
  BY <1>2, FS_EmptySet, FS_Singleton
<1> QED
  BY <1>1, <1>3

(* One row is put before the reviewers once, and with a recipient list,    *)
(* however often its earlier attempts failed or the process died.          *)
THEOREM RowSubmittedOnce ==
  ASSUME OneRunner
  PROVE  Spec => []SubmittedOncePerRow
<1>1. Queued /\ [Next]_vars => Queued'
  BY QueuedStep
<1> QED
  BY <1>1, QueuedInit, OnceFollows, PTL DEF Spec

-----------------------------------------------------------------------------
(* The attempt budget.                                                     *)
LEMMA GensFinite ==
  ASSUME TypeOK, NEW k \in Keys
  PROVE  /\ IsFiniteSet(Gens(k)) /\ Cardinality(Gens(k)) \in Nat
         /\ Len(campaigns) + 1 \notin Gens(k)
<1>1. IsFiniteSet(1 .. Len(campaigns)) /\ Len(campaigns) \in Nat
  BY LenNat, FS_Interval
<1>2. Gens(k) \in SUBSET (1 .. Len(campaigns))
  BY DEF Gens
<1> QED
  BY <1>1, <1>2, FS_Subset, FS_CardinalityType

LEMMA BudgetInit == Init => Budget
<1> SUFFICES ASSUME Init, NEW k \in Keys
             PROVE  attempts[k] <= MaxAttempts /\ Cardinality(Gens(k)) <= attempts[k] + losses
                                                    + (IF Holds(k) THEN 1 ELSE 0)
  BY DEF Budget
<1>1. Gens(k) = {} /\ attempts[k] = 0 /\ losses = 0
  BY DEF Init, Gens
<1> QED
  BY <1>1, FS_EmptySet, AgentAssumption

(* A step that spends nothing.                                             *)
LEMMA BudgetKept ==
  ASSUME TypeOK, Budget, UNCHANGED <<attempts, losses>>,
         NEW k \in Keys, Gens(k)' = Gens(k), Holds(k) => Holds(k)'
  PROVE  /\ attempts'[k] <= MaxAttempts
         /\ Cardinality(Gens(k)') <= attempts'[k] + losses' + (IF Holds(k)' THEN 1 ELSE 0)
<1>1. /\ Cardinality(Gens(k)) \in Nat /\ attempts[k] \in Nat /\ losses \in Nat
      /\ attempts[k] <= MaxAttempts
      /\ Cardinality(Gens(k)) <= attempts[k] + losses + (IF Holds(k) THEN 1 ELSE 0)
  BY GensFinite DEF TypeOK, Budget
<1> QED
  BY <1>1

LEMMA BudgetStep == OneRunner /\ Queued /\ Budget /\ [Next]_vars => Budget'
<1> SUFFICES ASSUME OneRunner, Queued, Budget, [Next]_vars, NEW k \in Keys
             PROVE  /\ attempts'[k] <= MaxAttempts
                    /\ Cardinality(Gens(k)') <= attempts'[k] + losses' + (IF Holds(k)' THEN 1 ELSE 0)
  BY DEF Budget
<1>1. PICK r : Runners = {r}
  BY DEF OneRunner
<1>2. TypeOK /\ r \in Runners
  BY <1>1 DEF Queued
<1>3. Holds(k) <=> Submitted(k) # {} \/ (Started(r) /\ current[r] = k)
  BY <1>1 DEF Holds
<1>4. Holds(k)' <=> Submitted(k)' # {} \/ (Started(r)' /\ current'[r] = k)
  BY <1>1 DEF Holds
<1>5. /\ Cardinality(Gens(k)) \in Nat /\ attempts[k] \in Nat /\ losses \in Nat
      /\ attempts[k] <= MaxAttempts /\ MaxAttempts \in Nat
      /\ Cardinality(Gens(k)) <= attempts[k] + losses + (IF Holds(k) THEN 1 ELSE 0)
  BY <1>2, GensFinite, AgentAssumption DEF TypeOK, Budget
<1>6. Drafting(r) => Submitted(current[r]) = {} /\ attempts[current[r]] < MaxAttempts
  BY <1>2 DEF Queued, SubmittedHasLeft, WorkIsPending
<1>7. CASE UNCHANGED <<campaigns, attempts, losses, pc, current>>
  <2>1. Gens(k)' = Gens(k) /\ Submitted(k)' = Submitted(k)
    BY <1>7 DEF Gens, Submitted
  <2>2. Holds(k) => Holds(k)'
    BY <1>3, <1>4, <1>7, <2>1 DEF Started
  <2> QED BY <1>2, <1>7, <2>1, <2>2, BudgetKept
<1>8. CASE Discover(r) \/ SkipPass(r) \/ CountInFlight(r) \/ Select(r) \/ EndRun(r)
           \/ (\E j \in work[r] : Take(r, j)) \/ Extract(r) \/ MarkGenerated(r) \/ Notify(r)
  <2>1. UNCHANGED <<campaigns, losses>>
    BY <1>8 DEF Discover, SkipPass, CountInFlight, Select, EndRun, Take, Extract, MarkGenerated, Notify, posts
  <2>2. UNCHANGED attempts
    <3>1. CASE Extract(r) \/ MarkGenerated(r)
      BY <1>2, <3>1, Marks
    <3> QED
      BY <1>8, <3>1 DEF Discover, SkipPass, CountInFlight, Select, EndRun, Take, Notify, posts
  <2>3. Started(r) => Started(r)' /\ current'[r] = current[r]
    BY <1>2, <1>8
       DEF Discover, SkipPass, CountInFlight, Select, EndRun, Take, Extract, MarkGenerated, Notify,
           Goes, Started, TypeOK
  <2>4. Gens(k)' = Gens(k) /\ Submitted(k)' = Submitted(k)
    BY <2>1 DEF Gens, Submitted
  <2>5. Holds(k) => Holds(k)'
    BY <1>3, <1>4, <2>3, <2>4
  <2> QED BY <1>2, <2>1, <2>2, <2>4, <2>5, BudgetKept
<1>9. CASE Generate(r)
  <2>1. /\ UNCHANGED <<attempts, losses, current>> /\ Drafting(r) /\ ~Started(r) /\ Started(r)'
    BY <1>2, <1>9 DEF Generate, posts, Goes, TypeOK, Drafting, DraftingPC, Started
  <2>2. /\ Submitted(k)' = Submitted(k)
        /\ Gens(k)' = IF k = current[r] THEN Gens(k) \cup {Len(campaigns) + 1} ELSE Gens(k)
    BY <1>2, <1>9, GeneratedSets
  <2>3. CASE k = current[r]
    <3>1. ~Holds(k) /\ Holds(k)'
      BY <1>3, <1>4, <1>6, <2>1, <2>3
    <3>2. Cardinality(Gens(k)') = Cardinality(Gens(k)) + 1
      BY <1>2, <2>2, <2>3, GensFinite, FS_AddElement
    <3> QED BY <1>5, <2>1, <3>1, <3>2
  <2>4. CASE k # current[r]
    <3>1. Holds(k) => Holds(k)'
      BY <1>3, <1>4, <2>1, <2>2, <2>4
    <3> QED BY <1>2, <2>1, <2>2, <2>4, <3>1, BudgetKept
  <2> QED BY <2>3, <2>4
<1>10. CASE AttachRecipients(r)
  <2>1. /\ UNCHANGED <<attempts, losses, current>> /\ Started(r)'
    BY <1>2, <1>10 DEF AttachRecipients, posts, Goes, TypeOK, Started
  <2>2. Submitted(k)' = Submitted(k) /\ Gens(k)' = Gens(k)
    BY <1>2, <1>10, AttachedSets DEF SameSets
  <2>3. Holds(k) => Holds(k)'
    BY <1>3, <1>4, <2>1, <2>2
  <2> QED BY <1>2, <2>1, <2>2, <2>3, BudgetKept
<1>11. CASE Submit(r)
  <2>1. UNCHANGED <<attempts, losses>>
    BY <1>2, <1>11, Marks DEF Submit
  <2>2. /\ Submitted(k)' = IF k = current[r] THEN Submitted(k) \cup {draft[r]} ELSE Submitted(k)
        /\ Gens(k)' = Gens(k)
    BY <1>2, <1>11, SubmittedSets DEF Queued
  <2>3. Holds(k) => Holds(k)'
    BY <1>3, <1>4, <2>2
  <2> QED BY <1>2, <2>1, <2>2, <2>3, BudgetKept
<1>12. CASE RecordFailure(r)
  <2>1. UNCHANGED <<campaigns, losses>> /\ Drafting(r)
    BY <1>12 DEF RecordFailure
  <2>2. Gens(k)' = Gens(k) /\ Submitted(k)' = Submitted(k)
    BY <2>1 DEF Gens, Submitted
  <2>3. CASE k = current[r]
    <3>1. attempts'[k] = attempts[k] + 1 /\ attempts[k] < MaxAttempts
      BY <1>2, <1>6, <1>12, <2>1, <2>3, Marks
    <3> QED BY <1>5, <2>1, <2>2, <3>1
  <2>4. CASE k # current[r]
    <3>1. attempts'[k] = attempts[k]
      BY <1>2, <1>12, <2>4, Marks
    <3>2. Holds(k) => Holds(k)'
      BY <1>3, <1>4, <2>2, <2>4
    <3> QED BY <1>5, <2>1, <2>2, <3>1, <3>2
  <2> QED BY <2>3, <2>4
<1>13. CASE LoseFailure(r) \/ Crash(r)
  <2>1. UNCHANGED <<campaigns, attempts>> /\ losses' = losses + 1
    BY <1>13 DEF LoseFailure, Crash, posts
  <2>2. Gens(k)' = Gens(k)
    BY <2>1 DEF Gens
  <2> QED BY <1>5, <2>1, <2>2
<1>14. ASSUME NEW i \in 1 .. Len(campaigns), Reviewed(i) \/ Dispatch(i)
       PROVE  /\ attempts'[k] <= MaxAttempts
              /\ Cardinality(Gens(k)') <= attempts'[k] + losses' + (IF Holds(k)' THEN 1 ELSE 0)
  <2>1. UNCHANGED <<attempts, losses, pc, current>>
    BY <1>14 DEF Reviewed, Review, Dispatch, pass, posts
  <2>2. Submitted(k)' = Submitted(k) /\ Gens(k)' = Gens(k)
    BY <1>2, <1>14, ReviewedSets
  <2>3. Holds(k) => Holds(k)'
    BY <1>3, <1>4, <2>1, <2>2 DEF Started
  <2> QED BY <1>2, <2>1, <2>2, <2>3, BudgetKept
<1>15. ASSUME NEW p \in Posts, Publish(p) PROVE UNCHANGED <<campaigns, attempts, losses, pc, current>>
  BY <1>15 DEF Publish, pass
<1>16. UNCHANGED vars => UNCHANGED <<campaigns, attempts, losses, pc, current>>
  BY DEF vars, posts, pass
<1> QED
  BY <1>1, <1>7, <1>8, <1>9, <1>10, <1>11, <1>12, <1>13, <1>14, <1>15, <1>16 DEF Next, PassStep

LEMMA BudgetFollows == Queued /\ Budget => GenerationsBounded
<1> SUFFICES ASSUME Queued, Budget, NEW k \in Keys
             PROVE  Cardinality(Gens(k)) <= MaxAttempts + losses
  BY DEF GenerationsBounded, Gens
<1>1. /\ Cardinality(Gens(k)) \in Nat /\ attempts[k] \in Nat /\ losses \in Nat /\ MaxAttempts \in Nat
      /\ attempts[k] <= MaxAttempts
      /\ Cardinality(Gens(k)) <= attempts[k] + losses + (IF Holds(k) THEN 1 ELSE 0)
  BY GensFinite, AgentAssumption DEF Queued, TypeOK, Budget
<1>2. Holds(k) => attempts[k] < MaxAttempts
  BY Zenon DEF Queued, Holds, SubmittedHasLeft, WorkIsPending, Started, Drafting, DraftingPC
<1> QED
  BY <1>1, <1>2

(* A post costs at most max_attempts generations, and one more for every   *)
(* time the process died or a failure went unrecorded.                     *)
THEOREM PostCostsItsBudget ==
  ASSUME OneRunner
  PROVE  Spec => []GenerationsBounded
<1>1. Queued /\ Budget /\ [Next]_vars => Queued' /\ Budget'
  BY QueuedStep, BudgetStep
<1> QED
  BY <1>1, QueuedInit, BudgetInit, BudgetFollows, PTL DEF Spec
-----------------------------------------------------------------------------
(* What GENERATED promises, while nothing is lost.                         *)
Linked == NotifiedIsLinked /\ GeneratedIsSubmitted

LEMMA LinkedInit == Init => Linked
  BY DEF Init, Linked, NotifiedIsLinked, GeneratedIsSubmitted

LEMMA LinkedStep == OneRunner /\ Queued /\ Linked /\ [Next]_vars => Linked'
<1> SUFFICES ASSUME OneRunner, Queued, Linked, [Next]_vars PROVE Linked'
  OBVIOUS
<1>1. PICK r : Runners = {r}
  BY DEF OneRunner
<1>2. TypeOK /\ r \in Runners /\ NoKey \notin Keys
  BY <1>1, KeysFinite DEF Queued
<1> DEFINE Good(k) == state[k] = "GENERATED" /\ losses = 0 /\ current[r] # k => linked[k] \in Submitted(k)
           Noted   == pc[r] = "notifying" => linked[current[r]] \in Submitted(current[r])
<1>3. Noted /\ \A k \in Keys : Good(k)
  BY <1>1, Zenon DEF Linked, NotifiedIsLinked, GeneratedIsSubmitted
<1>4. pc[r] = "notifying" => current[r] \in Keys
  BY <1>2, Held
<1>5. Drafting(r) => current[r] \in Keys
  BY <1>2, Held
<1>6. SUFFICES Noted' /\ \A k \in Keys : Good(k)'
  BY <1>1, Zenon DEF Linked, NotifiedIsLinked, GeneratedIsSubmitted
<1>7. CASE UNCHANGED <<state, linked, current, pc, losses>> /\ \A k \in Keys : Submitted(k)' = Submitted(k)
  BY <1>3, <1>4, <1>7, Zenon
<1>8. CASE Discover(r) \/ SkipPass(r) \/ CountInFlight(r) \/ Select(r) \/ EndRun(r)
  <2>1. UNCHANGED <<campaigns, linked, losses, current>> /\ pc'[r] # "notifying" /\ current[r] = NoKey
    BY <1>2, <1>8
       DEF Discover, SkipPass, CountInFlight, Select, EndRun, posts, Goes, TypeOK, DraftingPC
  <2>2. \A k \in Keys : state'[k] = "GENERATED" => state[k] = "GENERATED"
    BY <1>2, <1>8 DEF Discover, SkipPass, CountInFlight, Select, EndRun, posts
  <2>3. \A k : Submitted(k)' = Submitted(k)
    BY <2>1 DEF Submitted
  <2> QED BY <1>3, <2>1, <2>2, <2>3, Zenon
<1>9. ASSUME NEW j \in work[r], Take(r, j) PROVE Noted' /\ \A k \in Keys : Good(k)'
  <2>1. UNCHANGED <<campaigns, state, linked, losses>> /\ pc'[r] # "notifying" /\ current[r] = NoKey
    BY <1>2, <1>9 DEF Take, posts, Goes, TypeOK, DraftingPC
  <2>2. \A k : Submitted(k)' = Submitted(k)
    BY <2>1 DEF Submitted
  <2> QED BY <1>2, <1>3, <2>1, <2>2, Zenon
<1>10. CASE Generate(r) \/ AttachRecipients(r)
  <2>1. UNCHANGED <<state, linked, losses, current>> /\ pc'[r] # "notifying"
    BY <1>2, <1>10 DEF Generate, AttachRecipients, posts, Goes, TypeOK
  <2>2. \A k \in Keys : Submitted(k)' = Submitted(k)
    BY <1>2, <1>10, GeneratedSets, AttachedSets DEF SameSets
  <2> QED BY <1>3, <2>1, <2>2, Zenon
<1>11. CASE Extract(r) \/ MarkGenerated(r)
  <2>1. UNCHANGED <<campaigns, losses, current>> /\ pc'[r] # "notifying"
    BY <1>2, <1>11 DEF Extract, MarkGenerated, Goes, TypeOK
  <2>2. \A k \in Keys : k # current[r] => state'[k] = state[k] /\ linked'[k] = linked[k]
    <3>1. \A k \in Keys : k # current[r] => state'[k] = state[k]
      BY <1>2, <1>11, Marks
    <3>2. \A k \in Keys : k # current[r] => linked'[k] = linked[k]
      BY <1>2, <1>11 DEF Extract, MarkGenerated, TypeOK
    <3> QED BY <3>1, <3>2
  <2>3. \A k : Submitted(k)' = Submitted(k)
    BY <2>1 DEF Submitted
  <2> QED BY <1>3, <2>1, <2>2, <2>3, Zenon
<1>12. CASE Submit(r)
  <2>1. UNCHANGED <<losses, current>> /\ Drafting(r)
    BY <1>12 DEF Submit, Drafting, DraftingPC
  <2>2. /\ \A k \in Keys : k # current[r] => state'[k] = state[k] /\ linked'[k] = linked[k]
        /\ linked'[current[r]] = draft[r]
    <3>1. \A k \in Keys : k # current[r] => state'[k] = state[k]
      BY <1>2, <1>12, Marks
    <3>2. linked' = [linked EXCEPT ![current[r]] = draft[r]] /\ linked \in [Keys -> 0 .. Len(campaigns)]
      BY <1>2, <1>12 DEF Submit, TypeOK
    <3> QED BY <1>5, <2>1, <3>1, <3>2
  <2>3. /\ \A k \in Keys : k # current[r] => Submitted(k)' = Submitted(k)
        /\ draft[r] \in Submitted(current[r])'
    BY <1>2, <1>5, <1>12, <2>1, SubmittedSets DEF Queued
  <2>4. Noted'
    BY <2>1, <2>2, <2>3, Zenon
  <2>5. ASSUME NEW k \in Keys PROVE Good(k)'
    <3>1. CASE k = current[r]
      BY <2>1, <3>1, Zenon
    <3>2. CASE k # current[r]
      BY <1>3, <2>1, <2>2, <2>3, <3>2, Zenon
    <3> QED BY <3>1, <3>2
  <2> QED BY <2>4, <2>5
<1>13. CASE Notify(r)
  <2>1. /\ UNCHANGED <<campaigns, state, linked, losses>> /\ pc'[r] # "notifying"
        /\ pc[r] = "notifying"
    BY <1>2, <1>13 DEF Notify, LeavePost, posts, Goes, TypeOK
  <2>2. \A k : Submitted(k)' = Submitted(k)
    BY <2>1 DEF Submitted
  <2>3. ASSUME NEW k \in Keys PROVE Good(k)'
    <3>1. CASE k = current[r]
      BY <1>3, <2>1, <2>2, <3>1, Zenon
    <3>2. CASE k # current[r]
      BY <1>3, <2>1, <2>2, <3>2, Zenon
    <3> QED BY <3>1, <3>2
  <2> QED BY <2>1, <2>3
<1>14. CASE RecordFailure(r)
  <2>1. /\ UNCHANGED <<campaigns, linked, losses>> /\ pc'[r] # "notifying" /\ Drafting(r)
    BY <1>2, <1>14 DEF RecordFailure, LeavePost, Goes, TypeOK
  <2>2. /\ \A k \in Keys : k # current[r] => state'[k] = state[k]
        /\ state'[current[r]] = "FAILED"
    BY <1>2, <1>5, <1>14, <2>1 DEF RecordFailure, Mark, TypeOK
  <2>3. \A k : Submitted(k)' = Submitted(k)
    BY <2>1 DEF Submitted
  <2>4. ASSUME NEW k \in Keys PROVE Good(k)'
    <3>1. CASE k = current[r]
      BY <2>2, <3>1
    <3>2. CASE k # current[r]
      BY <1>3, <2>1, <2>2, <2>3, <3>2, Zenon
    <3> QED BY <3>1, <3>2
  <2> QED BY <2>1, <2>4
<1>15. CASE LoseFailure(r) \/ Crash(r)
  <2>1. losses' # 0 /\ pc'[r] # "notifying"
    BY <1>2, <1>15 DEF LoseFailure, Crash, LeavePost, Goes, TypeOK
  <2> QED BY <2>1
<1>16. ASSUME NEW i \in 1 .. Len(campaigns), Reviewed(i) \/ Dispatch(i)
       PROVE  /\ UNCHANGED <<state, linked, current, pc, losses>>
              /\ \A k \in Keys : Submitted(k)' = Submitted(k)
  BY <1>2, <1>16, ReviewedSets DEF Reviewed, Review, Dispatch, pass, posts
<1>17. ASSUME (\E p \in Posts : Publish(p)) \/ UNCHANGED vars
       PROVE  /\ UNCHANGED <<state, linked, current, pc, losses>>
              /\ \A k \in Keys : Submitted(k)' = Submitted(k)
  <2>1. UNCHANGED <<state, linked, current, pc, losses, campaigns>>
    BY <1>17 DEF Publish, vars, posts, pass
  <2> QED BY <2>1 DEF Submitted
<1> QED
  BY <1>1, <1>7, <1>8, <1>9, <1>10, <1>11, <1>12, <1>13, <1>14, <1>15, <1>16, <1>17, Zenon
     DEF Next, PassStep

(* A post marked GENERATED that the pass does not hold has a newsletter    *)
(* before the reviewers, as long as no process died and no failure went    *)
(* unrecorded: whatever stage fails, the mark is taken back.               *)
THEOREM GeneratedReachedReviewer ==
  ASSUME OneRunner
  PROVE  Spec => []GeneratedIsSubmitted
<1>1. Queued /\ Linked /\ [Next]_vars => Queued' /\ Linked'
  BY QueuedStep, LinkedStep
<1>2. Linked => GeneratedIsSubmitted
  BY DEF Linked
<1> QED
  BY <1>1, <1>2, QueuedInit, LinkedInit, PTL DEF Spec
-----------------------------------------------------------------------------
(* The queue limit.                                                        *)
LEMMA Countable ==
  ASSUME TypeOK, NEW r \in Runners
  PROVE  /\ IsFiniteSet(InFlight) /\ Cardinality(InFlight) \in Nat
         /\ IsFiniteSet(Pending) /\ Cardinality(Pending) \in Nat
         /\ IsFiniteSet(work[r]) /\ Cardinality(work[r]) \in Nat
         /\ room[r] \in Nat
<1>1. IsFiniteSet(1 .. Len(campaigns)) /\ InFlight \in SUBSET (1 .. Len(campaigns))
  BY LenNat, FS_Interval DEF InFlight
<1>2. IsFiniteSet(InFlight) /\ Cardinality(InFlight) \in Nat
  BY <1>1, FS_Subset, FS_CardinalityType
<1>3. Pending \in SUBSET Keys /\ work[r] \in SUBSET Keys
  BY DEF Pending, TypeOK
<1>4. IsFiniteSet(Pending) /\ Cardinality(Pending) \in Nat /\ IsFiniteSet(work[r]) /\ Cardinality(work[r]) \in Nat
  BY <1>3, KeysFinite, FS_Subset, FS_CardinalityType
<1> QED
  BY <1>2, <1>4 DEF TypeOK

LEMMA HeadroomInit == Init => Headroom
<1> SUFFICES ASSUME Init PROVE Headroom
  OBVIOUS
<1>1. InFlight = {} /\ \A r \in Runners : work[r] = {} /\ room[r] = 0 /\ ~Drafting(r)
  BY DEF Init, InFlight, Drafting, DraftingPC
<1> QED
  BY <1>1, FS_EmptySet, AgentAssumption DEF Headroom

LEMMA HeadroomStep == OneRunner /\ Queued /\ Headroom /\ [Next]_vars => Headroom'
<1> SUFFICES ASSUME OneRunner, Queued, Headroom, [Next]_vars PROVE Headroom'
  OBVIOUS
<1>1. PICK r : Runners = {r}
  BY DEF OneRunner
<1>2. TypeOK /\ TypeOK' /\ r \in Runners
  BY <1>1, TypeStep DEF Queued
<1> DEFINE n == Cardinality(InFlight)  w == Cardinality(work[r])
           d == IF Drafting(r) THEN 1 ELSE 0
<1>3. n \in Nat /\ w \in Nat /\ room[r] \in Nat /\ d \in {0, 1} /\ n + room[r] + w + d <= MaxInFlight
  BY <1>1, <1>2, Countable DEF Headroom
<1>4. n' \in Nat /\ w' \in Nat /\ room'[r] \in Nat /\ d' \in {0, 1}
  <2>1. IsFiniteSet(InFlight') /\ IsFiniteSet(work'[r])
    <3>1. Len(campaigns') \in Nat /\ InFlight' \in SUBSET (1 .. Len(campaigns'))
      BY <1>2, LenProperties DEF TypeOK, InFlight
    <3>2. work'[r] \in SUBSET Keys
      BY <1>2 DEF TypeOK
    <3>3. IsFiniteSet(1 .. Len(campaigns'))
      BY <3>1, FS_Interval
    <3>4. IsFiniteSet(InFlight')
      BY <3>1, <3>3, FS_Subset
    <3> QED BY <3>2, <3>4, KeysFinite, FS_Subset
  <2>2. n' \in Nat /\ w' \in Nat
    BY <2>1, FS_CardinalityType
  <2> QED BY <1>2, <2>2 DEF TypeOK
<1>5. SUFFICES n' + room'[r] + w' + d' <= MaxInFlight
  BY <1>1 DEF Headroom
<1>6. /\ pc[r] # "counted" => room[r] = 0
      /\ pc[r] \in {"idle", "discovered", "counted"} => work[r] = {}
  BY <1>2 DEF Queued, WorkIsPending
<1>7. MaxInFlight \in Nat /\ MaxPostsPerRun \in Nat
  BY AgentAssumption
<1>8. /\ UNCHANGED campaigns => n' = n
      /\ UNCHANGED work => w' = w
      /\ work[r] = {} => w = 0
      /\ work'[r] = {} => w' = 0
  BY FS_EmptySet DEF InFlight
<1>9. /\ Drafting(r) => d = 1
      /\ ~Drafting(r) => d = 0
      /\ Drafting(r)' => d' = 1
      /\ ~Drafting(r)' => d' = 0
  OBVIOUS
<1> HIDE DEF n, w, d
<1>10. CASE UNCHANGED <<campaigns, room, work, pc>>
  <2>1. n' = n /\ w' = w /\ d' = d
    BY <1>8, <1>9, <1>10 DEF Drafting
  <2> QED BY <1>3, <1>4, <1>7, <1>10, <2>1
<1>11. CASE Discover(r) \/ SkipPass(r) \/ EndRun(r)
  <2>1. UNCHANGED <<campaigns, room, work>> /\ ~Drafting(r)'
    BY <1>2, <1>11 DEF Discover, SkipPass, EndRun, posts, Goes, TypeOK, Drafting, DraftingPC
  <2>2. n' = n /\ w' = w /\ d' = 0
    BY <1>8, <1>9, <2>1
  <2> QED BY <1>3, <1>4, <1>7, <2>1, <2>2
<1>12. CASE CountInFlight(r)
  <2>1. UNCHANGED <<campaigns, work>> /\ ~Drafting(r)' /\ work[r] = {}
    BY <1>2, <1>6, <1>12 DEF CountInFlight, posts, Goes, TypeOK, Drafting, DraftingPC
  <2>4. d' = 0 /\ w = 0 /\ w' = 0 /\ n' = n
    BY <1>8, <1>9, <2>1
  <2>2. CASE n < MaxInFlight
    <3>1. room'[r] = Least(MaxPostsPerRun, MaxInFlight - n)
      BY <1>2, <1>12, <2>2 DEF CountInFlight, TypeOK, n
    <3>2. room'[r] <= MaxInFlight - n
      BY <1>3, <1>7, <3>1 DEF Least
    <3> QED BY <1>3, <1>4, <1>7, <2>4, <3>2
  <2>3. CASE ~(n < MaxInFlight)
    <3>1. room' = room
      BY <1>12, <2>3 DEF CountInFlight, n
    <3> QED BY <1>3, <1>4, <1>7, <2>4, <3>1
  <2> QED BY <2>2, <2>3
<1>13. CASE Select(r)
  <2>1. UNCHANGED campaigns /\ ~Drafting(r)' /\ room'[r] = 0 /\ ~Drafting(r) /\ work[r] = {}
    BY <1>2, <1>6, <1>13 DEF Select, Goes, TypeOK, Drafting, DraftingPC
  <2>4. n' = n /\ d' = 0 /\ d = 0 /\ w = 0
    BY <1>8, <1>9, <2>1
  <2>2. w' = Least(room[r], Cardinality(Pending))
    BY <1>2, <1>13 DEF Select, TypeOK, w
  <2>3. w' <= room[r]
    BY <1>2, <2>2, Countable DEF Least
  <2>5. PICK m \in Nat : m = room[r]
    BY <1>3
  <2>6. n + m <= MaxInFlight /\ w' <= m
    BY <1>3, <1>7, <2>3, <2>4, <2>5
  <2>7. n' + room'[r] + w' + d' = n + w'
    BY <1>3, <1>4, <2>1, <2>4
  <2> QED BY <1>3, <1>4, <1>7, <2>6, <2>7
<1>14. ASSUME NEW k \in work[r], Take(r, k) PROVE n' + room'[r] + w' + d' <= MaxInFlight
  <2>1. UNCHANGED <<campaigns, room>> /\ ~Drafting(r) /\ Drafting(r)' /\ work'[r] = work[r] \ {k}
    BY <1>2, <1>14 DEF Take, posts, Goes, TypeOK, Drafting, DraftingPC
  <2>2. w' = w - 1
    BY <1>2, <1>14, <2>1, Countable, FS_RemoveElement DEF w
  <2>3. n' = n /\ d = 0 /\ d' = 1
    BY <1>8, <1>9, <2>1
  <2> QED BY <1>3, <1>4, <1>7, <2>1, <2>2, <2>3
<1>15. CASE Extract(r) \/ MarkGenerated(r) \/ Notify(r) \/ RecordFailure(r) \/ LoseFailure(r)
  <2>1. UNCHANGED <<campaigns, room, work>>
    BY <1>15 DEF Extract, MarkGenerated, Notify, RecordFailure, LoseFailure, posts
  <2>2. Drafting(r)' => Drafting(r)
    BY <1>2, <1>15
       DEF Extract, MarkGenerated, Notify, RecordFailure, LoseFailure, LeavePost, Goes, TypeOK,
           Drafting, DraftingPC
  <2>3. n' = n /\ w' = w /\ d' <= d
    BY <1>3, <1>4, <1>8, <1>9, <2>1, <2>2
  <2> QED BY <1>3, <1>4, <1>7, <2>1, <2>3
<1>16. CASE Generate(r) \/ AttachRecipients(r)
  <2>1. UNCHANGED <<room, work>> /\ Drafting(r)
    BY <1>16 DEF Generate, AttachRecipients, Drafting, DraftingPC
  <2>2. n' = n
    BY <1>2, <1>16, GeneratedSets, AttachedSets DEF SameSets, n
  <2>3. w' = w /\ d' <= d
    BY <1>4, <1>8, <1>9, <2>1
  <2> QED BY <1>3, <1>4, <1>7, <2>1, <2>2, <2>3
<1>17. CASE Submit(r)
  <2>1. UNCHANGED <<room, work>> /\ Drafting(r) /\ ~Drafting(r)'
    BY <1>2, <1>17 DEF Submit, Goes, TypeOK, Drafting, DraftingPC
  <2>2. InFlight' = InFlight \cup {draft[r]} /\ draft[r] \notin InFlight
    BY <1>2, <1>17, SubmittedSets DEF Queued
  <2>3. n' = n + 1
    BY <1>2, <2>2, Countable, FS_AddElement DEF n
  <2>4. w' = w /\ d = 1 /\ d' = 0
    BY <1>8, <1>9, <2>1
  <2> QED BY <1>3, <1>4, <1>7, <2>1, <2>3, <2>4
<1>18. CASE Crash(r)
  <2>1. UNCHANGED campaigns /\ ~Drafting(r)' /\ room'[r] = 0 /\ work'[r] = {}
    BY <1>2, <1>18 DEF Crash, posts, Goes, TypeOK, Drafting, DraftingPC
  <2>2. n' = n /\ d' = 0 /\ w' = 0
    BY <1>8, <1>9, <2>1
  <2> QED BY <1>3, <1>4, <1>7, <2>1, <2>2
<1>19. ASSUME NEW i \in 1 .. Len(campaigns), Reviewed(i) \/ Dispatch(i)
       PROVE  n' + room'[r] + w' + d' <= MaxInFlight
  <2>1. UNCHANGED <<room, work, pc>>
    BY <1>19 DEF Reviewed, Review, Dispatch, pass
  <2>2. InFlight' \in SUBSET InFlight
    BY <1>2, <1>19, ReviewedSets
  <2>3. n' <= n
    BY <1>2, <2>2, Countable, FS_Subset DEF n
  <2>4. w' = w /\ d' = d
    BY <1>8, <1>9, <2>1 DEF Drafting
  <2> QED BY <1>3, <1>4, <1>7, <2>1, <2>3, <2>4
<1>20. (\E p \in Posts : Publish(p)) \/ UNCHANGED vars => UNCHANGED <<campaigns, room, work, pc>>
  BY DEF Publish, vars, posts, pass
<1> QED
  BY <1>1, <1>10, <1>11, <1>12, <1>13, <1>14, <1>15, <1>16, <1>17, <1>18, <1>19, <1>20, Zenon
     DEF Next, PassStep

(* Never more newsletters wait for a decision or for dispatch than         *)
(* max_in_flight, although the pass counts them once and drafts for hours, *)
(* may die between any two stages and starts over with a new count.        *)
THEOREM QueueKeepsToLimit ==
  ASSUME OneRunner
  PROVE  Spec => []InFlightBounded
<1>1. Queued /\ Headroom /\ [Next]_vars => Queued' /\ Headroom'
  BY QueuedStep, HeadroomStep
<1>2. Queued /\ Headroom => InFlightBounded
  <2> SUFFICES ASSUME Queued, Headroom PROVE InFlightBounded
    OBVIOUS
  <2>1. PICK r : r \in Runners
    BY DEF OneRunner
  <2>2. /\ Cardinality(InFlight) \in Nat /\ room[r] \in Nat /\ Cardinality(work[r]) \in Nat
        /\ MaxInFlight \in Nat
    BY <2>1, Countable, AgentAssumption DEF Queued
  <2>3. Cardinality(InFlight) + room[r] + Cardinality(work[r])
          + (IF Drafting(r) THEN 1 ELSE 0) <= MaxInFlight
    BY <2>1 DEF Headroom
  <2> QED BY <2>2, <2>3 DEF InFlightBounded
<1> QED
  BY <1>1, <1>2, QueuedInit, HeadroomInit, PTL DEF Spec
=============================================================================
