--------------------------- MODULE AgentPipeline ---------------------------
(***************************************************************************)
(* The agent's discovery passes (services/agent_service.py): find posts,   *)
(* record the unseen ones, and take the oldest unfinished posts through    *)
(* extraction, generation and submission, one transaction at a time, while *)
(* few enough newsletters are in flight.  Around them: the site publishes, *)
(* reviewers decide, dispatch sends.                                       *)
(*                                                                         *)
(* A discovered_posts row is named by its dedupe key: the post, and the    *)
(* source it was seen through, whose identifiers differ.  Posts are        *)
(* numbered in the order of publication.                                   *)
(***************************************************************************)
EXTENDS Naturals, Sequences, FiniteSets, CampaignStates

CONSTANTS
  Posts,           \* the posts of the blog, numbered by publication
  Sources,         \* discovery sources: the API, and the feed as fallback
  Window,          \* how many posts _discover asks a source for
  Runners,         \* processes that run discovery passes
  MaxAttempts,     \* settings.agent.max_attempts
  MaxPostsPerRun,  \* settings.agent.max_posts_per_run
  MaxInFlight,     \* settings.agent.max_in_flight
  MaxLosses,       \* bound: processes killed, and failures that go unrecorded
  NoKey            \* no row

Keys == [post : Posts, source : Sources]

ASSUME AgentAssumption ==
  /\ Posts \subseteq Nat /\ IsFiniteSet(Posts) /\ IsFiniteSet(Sources)
  /\ MaxAttempts \in Nat /\ MaxPostsPerRun \in Nat /\ MaxInFlight \in Nat
  /\ MaxLosses \in Nat /\ Window \in Nat \ {0}
  /\ NoKey \notin Keys

VARIABLES
  published,   \* posts on the site
  state,       \* discovered_posts.state, or "unseen"
  attempts,    \* discovered_posts.attempts
  linked,      \* discovered_posts.campaign_id, 0 for none
  campaigns,   \* the agent's campaigns, by id: [key, status, recipients]
  pc,          \* where each pass is
  room,        \* campaigns the pass may still start, as it counted
  work,        \* keys of the posts it has yet to take
  current,     \* the post it is on
  draft,       \* the campaign it generated for it, 0 for none
  losses

posts == <<published, state, attempts, linked>>
pass  == <<pc, room, work, current, draft>>
vars  == <<posts, campaigns, pass, losses>>

PostState       == {"DISCOVERED", "EXTRACTED", "GENERATED", "FAILED"}
RetryableStates == {"DISCOVERED", "EXTRACTED", "FAILED"}
DraftingPC      == {"extracting", "generating", "linking", "attaching", "submitting"}
PassPC          == {"idle", "discovered", "counted", "choosing", "notifying"}
                     \cup DraftingPC

(* Seeded fault: a notification that fails undoes the draft.               *)
DraftingOrNotifying(r) == pc[r] \in DraftingPC \cup {"notifying"}

(* The stages whose exceptions are recorded as a failed attempt.           *)
Drafting(r) == pc[r] \in DraftingPC

TypeOK ==
  /\ published \subseteq Posts
  /\ state \in [Keys -> PostState \cup {"unseen"}]
  /\ attempts \in [Keys -> Nat]
  /\ linked \in [Keys -> 0 .. Len(campaigns)]
  /\ campaigns \in Seq([key : Keys, status : CampaignStatus, recipients : BOOLEAN])
  /\ pc \in [Runners -> PassPC]
  /\ room \in [Runners -> Nat]
  /\ work \in [Runners -> SUBSET Keys]
  /\ current \in [Runners -> Keys \cup {NoKey}]
  /\ draft \in [Runners -> 0 .. Len(campaigns)]
  /\ \A r \in Runners :
       /\ current[r] = NoKey <=> pc[r] \notin DraftingPC \cup {"notifying"}
       /\ draft[r] = 0 <=> pc[r] \notin (DraftingPC \ {"extracting", "generating"})
                                            \cup {"notifying"}
  /\ losses \in Nat

Init ==
  /\ published = {}
  /\ state = [k \in Keys |-> "unseen"]
  /\ attempts = [k \in Keys |-> 0]
  /\ linked = [k \in Keys |-> 0]
  /\ campaigns = <<>>
  /\ pc = [r \in Runners |-> "idle"]
  /\ room = [r \in Runners |-> 0]
  /\ work = [r \in Runners |-> {}]
  /\ current = [r \in Runners |-> NoKey]
  /\ draft = [r \in Runners |-> 0]
  /\ losses = 0

Goes(r, to) == pc' = [pc EXCEPT ![r] = to]

-----------------------------------------------------------------------------
(* Before drafting.                                                        *)

Publish(p) ==
  /\ p \notin published
  /\ published' = published \cup {p}
  /\ UNCHANGED <<state, attempts, linked, campaigns, pass, losses>>

(* What a source has to list: the newest posts, and no more than it is     *)
(* asked for.  One that fell out of the window unseen is not seen again.   *)
Newest == {p \in published : Cardinality({q \in published : q > p}) < Window}

(* A source lists them under identifiers of its own: the API's ids or the  *)
(* feed's URLs.                                                            *)
Listed(s) == {k \in Keys : k.source = s /\ k.post \in Newest}

(* discover_posts: the first source that lists any, those before it being  *)
(* down or empty; or all of them are empty.  (All failing ends the pass    *)
(* before anything happened.)                                              *)
Answers == {Listed(s) : s \in Sources} \cup {{}}

(* _discover: record_new inserts what the unique key does not hold yet.    *)
Discover(r) ==
  /\ pc[r] = "idle"
  /\ \E found \in Answers :
       state' = [k \in Keys |->
         IF k \in found /\ state[k] = "unseen" THEN "DISCOVERED" ELSE state[k]]
  /\ Goes(r, "discovered")
  /\ UNCHANGED <<published, attempts, linked, campaigns, room, work, current, draft, losses>>

(* No usable recipient list: the pass is reported as skipped.              *)
SkipPass(r) ==
  /\ pc[r] = "discovered"
  /\ Goes(r, "idle")
  /\ UNCHANGED <<posts, campaigns, room, work, current, draft, losses>>

InFlight ==
  {i \in 1 .. Len(campaigns) : campaigns[i].status \in {"AWAITING_APPROVAL", "APPROVED"}}

Least(m, n) == IF m <= n THEN m ELSE n

(* Seeded fault: a pass below the limit starts as many as a pass may.      *)
CountPerRun(r) ==
  /\ pc[r] = "discovered"
  /\ IF Cardinality(InFlight) < MaxInFlight
       THEN room' = [room EXCEPT ![r] = MaxPostsPerRun] /\ Goes(r, "counted")
       ELSE Goes(r, "idle") /\ UNCHANGED room
  /\ UNCHANGED <<posts, campaigns, work, current, draft, losses>>

(* The recipients load; _in_flight, and the headroom it leaves; or the     *)
(* pass holds.                                                             *)
CountInFlight(r) ==
  /\ pc[r] = "discovered"
  /\ IF Cardinality(InFlight) < MaxInFlight
       THEN /\ room' = [room EXCEPT ![r] =
                 Least(MaxPostsPerRun, MaxInFlight - Cardinality(InFlight))]
            /\ Goes(r, "counted")
       ELSE Goes(r, "idle") /\ UNCHANGED room
  /\ UNCHANGED <<posts, campaigns, work, current, draft, losses>>

(* Seeded faults: failed posts are not taken up again; they are, for ever. *)
PendingUnfailed ==
  {k \in Keys : state[k] \in {"DISCOVERED", "EXTRACTED"} /\ attempts[k] < MaxAttempts}
PendingForEver == {k \in Keys : state[k] \in RetryableStates}

Pending == {k \in Keys : state[k] \in RetryableStates /\ attempts[k] < MaxAttempts}

(* pending(limit): the oldest ones, in one read.                           *)
Select(r) ==
  /\ pc[r] = "counted"
  /\ \E W \in SUBSET Pending :
       /\ Cardinality(W) = Least(room[r], Cardinality(Pending))
       /\ \A k \in W, j \in Pending \ W : k.post <= j.post
       /\ work' = [work EXCEPT ![r] = W]
  /\ room' = [room EXCEPT ![r] = 0]
  /\ Goes(r, "choosing")
  /\ UNCHANGED <<posts, campaigns, current, draft, losses>>

-----------------------------------------------------------------------------
(* One post, stage by stage.                                               *)

Take(r, k) ==
  /\ pc[r] = "choosing"
  /\ k \in work[r] /\ \A j \in work[r] : k.post <= j.post
  /\ work' = [work EXCEPT ![r] = @ \ {k}]
  /\ current' = [current EXCEPT ![r] = k]
  /\ Goes(r, "extracting")
  /\ UNCHANGED <<posts, campaigns, room, draft, losses>>

EndRun(r) ==
  /\ pc[r] = "choosing" /\ work[r] = {}
  /\ Goes(r, "idle")
  /\ UNCHANGED <<posts, campaigns, room, work, current, draft, losses>>

(* Seeded fault: a post once GENERATED stays so when a later stage fails.  *)
MarkUpward(k, s) ==
  /\ state' = [state EXCEPT ![k] = IF @ = "GENERATED" THEN @ ELSE s]
  /\ attempts' = [attempts EXCEPT ![k] = IF s = "FAILED" THEN @ + 1 ELSE @]

(* mark: the state, and the error count, of the current post's row.        *)
Mark(k, s) ==
  /\ state' = [state EXCEPT ![k] = s]
  /\ attempts' = [attempts EXCEPT ![k] = IF s = "FAILED" THEN @ + 1 ELSE @]

Extract(r) ==
  /\ pc[r] = "extracting"
  /\ Mark(current[r], "EXTRACTED")
  /\ Goes(r, "generating")
  /\ UNCHANGED <<published, linked, campaigns, room, work, current, draft, losses>>

(* GenerationService.generate commits a DRAFT of its own ...               *)
Generate(r) ==
  /\ pc[r] = "generating"
  /\ campaigns' = Append(campaigns,
       [key |-> current[r], status |-> "DRAFT", recipients |-> FALSE])
  /\ draft' = [draft EXCEPT ![r] = Len(campaigns) + 1]
  /\ Goes(r, "linking")
  /\ UNCHANGED <<posts, room, work, current, losses>>

(* ... and only then is the post marked with it.                           *)
MarkGenerated(r) ==
  /\ pc[r] = "linking"
  /\ Mark(current[r], "GENERATED")
  /\ linked' = [linked EXCEPT ![current[r]] = draft[r]]
  /\ Goes(r, "attaching")
  /\ UNCHANGED <<published, campaigns, room, work, current, draft, losses>>

AttachRecipients(r) ==
  /\ pc[r] = "attaching"
  /\ campaigns' = [campaigns EXCEPT ![draft[r]].recipients = TRUE]
  /\ Goes(r, "submitting")
  /\ UNCHANGED <<posts, room, work, current, draft, losses>>

(* _submit_for_approval: the transition and the mark, together.            *)
Submit(r) ==
  /\ pc[r] = "submitting"
  /\ campaigns[draft[r]].status \in SourcesOf("AWAITING_APPROVAL")
  /\ campaigns' = [campaigns EXCEPT ![draft[r]].status = "AWAITING_APPROVAL"]
  /\ Mark(current[r], "GENERATED")
  /\ linked' = [linked EXCEPT ![current[r]] = draft[r]]
  /\ Goes(r, "notifying")
  /\ UNCHANGED <<published, room, work, current, draft, losses>>

(* Seeded fault: the next post is drafted under the last one's campaign.   *)
LeavePostOnly(r) ==
  /\ current' = [current EXCEPT ![r] = NoKey]
  /\ Goes(r, "choosing")
  /\ UNCHANGED draft

LeavePost(r) ==
  /\ current' = [current EXCEPT ![r] = NoKey]
  /\ draft' = [draft EXCEPT ![r] = 0]
  /\ Goes(r, "choosing")

(* _request_approval: a review link by e-mail; its failure is only logged. *)
Notify(r) ==
  /\ pc[r] = "notifying"
  /\ LeavePost(r)
  /\ UNCHANGED <<posts, campaigns, room, work, losses>>

(* Any stage raises: the post is FAILED, its attempt counted, and the pass *)
(* goes on with the next one.                                              *)
RecordFailure(r) ==
  /\ Drafting(r)
  /\ Mark(current[r], "FAILED")
  /\ LeavePost(r)
  /\ UNCHANGED <<published, linked, campaigns, room, work, losses>>

(* Recording the failure fails too: logged, and the pass goes on.          *)
LoseFailure(r) ==
  /\ Drafting(r) /\ losses < MaxLosses
  /\ losses' = losses + 1
  /\ LeavePost(r)
  /\ UNCHANGED <<posts, campaigns, room, work>>

(* The process is killed.                                                  *)
Crash(r) ==
  /\ pc[r] # "idle" /\ losses < MaxLosses
  /\ losses' = losses + 1
  /\ Goes(r, "idle")
  /\ room' = [room EXCEPT ![r] = 0]
  /\ work' = [work EXCEPT ![r] = {}]
  /\ current' = [current EXCEPT ![r] = NoKey]
  /\ draft' = [draft EXCEPT ![r] = 0]
  /\ UNCHANGED <<posts, campaigns>>

-----------------------------------------------------------------------------
(* The campaigns' further life, as far as it frees the queue.              *)
Review(i, decision) ==
  /\ campaigns[i].status \in SourcesOf(decision)
  /\ campaigns' = [campaigns EXCEPT ![i].status = decision]
  /\ UNCHANGED <<posts, pass, losses>>

Dispatch(i) ==
  /\ campaigns[i].status = "APPROVED"
  /\ campaigns' = [campaigns EXCEPT ![i].status = "SENDING"]
  /\ UNCHANGED <<posts, pass, losses>>

-----------------------------------------------------------------------------
PassStep(r) ==
  \/ Discover(r) \/ SkipPass(r) \/ CountInFlight(r) \/ Select(r)
  \/ \E k \in work[r] : Take(r, k)
  \/ EndRun(r)
  \/ Extract(r) \/ Generate(r) \/ MarkGenerated(r) \/ AttachRecipients(r)
  \/ Submit(r) \/ Notify(r) \/ RecordFailure(r)

Reviewed(i) == \E d \in {"APPROVED", "REJECTED"} : Review(i, d)

Next ==
  \/ \E p \in Posts : Publish(p)
  \/ \E r \in Runners : PassStep(r) \/ LoseFailure(r) \/ Crash(r)
  \/ \E i \in 1 .. Len(campaigns) : Reviewed(i) \/ Dispatch(i)

Spec == Init /\ [][Next]_vars

(* The scheduler keeps running passes, not all of which lack recipients;   *)
(* reviewers decide in the end, and the dispatcher takes what they approve.*)
FairSpec ==
  /\ Spec
  /\ \A r \in Runners : WF_vars(PassStep(r)) /\ SF_vars(CountInFlight(r))
  /\ WF_vars(\E i \in 1 .. Len(campaigns) : Reviewed(i) \/ Dispatch(i))

-----------------------------------------------------------------------------
Submitted(k) ==
  {i \in 1 .. Len(campaigns) : campaigns[i].key = k /\ campaigns[i].status # "DRAFT"}

(* With one runner the queue keeps to max_in_flight, although the count it *)
(* starts from grows stale while it drafts and a pass may die and restart. *)
InFlightBounded == Cardinality(InFlight) <= MaxInFlight

(* One row is put before the reviewer once, and with a recipient list,     *)
(* however often its earlier attempts failed or a process died.            *)
SubmittedOncePerRow ==
  \A k \in Keys :
    /\ Cardinality(Submitted(k)) <= 1
    /\ \A i \in Submitted(k) : campaigns[i].recipients

(* A post costs at most max_attempts generations, and one more per loss:  *)
(* what the attempt budget is for.                                         *)
GenerationsBounded ==
  \A k \in Keys :
    Cardinality({i \in 1 .. Len(campaigns) : campaigns[i].key = k}) <= MaxAttempts + losses

(* A post marked GENERATED that no pass holds has a campaign before the    *)
(* reviewers: it has left the queue for good, so nothing else would bring  *)
(* it there.  (A kill between two stages can strand it.)                   *)
GeneratedIsSubmitted ==
  \A k \in Keys :
    state[k] = "GENERATED" /\ losses = 0 /\ (\A r \in Runners : current[r] # k)
      => linked[k] \in Submitted(k)

(* Every discovered post reaches the reviewers or uses up its attempts, as *)
(* long as reviewers decide: none is starved by newer posts, and a kill    *)
(* costs a post its place only once it is marked GENERATED.                *)
PostReachesReviewer ==
  \A k \in Keys :
    state[k] = "DISCOVERED" ~>
      \/ Submitted(k) # {}
      \/ attempts[k] >= MaxAttempts
      \/ losses > 0 /\ state[k] = "GENERATED"

-----------------------------------------------------------------------------
(* What the repository's comments promise and the code does not keep.      *)

(* A post is known again under either identity form (discovered_repo.py),  *)
(* so that customers are not mailed about it again.                        *)
OneNewsletterPerPost ==
  \A p \in Posts :
    Cardinality(UNION {Submitted(k) : k \in {j \in Keys : j.post = p}}) <= 1
=============================================================================
