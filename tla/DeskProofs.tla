----------------------------- MODULE DeskProofs -----------------------------
(***************************************************************************)
(* Theorems about accounts and the review desk (Accounts, ReviewDesk), for *)
(* every set of users and tabs, every lockout and every lifetime of tokens *)
(* and links.                                                              *)
(***************************************************************************)
EXTENDS ReviewDesk, FiniteSetTheorems, SequenceTheorems, TLAPS

(* The accounts' steps.                                                    *)
AccountsStep == Next /\ UNCHANGED desk

LEMMA TabActs ==
  ASSUME Next
  PROVE  \/ Tick
         \/ \E t \in Tabs, u \in Users :
              BeginLogin(t, u) \/ CreateUser(t, u) \/ Toggle(t, u)
         \/ \E t \in Tabs, kept \in BOOLEAN : SignIn(t, kept) \/ SignOut(t, kept)
         \/ \E t \in Tabs : Look(t) \/ WrongPassword(t) \/ FinishFailure(t)
         \/ \E t \in Tabs : ReadCookie(t) \/ Restore(t) \/ RestoreRefused(t) \/ Reload(t)
BY DEF Next, TabStep

-----------------------------------------------------------------------------
(* Types of the accounts.                                                  *)
Pending == [step : Steps, user : Users]

LEMMA FormIsPending ==
  ASSUME TypeOK, NEW t \in Tabs, form[t] # Idle
  PROVE  form[t] \in Pending /\ form[t].user \in Users
BY DEF TypeOK, Pending

LEMMA StepIsPending ==
  ASSUME TypeOK, NEW t \in Tabs, form[t].step \in Steps
  PROVE  form[t].user \in Users /\ form[t] # Idle
         /\ form[t] = [step |-> form[t].step, user |-> form[t].user]
<1>1. form[t] # Idle
  BY DEF Idle, Steps
<1> QED
  BY <1>1, FormIsPending DEF Pending

(* A tab that has begun something keeps a step and a user.                 *)
LEMMA FormStep ==
  ASSUME TypeOK, NEW t \in Tabs, NEW step \in Steps, NEW u \in Users
  PROVE  [form EXCEPT ![t] = [step |-> step, user |-> u]]
           \in [Tabs -> [step : Steps, user : Users] \cup {Idle}]
<1>1. [step |-> step, user |-> u] \in [step : Steps, user : Users]
  OBVIOUS
<1> QED
  BY <1>1 DEF TypeOK

LEMMA AccountTypes ==
  ASSUME TypeOK, Next
  PROVE  TypeOK'
<1> USE AccountsAssumption DEF TypeOK, Time
<1>1. CASE Tick
  BY <1>1 DEF Tick, session, lockouts
<1>2. ASSUME NEW t \in Tabs, NEW u \in Users, BeginLogin(t, u) PROVE TypeOK'
  <2>1. form' \in [Tabs -> [step : Steps, user : Users] \cup {Idle}]
    <3>1. "asked" \in Steps /\ form' = [form EXCEPT ![t] = [step |-> "asked", user |-> u]]
      BY <1>2 DEF BeginLogin, Steps
    <3> QED
      BY <3>1, FormStep
  <2> QED
    BY <1>2, <2>1 DEF BeginLogin, session
<1>3. ASSUME NEW t \in Tabs, NEW u \in Users, CreateUser(t, u) PROVE TypeOK'
  BY <1>3 DEF CreateUser, session, lockouts
<1>4. ASSUME NEW t \in Tabs, NEW u \in Users, Toggle(t, u) PROVE TypeOK'
  <2>1. early' \subseteq Tabs
    BY <1>4 DEF Toggle
  <2>2. account' \in [Users -> {"none", "active", "off"}]
    BY <1>4 DEF Toggle
  <2> QED
    BY <1>4, <2>1, <2>2 DEF Toggle, session, lockouts
<1>5. ASSUME NEW t \in Tabs, NEW kept \in BOOLEAN, SignIn(t, kept) PROVE TypeOK'
  <2>1. form[t].user \in Users
    BY <1>5, StepIsPending DEF SignIn, Steps
  <2>2. now + SessionTTL \in Nat
    OBVIOUS
  <2>3. [user |-> form[t].user, until |-> now + SessionTTL] \in Token
    BY <2>1, <2>2 DEF Token
  <2>4. jar' \in [Tabs -> Token \cup {None}]
    BY <1>5, <2>3 DEF SignIn
  <2>5. user' \in [Tabs -> Users \cup {None}]
    BY <1>5, <2>1 DEF SignIn
  <2>6. attempts' \in [Users -> [count : Nat, until : Nat]]
    BY <1>5, <2>1 DEF SignIn
  <2>7. form' \in [Tabs -> [step : Steps, user : Users] \cup {Idle}]
    BY <1>5 DEF SignIn
  <2> QED
    BY <1>5, <2>4, <2>5, <2>6, <2>7 DEF SignIn
<1>6. ASSUME NEW t \in Tabs, NEW kept \in BOOLEAN, SignOut(t, kept) PROVE TypeOK'
  BY <1>6 DEF SignOut, lockouts
<1>7. ASSUME NEW t \in Tabs, WrongPassword(t) PROVE TypeOK'
  <2>1. form[t].user \in Users
    BY <1>7, StepIsPending DEF WrongPassword, Steps
  <2>2. form' \in [Tabs -> [step : Steps, user : Users] \cup {Idle}]
    <3>1. "counted" \in Steps
          /\ form' = [form EXCEPT ![t] = [step |-> "counted", user |-> form[t].user]]
      BY <1>7 DEF WrongPassword, Steps
    <3> QED
      BY <2>1, <3>1, FormStep
  <2>3. attempts' \in [Users -> [count : Nat, until : Nat]]
    BY <1>7, <2>1 DEF WrongPassword
  <2>4. slipped' \in [Users -> Nat]
    BY <1>7, <2>1 DEF WrongPassword
  <2> QED
    BY <1>7, <2>2, <2>3, <2>4 DEF WrongPassword, session
<1>8. ASSUME NEW t \in Tabs, FinishFailure(t) PROVE TypeOK'
  <2>1. form[t].user \in Users
    BY <1>8, StepIsPending DEF FinishFailure, Steps
  <2>2. attempts' \in [Users -> [count : Nat, until : Nat]]
    BY <1>8, <2>1 DEF FinishFailure
  <2>3. slipped' \in [Users -> Nat]
    BY <1>8, <2>1 DEF FinishFailure
  <2> QED
    BY <1>8, <2>2, <2>3 DEF FinishFailure, session
<1>9. ASSUME NEW t \in Tabs, Restore(t) PROVE TypeOK'
  <2>1. form[t].user \in Users
    BY <1>9, StepIsPending DEF Restore, Steps
  <2> QED
    BY <1>9, <2>1 DEF Restore
<1>10. ASSUME NEW t \in Tabs, RestoreRefused(t) \/ Reload(t) PROVE TypeOK'
  BY <1>10 DEF RestoreRefused, Reload, lockouts
<1>11. ASSUME NEW t \in Tabs, Look(t) PROVE TypeOK'
  <2>1. form[t].user \in Users
    BY <1>11, StepIsPending DEF Look, Steps
  <2>2. form' \in [Tabs -> [step : Steps, user : Users] \cup {Idle}]
    <3>1. PICK step \in Steps : form' = [form EXCEPT ![t] = [step |-> step, user |-> form[t].user]]
      BY <1>11 DEF Look, Steps
    <3> QED
      BY <2>1, <3>1, FormStep
  <2> QED
    BY <1>11, <2>2 DEF Look, session
<1>12. ASSUME NEW t \in Tabs, ReadCookie(t) PROVE TypeOK'
  <2>1. sent[t].user \in Users
    BY <1>12 DEF ReadCookie, Restorable, Token
  <2>2. form' \in [Tabs -> [step : Steps, user : Users] \cup {Idle}]
    <3>1. "restoring" \in Steps
          /\ form' = [form EXCEPT ![t] = [step |-> "restoring", user |-> sent[t].user]]
      BY <1>12 DEF ReadCookie, Steps
    <3> QED
      BY <2>1, <3>1, FormStep
  <2> QED
    BY <1>12, <2>2 DEF ReadCookie, session
<1> QED
  BY <1>1, <1>2, <1>3, <1>4, <1>5, <1>6, <1>7, <1>8, <1>9, <1>10, <1>11, <1>12, TabActs

-----------------------------------------------------------------------------
(* Types of the desk.                                                      *)
Link == [campaign : Campaigns, until : Nat, used : BOOLEAN]

LEMMA LinkFields ==
  ASSUME links \in Seq(Link), NEW i \in DOMAIN links
  PROVE  /\ links[i] \in Link /\ links[i].campaign \in Campaigns
         /\ links[i].until \in Nat /\ links[i].used \in BOOLEAN
<1>1. links[i] \in Link
  OBVIOUS
<1> QED
  BY <1>1 DEF Link

LEMMA SpentLinks ==
  ASSUME links \in Seq(Link), NEW c \in Campaigns
  PROVE  /\ Spent(c) \in Seq(Link)
         /\ DOMAIN Spent(c) = DOMAIN links
         /\ \A i \in DOMAIN links :
              /\ Spent(c)[i].campaign = links[i].campaign
              /\ Spent(c)[i].until = links[i].until
              /\ links[i].campaign # c => Spent(c)[i] = links[i]
<1>1. ASSUME NEW i \in DOMAIN links
      PROVE  /\ Spent(c)[i] \in Link
             /\ Spent(c)[i].campaign = links[i].campaign
             /\ Spent(c)[i].until = links[i].until
             /\ links[i].campaign # c => Spent(c)[i] = links[i]
  <2>1. CASE links[i].campaign = c
    <3>1. Spent(c)[i] = [campaign |-> c, until |-> links[i].until, used |-> TRUE]
      BY <2>1 DEF Spent
    <3>2. TRUE \in BOOLEAN
      OBVIOUS
    <3> QED
      BY <2>1, <3>1, <3>2, LinkFields DEF Link
  <2>2. CASE links[i].campaign # c
    <3>1. Spent(c)[i] = links[i]
      BY <2>2 DEF Spent
    <3> QED
      BY <2>2, <3>1, LinkFields
  <2> QED
    BY <2>1, <2>2
<1>2. DOMAIN links = 1..Len(links) /\ Len(links) \in Nat
  OBVIOUS
<1>3. Spent(c) = [i \in 1..Len(links) |-> Spent(c)[i]]
  BY <1>2 DEF Spent
<1>4. \A i \in 1..Len(links) : Spent(c)[i] \in Link
  BY <1>1, <1>2
<1>5. Spent(c) \in Seq(Link)
  <2>1. Spent(c) \in [1..Len(links) -> Link]
    BY <1>3, <1>4
  <2> QED
    BY <1>2, <2>1, SeqDef
<1>6. DOMAIN Spent(c) = DOMAIN links
  BY DEF Spent
<1> QED
  BY <1>1, <1>5, <1>6

(* What a new link adds to the others.                                     *)
LEMMA IssuedLinks ==
  ASSUME DeskTypeOK, NEW c \in Campaigns, Issue(c)
  PROVE  /\ links' \in Seq(Link)
         /\ \A i \in DOMAIN links' :
              \/ i \in DOMAIN links /\ links'[i] = links[i]
              \/ links'[i].campaign = c /\ ~links'[i].used
<1> DEFINE new == [campaign |-> c, until |-> now + LinkTTL, used |-> FALSE]
<1>1. links \in Seq(Link) /\ now \in Nat
  BY AccountsAssumption DEF DeskTypeOK, TypeOK, Time, Link
<1>2. now + LinkTTL \in Nat
  BY <1>1, DeskAssumption
<1>3. FALSE \in BOOLEAN
  OBVIOUS
<1>4. new \in Link
  BY <1>2, <1>3 DEF Link
<1>5. Spent(c) \in Seq(Link) /\ DOMAIN Spent(c) = DOMAIN links
  BY <1>1, SpentLinks
<1>6. \A i \in DOMAIN links : Spent(c)[i] = links[i]
  BY <1>1, SpentLinks DEF Issue
<1>7. links' = Append(Spent(c), new)
  BY DEF Issue
<1>8. new.campaign = c /\ ~new.used
  OBVIOUS
<1> HIDE DEF new
<1>9. /\ links' \in Seq(Link)
      /\ \A i \in DOMAIN links' :
           \/ i \in DOMAIN Spent(c) /\ links'[i] = Spent(c)[i]
           \/ links'[i] = new
  BY <1>4, <1>5, <1>7
<1> QED
  BY <1>5, <1>6, <1>8, <1>9

LEMMA StatusMoves ==
  /\ CanTransition("DRAFT", "AWAITING_APPROVAL")
  /\ ~CanTransition("AWAITING_APPROVAL", "AWAITING_APPROVAL")
  /\ ~CanTransition("APPROVED", "AWAITING_APPROVAL")
  /\ ~CanTransition("REJECTED", "AWAITING_APPROVAL")
BY DEF CanTransition, Transitions, CampaignStatus

-----------------------------------------------------------------------------
(* Links: one that exists belongs to a campaign that left its draft, and a *)
(* spent one to a campaign that is decided.                                *)
Decided == {"APPROVED", "REJECTED"}

LinksFollow ==
  /\ status \in [Campaigns -> Decided \cup {"DRAFT", "AWAITING_APPROVAL"}]
  /\ \A i \in DOMAIN links :
       /\ status[links[i].campaign] # "DRAFT"
       /\ links[i].used => status[links[i].campaign] \in Decided
  /\ told # None /\ told.verdict = "used" => status[told.campaign] \in Decided

LEMMA SubmitFollows ==
  ASSUME DeskTypeOK, LinksFollow, NEW c \in Campaigns, Submit(c)
  PROVE  DeskTypeOK' /\ LinksFollow'
<1>1. status[c] = "DRAFT"
  BY StatusMoves DEF Submit, LinksFollow, Decided
<1>2. status' = [status EXCEPT ![c] = "AWAITING_APPROVAL"] /\ links' = links /\ told' = told
      /\ by' = by /\ UNCHANGED accounts
  BY DEF Submit
<1>3. status' \in [Campaigns -> Decided \cup {"DRAFT", "AWAITING_APPROVAL"}]
      /\ status' \in [Campaigns -> CampaignStatus \cup NoRow]
  BY <1>2 DEF LinksFollow, DeskTypeOK, CampaignStatus
<1>4. TypeOK'
  BY <1>2 DEF DeskTypeOK, TypeOK, Time, accounts, session, lockouts
<1>5. DeskTypeOK'
  BY <1>2, <1>3, <1>4 DEF DeskTypeOK
<1>6. \A i \in DOMAIN links : links[i].campaign \in Campaigns /\ links[i].campaign # c
  <2>1. links \in Seq(Link)
    BY DEF DeskTypeOK, Link
  <2> QED
    BY <1>1, <2>1, LinkFields DEF LinksFollow
<1>7. told # None /\ told.verdict = "used" => told.campaign # c /\ told.campaign \in Campaigns
  BY <1>1 DEF LinksFollow, DeskTypeOK, Decided
<1> QED
  BY <1>2, <1>3, <1>5, <1>6, <1>7 DEF LinksFollow

LEMMA IssueFollows ==
  ASSUME DeskTypeOK, LinksFollow, NEW c \in Campaigns, Issue(c)
  PROVE  DeskTypeOK' /\ LinksFollow'
<1>1. UNCHANGED accounts /\ status' = status /\ by' = by /\ told' = told /\ status[c] # "DRAFT"
  BY DEF Issue
<1>2. TypeOK'
  BY <1>1 DEF DeskTypeOK, TypeOK, Time, accounts, session, lockouts
<1>3. DeskTypeOK'
  BY <1>1, <1>2, IssuedLinks DEF DeskTypeOK, Link
<1> QED
  BY <1>1, <1>3, IssuedLinks DEF LinksFollow

LEMMA OpenFollows ==
  ASSUME DeskTypeOK, LinksFollow, NEW t \in Tabs, NEW i \in DOMAIN links, OpenLink(t, i)
  PROVE  DeskTypeOK' /\ LinksFollow'
<1>1. /\ UNCHANGED accounts /\ status' = status /\ by' = by /\ links' = links
      /\ told' = [campaign |-> links[i].campaign, verdict |-> Verdict(links[i])]
  BY DEF OpenLink
<1>2. TypeOK'
  BY <1>1 DEF DeskTypeOK, TypeOK, Time, accounts, session, lockouts
<1>3. links \in Seq(Link)
  BY DEF DeskTypeOK, Link
<1>4. Verdict(links[i]) \in Verdicts /\ (Verdict(links[i]) = "used" => links[i].used)
  BY DEF Verdict, Verdicts
<1>5. DeskTypeOK'
  BY <1>1, <1>2, <1>3, <1>4, LinkFields DEF DeskTypeOK
<1> QED
  BY <1>1, <1>4, <1>5 DEF LinksFollow

LEMMA DecideFollows ==
  ASSUME DeskTypeOK, LinksFollow, NEW t \in Tabs, NEW c \in Campaigns,
         NEW d \in Decided, Decide(t, c, d)
  PROVE  DeskTypeOK' /\ LinksFollow'
<1>1. /\ UNCHANGED accounts /\ status' = [status EXCEPT ![c] = d]
      /\ by' = [by EXCEPT ![c] = user[t]] /\ links' = Spent(c) /\ told' = None
  BY DEF Decide
<1>2. TypeOK'
  BY <1>1 DEF DeskTypeOK, TypeOK, Time, accounts, session, lockouts
<1>3. status' \in [Campaigns -> Decided \cup {"DRAFT", "AWAITING_APPROVAL"}]
      /\ status' \in [Campaigns -> CampaignStatus \cup NoRow]
  BY <1>1 DEF LinksFollow, DeskTypeOK, CampaignStatus, Decided
<1>4. links \in Seq(Link)
  BY DEF DeskTypeOK, Link
<1>5. user[t] \in Users
  BY DeskAssumption DEF Decide
<1>6. DeskTypeOK'
  BY <1>1, <1>2, <1>3, <1>4, <1>5, SpentLinks DEF DeskTypeOK, Link
<1>7. ASSUME NEW i \in DOMAIN links
      PROVE  /\ status'[links'[i].campaign] # "DRAFT"
             /\ links'[i].used => status'[links'[i].campaign] \in Decided
  <2>1. links'[i].campaign = links[i].campaign /\ links[i].campaign \in Campaigns
    BY <1>1, <1>4, SpentLinks, LinkFields
  <2>2. CASE links[i].campaign = c
    BY <1>1, <2>1, <2>2 DEF LinksFollow, Decided
  <2>3. CASE links[i].campaign # c
    <3>1. links'[i] = links[i] /\ status'[links[i].campaign] = status[links[i].campaign]
      BY <1>1, <1>4, <2>1, <2>3, SpentLinks DEF LinksFollow
    <3> QED
      BY <3>1 DEF LinksFollow
  <2> QED
    BY <2>2, <2>3
<1> QED
  BY <1>1, <1>3, <1>4, <1>6, <1>7, SpentLinks DEF LinksFollow

LEMMA AccountsFollow ==
  ASSUME DeskTypeOK, LinksFollow, AccountsStep
  PROVE  DeskTypeOK' /\ LinksFollow'
<1>1. status' = status /\ by' = by /\ links' = links /\ told' = told
  BY DEF AccountsStep, desk
<1> QED
  BY <1>1, AccountTypes DEF DeskTypeOK, LinksFollow, AccountsStep

LEMMA StepFollows ==
  ASSUME DeskTypeOK, LinksFollow, DeskNext \/ UNCHANGED vars
  PROVE  DeskTypeOK' /\ LinksFollow'
<1>1. CASE DeskStep
  BY <1>1, SubmitFollows, IssueFollows, OpenFollows, DecideFollows DEF DeskStep, Decided
<1>2. CASE UNCHANGED vars
  BY <1>2 DEF DeskTypeOK, TypeOK, Time, LinksFollow, vars, accounts, desk, session, lockouts
<1> QED
  BY <1>1, <1>2, AccountsFollow DEF DeskNext, AccountsStep

LEMMA StartFollows == DeskInit => DeskTypeOK /\ LinksFollow
<1> SUFFICES ASSUME DeskInit PROVE DeskTypeOK /\ LinksFollow
  OBVIOUS
<1>1. TypeOK
  BY AccountsAssumption DEF DeskInit, Init, TypeOK, Time
<1> QED
  BY <1>1 DEF DeskInit, DeskTypeOK, LinksFollow, CampaignStatus

(* Accounts, sessions, links and decisions keep their types.               *)
THEOREM TypeCorrect == DeskSpec => []DeskTypeOK
<1>1. DeskTypeOK /\ LinksFollow /\ [DeskNext]_vars => (DeskTypeOK /\ LinksFollow)'
  BY StepFollows
<1> QED
  BY <1>1, StartFollows, PTL DEF DeskSpec

(* The link of a pending campaign works until it expires, and only decided *)
(* campaigns are reported as already used.                                 *)
THEOREM LinksWork == DeskSpec => []PendingKeepsItsLink
<1>1. DeskTypeOK /\ LinksFollow /\ [DeskNext]_vars => (DeskTypeOK /\ LinksFollow)'
  BY StepFollows
<1>2. LinksFollow => PendingKeepsItsLink
  BY DEF LinksFollow, PendingKeepsItsLink, Live, Decided
<1> QED
  BY <1>1, <1>2, StartFollows, PTL DEF DeskSpec

-----------------------------------------------------------------------------
(* Accounts that are turned off: whoever still holds one held it when it    *)
(* was turned off.  What is held is a session or a row read as active, for *)
(* the session begins later and asks no more.                              *)
HeldEarly ==
  \A t \in Tabs, u \in Users : Holds(t, u) /\ account[u] = "off" => t \in early

(* A tab fills in a form or restores a cookie only while nobody is signed  *)
(* in there, so that it never holds two accounts.                          *)
OneAtATime == \A t \in Tabs : user[t] = None \/ form[t] = Idle

LEMMA StaysOne ==
  ASSUME TypeOK, OneAtATime, Next
  PROVE  OneAtATime'
<1> USE DEF TypeOK, OneAtATime
<1>1. CASE UNCHANGED <<user, form>>
  BY <1>1
<1>2. ASSUME NEW t \in Tabs, NEW u \in Users, BeginLogin(t, u) PROVE OneAtATime'
  BY <1>2 DEF BeginLogin, session
<1>3. ASSUME NEW t \in Tabs, NEW kept \in BOOLEAN, SignIn(t, kept) PROVE OneAtATime'
  BY <1>3 DEF SignIn
<1>4. ASSUME NEW t \in Tabs, NEW kept \in BOOLEAN, SignOut(t, kept) PROVE OneAtATime'
  BY <1>4 DEF SignOut, lockouts
<1>5. ASSUME NEW t \in Tabs, Look(t) PROVE OneAtATime'
  <2>1. user[t] = None
    BY <1>5 DEF Look, Idle
  <2> QED
    BY <1>5, <2>1 DEF Look, session
<1>6. ASSUME NEW t \in Tabs, WrongPassword(t) PROVE OneAtATime'
  <2>1. user[t] = None
    BY <1>6 DEF WrongPassword, Idle
  <2> QED
    BY <1>6, <2>1 DEF WrongPassword, session
<1>7. ASSUME NEW t \in Tabs, FinishFailure(t) PROVE OneAtATime'
  BY <1>7 DEF FinishFailure, session
<1>8. ASSUME NEW t \in Tabs, ReadCookie(t) PROVE OneAtATime'
  BY <1>8 DEF ReadCookie, session
<1>9. ASSUME NEW t \in Tabs, Restore(t) PROVE OneAtATime'
  BY <1>9 DEF Restore
<1>10. ASSUME NEW t \in Tabs, Reload(t) PROVE OneAtATime'
  BY <1>10 DEF Reload, lockouts
<1> QED
  BY <1>1, <1>2, <1>3, <1>4, <1>5, <1>6, <1>7, <1>8, <1>9, <1>10, TabActs
     DEF Tick, CreateUser, Toggle, RestoreRefused, session, lockouts

(* A tab that holds nothing it did not hold before, and no less early.     *)
LEMMA HoldsNoMore ==
  ASSUME HeldEarly, account' = account,
         \A t \in Tabs, u \in Users : Holds(t, u)' => Holds(t, u),
         \A t \in Tabs : t \in early => t \in early' \/ \A u \in Users : ~Holds(t, u)'
  PROVE  HeldEarly'
BY DEF HeldEarly

(* What a tab holds depends on nothing but its user and its form.          *)
LEMMA FormHolds ==
  ASSUME TypeOK, NEW t \in Tabs, user[t] = None, user' = user, NEW step, NEW v,
         form' = [form EXCEPT ![t] = [step |-> step, user |-> v]]
  PROVE  /\ \A s \in Tabs \ {t}, u \in Users : Holds(s, u)' <=> Holds(s, u)
         /\ \A u \in Users : Holds(t, u)' => v = u /\ step \in {"found", "restoring"}
BY AccountsAssumption DEF TypeOK, Holds

LEMMA UserHolds ==
  ASSUME TypeOK, NEW t \in Tabs, form' = form, form[t] = Idle,
         user' = [user EXCEPT ![t] = None]
  PROVE  /\ \A s \in Tabs \ {t}, u \in Users : Holds(s, u)' <=> Holds(s, u)
         /\ \A u \in Users : ~Holds(t, u)'
<1>1. \A u \in Users : ~(None = u \/ (Idle.user = u /\ Idle.step \in {"found", "restoring"}))
  BY AccountsAssumption DEF Idle
<1> QED
  BY <1>1 DEF TypeOK, Holds

LEMMA StaysOut ==
  ASSUME TypeOK, OneAtATime, HeldEarly, Next
  PROVE  HeldEarly'
<1>a. \A u \in Users : u # None
  BY AccountsAssumption
<1>b. \A u \in Users : ~(None = u \/ (Idle.user = u /\ Idle.step \in {"found", "restoring"}))
  BY <1>a DEF Idle
<1>1. CASE Tick
  BY <1>1 DEF Tick, session, lockouts, HeldEarly, Holds
<1>2. ASSUME NEW t \in Tabs, NEW u \in Users, BeginLogin(t, u) PROVE HeldEarly'
  <2>1. /\ form' = [form EXCEPT ![t] = [step |-> "asked", user |-> u]]
        /\ user' = user /\ user[t] = None /\ account' = account /\ early' = early
    BY <1>2 DEF BeginLogin, session
  <2>2. \A s \in Tabs \ {t}, v \in Users : Holds(s, v)' <=> Holds(s, v)
    BY <2>1, FormHolds
  <2>a. \A v \in Users : Holds(t, v)' => u = v /\ "asked" \in {"found", "restoring"}
    BY <2>1, FormHolds
  <2>3. \A v \in Users : ~Holds(t, v)'
    BY <2>a
  <2> QED
    BY <2>1, <2>2, <2>3, HoldsNoMore
<1>3. ASSUME NEW t \in Tabs, NEW u \in Users, CreateUser(t, u) PROVE HeldEarly'
  BY <1>3 DEF CreateUser, session, lockouts, HeldEarly, Holds, TypeOK
<1>4. ASSUME NEW t \in Tabs, NEW u \in Users, Toggle(t, u) PROVE HeldEarly'
  <2>1. \A s \in Tabs, v \in Users : Holds(s, v)' <=> Holds(s, v)
    BY <1>4 DEF Toggle, session, lockouts, Holds
  <2> SUFFICES ASSUME NEW s \in Tabs, NEW v \in Users, Holds(s, v), account'[v] = "off"
               PROVE  s \in early'
    BY <2>1 DEF HeldEarly
  <2>2. CASE v = u
    BY <1>4, <2>2 DEF Toggle, TypeOK
  <2>3. CASE v # u
    <3>1. account[v] = "off" /\ s \in early
      BY <1>4, <2>3 DEF Toggle, TypeOK, HeldEarly
    <3>2. ~Holds(s, u)
      <4>1. user[s] = None \/ form[s] = Idle
        BY DEF OneAtATime
      <4> QED
        BY <1>a, <1>b, <2>3, <4>1 DEF Holds
    <3> QED
      BY <1>4, <3>1, <3>2 DEF Toggle
  <2> QED
    BY <2>2, <2>3
<1>5. ASSUME NEW t \in Tabs, NEW kept \in BOOLEAN, SignIn(t, kept) PROVE HeldEarly'
  <2>1. /\ account' = account /\ early' = early
        /\ user' = [user EXCEPT ![t] = form[t].user] /\ form[t].step = "found"
        /\ \A s \in Tabs : form'[s] = form[s] \/ form'[s] = Idle
        /\ form'[t] = Idle
    BY <1>5 DEF SignIn
  <2>2. ASSUME NEW s \in Tabs, NEW v \in Users, Holds(s, v)' PROVE Holds(s, v)
    <3>1. CASE s = t
      <4>1. user'[t] = form[t].user
        BY <2>1 DEF TypeOK
      <4> QED
        BY <1>b, <2>1, <2>2, <3>1, <4>1 DEF Holds
    <3>2. CASE s # t
      <4>1. user'[s] = user[s]
        BY <2>1, <3>2 DEF TypeOK
      <4> QED
        BY <1>b, <2>1, <2>2, <4>1 DEF Holds
    <3> QED
      BY <3>1, <3>2
  <2> QED
    BY <2>1, <2>2, HoldsNoMore
<1>6. ASSUME NEW t \in Tabs, NEW kept \in BOOLEAN, SignOut(t, kept) PROVE HeldEarly'
  <2>1. /\ account' = account /\ early' = early \ {t} /\ form' = form
        /\ user' = [user EXCEPT ![t] = None] /\ form[t] = Idle
    BY <1>6 DEF SignOut, lockouts, OneAtATime
  <2>2. /\ \A s \in Tabs \ {t}, v \in Users : Holds(s, v)' <=> Holds(s, v)
        /\ \A v \in Users : ~Holds(t, v)'
    BY <2>1, UserHolds
  <2> QED
    BY <2>1, <2>2, HoldsNoMore
<1>7. ASSUME NEW t \in Tabs, Look(t) PROVE HeldEarly'
  <2>1. PICK step \in {"found", "unknown"} :
             /\ form' = [form EXCEPT ![t] = [step |-> step, user |-> form[t].user]]
             /\ step = "found" => account[form[t].user] = "active"
    BY <1>7 DEF Look
  <2>2. user' = user /\ account' = account /\ early' = early /\ form[t] # Idle /\ user[t] = None
    BY <1>7 DEF Look, session, Idle, OneAtATime
  <2>3. ASSUME NEW s \in Tabs, NEW v \in Users, Holds(s, v)', account'[v] = "off"
        PROVE  s \in early'
    <3>1. CASE s = t
      <4>a. \A w \in Users : Holds(t, w)' => form[t].user = w /\ step \in {"found", "restoring"}
        BY <2>1, <2>2, FormHolds
      <4>1. form[t].user = v /\ step = "found"
        BY <2>3, <3>1, <4>a
      <4> QED
        BY <2>1, <2>2, <2>3, <4>1
    <3>2. CASE s # t
      <4>1. Holds(s, v)
        BY <2>1, <2>2, <2>3, <3>2, FormHolds
      <4> QED
        BY <2>2, <2>3, <4>1 DEF HeldEarly
    <3> QED
      BY <3>1, <3>2
  <2> QED
    BY <2>3 DEF HeldEarly
<1>8. ASSUME NEW t \in Tabs, WrongPassword(t) PROVE HeldEarly'
  <2>1. /\ form' = [form EXCEPT ![t] = [step |-> "counted", user |-> form[t].user]]
        /\ user' = user /\ account' = account /\ early' = early \ {t} /\ user[t] = None
    BY <1>8 DEF WrongPassword, session, Idle, OneAtATime
  <2>2. \A s \in Tabs \ {t}, v \in Users : Holds(s, v)' <=> Holds(s, v)
    BY <2>1, FormHolds
  <2>a. \A v \in Users : Holds(t, v)' => form[t].user = v /\ "counted" \in {"found", "restoring"}
    BY <2>1, FormHolds
  <2>3. \A v \in Users : ~Holds(t, v)'
    BY <2>a
  <2> QED
    BY <2>1, <2>2, <2>3, HoldsNoMore
<1>9. ASSUME NEW t \in Tabs, FinishFailure(t) PROVE HeldEarly'
  <2>1. /\ form' = [form EXCEPT ![t] = [step |-> "idle", user |-> None]]
        /\ user' = user /\ account' = account /\ early' = early /\ user[t] = None
    BY <1>9 DEF FinishFailure, session, Idle, OneAtATime
  <2>2. \A s \in Tabs \ {t}, v \in Users : Holds(s, v)' <=> Holds(s, v)
    BY <2>1, FormHolds
  <2>a. \A v \in Users : Holds(t, v)' => None = v /\ "idle" \in {"found", "restoring"}
    BY <2>1, FormHolds
  <2>3. \A v \in Users : ~Holds(t, v)'
    BY <2>a
  <2> QED
    BY <2>1, <2>2, <2>3, HoldsNoMore
<1>10. ASSUME NEW t \in Tabs, ReadCookie(t) PROVE HeldEarly'
  <2>1. /\ form' = [form EXCEPT ![t] = [step |-> "restoring", user |-> sent[t].user]]
        /\ user' = user /\ account' = account /\ early' = early
        /\ user[t] = None /\ account[sent[t].user] = "active"
    BY <1>10 DEF ReadCookie, Restorable, session
  <2>2. ASSUME NEW s \in Tabs, NEW v \in Users, Holds(s, v)', account'[v] = "off"
        PROVE  s \in early'
    <3>1. CASE s = t
      <4>1. sent[t].user = v
        BY <2>1, <2>2, <3>1, FormHolds
      <4> QED
        BY <2>1, <2>2, <4>1
    <3>2. CASE s # t
      <4>1. Holds(s, v)
        BY <2>1, <2>2, <3>2, FormHolds
      <4> QED
        BY <2>1, <2>2, <4>1 DEF HeldEarly
    <3> QED
      BY <3>1, <3>2
  <2> QED
    BY <2>2 DEF HeldEarly
<1>11. ASSUME NEW t \in Tabs, Restore(t) PROVE HeldEarly'
  <2>1. /\ form' = [form EXCEPT ![t] = Idle] /\ user' = [user EXCEPT ![t] = form[t].user]
        /\ account' = account /\ early' = early /\ form[t].step = "restoring"
    BY <1>11 DEF Restore
  <2>2. \A s \in Tabs, v \in Users : Holds(s, v)' => Holds(s, v)
    BY <1>b, <2>1 DEF Holds, TypeOK
  <2> QED
    BY <2>1, <2>2, HoldsNoMore
<1>12. ASSUME NEW t \in Tabs, RestoreRefused(t) PROVE HeldEarly'
  BY <1>12 DEF RestoreRefused, lockouts, HeldEarly, Holds
<1>13. ASSUME NEW t \in Tabs, Reload(t) PROVE HeldEarly'
  <2>1. /\ account' = account /\ early' = early \ {t} /\ form' = form
        /\ user' = [user EXCEPT ![t] = None] /\ form[t] = Idle
    BY <1>13 DEF Reload, lockouts
  <2>2. /\ \A s \in Tabs \ {t}, v \in Users : Holds(s, v)' <=> Holds(s, v)
        /\ \A v \in Users : ~Holds(t, v)'
    BY <2>1, UserHolds
  <2> QED
    BY <2>1, <2>2, HoldsNoMore
<1> QED
  BY <1>1, <1>2, <1>3, <1>4, <1>5, <1>6, <1>7, <1>8, <1>9, <1>10, <1>11, <1>12, <1>13, TabActs

(* Once an account is off, no session of its begins in a tab that had not  *)
(* read its row before.                                                    *)
THEOREM OffStaysOut == DeskSpec => []OffAccountsStayOut
<1> DEFINE Inv == OneAtATime /\ HeldEarly
<1>1. DeskInit => Inv
  BY AccountsAssumption DEF DeskInit, Init, OneAtATime, HeldEarly, Holds, Idle
<1>2. DeskTypeOK /\ Inv /\ [DeskNext]_vars => Inv'
  <2> SUFFICES ASSUME DeskTypeOK, Inv, DeskNext \/ UNCHANGED vars
               PROVE  Inv'
    OBVIOUS
  <2>1. CASE UNCHANGED accounts
    BY <2>1 DEF accounts, session, lockouts, OneAtATime, HeldEarly, Holds
  <2>2. DeskStep => UNCHANGED accounts
    BY DEF DeskStep, Submit, Issue, OpenLink, Decide
  <2> QED
    BY <2>1, <2>2, StaysOne, StaysOut DEF DeskNext, DeskTypeOK, vars
<1>3. DeskTypeOK /\ Inv => OffAccountsStayOut
  BY DEF DeskTypeOK, TypeOK, HeldEarly, Holds, OffAccountsStayOut
<1> QED
  BY <1>1, <1>2, <1>3, TypeCorrect, PTL DEF DeskSpec

-----------------------------------------------------------------------------
(* Lockouts: the guesses verified in a lockout and those that may still be *)
(* are no more than the tabs, less the one whose failure set the lock.     *)
Verifying(u) ==
  {t \in Tabs : form[t].user = u /\ form[t].step \in {"asked", "found", "unknown"}}

Guesses == \A u \in Users :
  /\ slipped[u] <= Cardinality(Tabs) - 1
  /\ Locked(u) => slipped[u] + Cardinality(Verifying(u)) <= Cardinality(Tabs) - 1

LEMMA FewVerify ==
  /\ Cardinality(Tabs) \in Nat \ {0}
  /\ \A u \in Users : IsFiniteSet(Verifying(u)) /\ Cardinality(Verifying(u)) \in Nat
  /\ \A S, T \in SUBSET Tabs : S \subseteq T => Cardinality(S) <= Cardinality(T)
  /\ \A S \in SUBSET Tabs : Cardinality(S) \in Nat
<1>1. \A S \in SUBSET Tabs : IsFiniteSet(S) /\ Cardinality(S) \in Nat
  BY AccountsAssumption, FS_Subset, FS_CardinalityType
<1>2. Cardinality(Tabs) # 0
  BY AccountsAssumption, FS_EmptySet
<1>3. \A S, T \in SUBSET Tabs : S \subseteq T => Cardinality(S) <= Cardinality(T)
  BY <1>1, FS_Subset
<1>4. \A u \in Users : Verifying(u) \in SUBSET Tabs
  BY DEF Verifying
<1> QED
  BY <1>1, <1>2, <1>3, <1>4

(* What keeps the lock, the guesses and the verifying tabs of a user, or   *)
(* only lets go of some, keeps the bound.                                  *)
LEMMA FewerGuesses ==
  ASSUME TypeOK, Guesses, NEW u \in Users, slipped'[u] = slipped[u],
         Locked(u)' => Locked(u) /\ Verifying(u)' \subseteq Verifying(u)
  PROVE  /\ slipped'[u] <= Cardinality(Tabs) - 1
         /\ Locked(u)' => slipped'[u] + Cardinality(Verifying(u)') <= Cardinality(Tabs) - 1
<1>1. Locked(u)' => Cardinality(Verifying(u)') <= Cardinality(Verifying(u))
                    /\ Cardinality(Verifying(u)') \in Nat
  BY FewVerify DEF Verifying
<1> QED
  BY <1>1, FewVerify DEF Guesses, TypeOK

(* A tab leaves the forms that verify a password of u, or was not there.   *)
LEMMA LeavesForm ==
  ASSUME TypeOK, NEW u \in Users, NEW f,
         f.user # u \/ f.step \notin {"asked", "found", "unknown"}, NEW t \in Tabs,
         form' = [form EXCEPT ![t] = f]
  PROVE  Verifying(u)' = Verifying(u) \ {t}
BY DEF TypeOK, Verifying

LEMMA WrongGuesses ==
  ASSUME TypeOK, Guesses, NEW t \in Tabs, WrongPassword(t)
  PROVE  Guesses'
<1>0. PICK v \in Users : v = form[t].user
  BY StepIsPending DEF WrongPassword, Steps
<1>1. v \in Users /\ t \in Verifying(v) /\ now' = now
  BY <1>0 DEF WrongPassword, Verifying
<1>2. \A u \in Users : Verifying(u)' = Verifying(u) \ {t}
  <2>1. form' = [form EXCEPT ![t] = [step |-> "counted", user |-> v]]
    BY <1>0 DEF WrongPassword
  <2> QED
    BY <2>1, LeavesForm
<1>3. \A u \in Users : Locked(u)' <=> Locked(u)
  <2>1. \A u \in Users : attempts'[u].until = attempts[u].until
    BY <1>0, <1>1 DEF WrongPassword, TypeOK
  <2> QED
    BY <1>1, <2>1 DEF Locked
<1>4. ASSUME NEW u \in Users, u # v
      PROVE  /\ slipped'[u] <= Cardinality(Tabs) - 1
             /\ Locked(u)' => slipped'[u] + Cardinality(Verifying(u)') <= Cardinality(Tabs) - 1
  <2>1. slipped'[u] = slipped[u]
    BY <1>0, <1>1, <1>4 DEF WrongPassword, TypeOK
  <2> QED
    BY <2>1, <1>2, <1>3, FewerGuesses
<1>5. CASE ~Locked(v)
  <2>1. slipped'[v] = slipped[v]
    BY <1>0, <1>1, <1>5 DEF WrongPassword, TypeOK
  <2>2. /\ slipped'[v] <= Cardinality(Tabs) - 1
        /\ Locked(v)' => slipped'[v] + Cardinality(Verifying(v)') <= Cardinality(Tabs) - 1
    BY <1>1, <1>2, <1>3, <2>1, FewerGuesses
  <2> QED
    BY <1>4, <2>2 DEF Guesses
<1>6. CASE Locked(v)
  <2>1. slipped'[v] = slipped[v] + 1
    BY <1>0, <1>1, <1>6 DEF WrongPassword, TypeOK
  <2>2. t \in Verifying(v)
    BY <1>1
  <2>3. Cardinality(Verifying(v)') = Cardinality(Verifying(v)) - 1
    BY <1>1, <1>2, <2>2, FewVerify, FS_RemoveElement
  <2>4. PICK s \in Nat, c \in Nat, n \in Nat :
          s = slipped[v] /\ c = Cardinality(Verifying(v)) /\ n = Cardinality(Tabs)
    BY <1>1, FewVerify DEF TypeOK
  <2>5. s + c <= n - 1
    BY <1>1, <1>6, <2>4 DEF Guesses
  <2>6. c # 0
    <3>1. IsFiniteSet(Verifying(v)) /\ Verifying(v) # {}
      BY <1>1, <2>2, FewVerify
    <3> QED
      BY <2>4, <3>1, FS_EmptySet
  <2>7. /\ slipped'[v] <= Cardinality(Tabs) - 1
        /\ slipped'[v] + Cardinality(Verifying(v)') <= Cardinality(Tabs) - 1
    BY <2>1, <2>3, <2>4, <2>5, <2>6
  <2> QED
    BY <1>4, <2>7 DEF Guesses
<1> QED
  BY <1>5, <1>6

LEMMA FailureGuesses ==
  ASSUME TypeOK, Guesses, NEW t \in Tabs, FinishFailure(t)
  PROVE  Guesses'
<1>0. PICK v \in Users : v = form[t].user
  BY StepIsPending DEF FinishFailure, Steps
<1>1. v \in Users /\ now' = now
  BY DEF FinishFailure
<1>2. \A u \in Users : Verifying(u)' = Verifying(u) \ {t}
  <2>1. Idle.step \notin {"asked", "found", "unknown"}
    BY DEF Idle
  <2> QED
    BY <2>1, LeavesForm DEF FinishFailure
<1>3. ASSUME NEW u \in Users, slipped'[u] = slipped[u], attempts'[u] = attempts[u]
      PROVE  /\ slipped'[u] <= Cardinality(Tabs) - 1
             /\ Locked(u)' => slipped'[u] + Cardinality(Verifying(u)') <= Cardinality(Tabs) - 1
  BY <1>1, <1>2, <1>3, FewerGuesses DEF Locked
<1>4. CASE attempts[v].count >= MaxAttempts
  <2>1. slipped'[v] = 0
    BY <1>0, <1>1, <1>4 DEF FinishFailure, TypeOK
  <2>2. \A u \in Users \ {v} : slipped'[u] = slipped[u] /\ attempts'[u] = attempts[u]
    BY <1>0, <1>1, <1>4 DEF FinishFailure, TypeOK
  <2>3. /\ Cardinality(Verifying(v)') <= Cardinality(Tabs) - 1
        /\ Cardinality(Verifying(v)') \in Nat
    <3>1. Cardinality(Tabs \ {t}) = Cardinality(Tabs) - 1
      BY AccountsAssumption, FS_RemoveElement
    <3>2. Verifying(v)' \subseteq Tabs \ {t}
      BY <1>1, <1>2 DEF Verifying
    <3> QED
      BY <3>1, <3>2, FewVerify
  <2>4. /\ slipped'[v] <= Cardinality(Tabs) - 1
        /\ slipped'[v] + Cardinality(Verifying(v)') <= Cardinality(Tabs) - 1
    BY <2>1, <2>3, FewVerify
  <2> QED
    BY <1>3, <2>2, <2>4 DEF Guesses
<1>5. CASE ~(attempts[v].count >= MaxAttempts)
  BY <1>0, <1>3, <1>5 DEF FinishFailure, Guesses
<1> QED
  BY <1>4, <1>5

LEMMA StepGuesses ==
  ASSUME TypeOK, Guesses, Next
  PROVE  Guesses'
<1>1. CASE Tick
  <2>1. ASSUME NEW u \in Users, Locked(u)' PROVE Locked(u)
    <3>1. now \in Nat /\ attempts[u].until \in Nat /\ now' = now + 1 /\ attempts' = attempts
      BY <1>1, AccountsAssumption DEF Tick, TypeOK, Time, lockouts
    <3> QED
      BY <2>1, <3>1 DEF Locked
  <2>2. form' = form /\ slipped' = slipped
    BY <1>1 DEF Tick, lockouts
  <2>3. \A u \in Users : Verifying(u)' = Verifying(u)
    BY <2>2 DEF Verifying
  <2> QED
    BY <2>1, <2>2, <2>3, FewerGuesses DEF Guesses
<1>2. ASSUME NEW t \in Tabs, NEW v \in Users, BeginLogin(t, v) PROVE Guesses'
  <2> SUFFICES ASSUME NEW u \in Users
               PROVE  Locked(u)' => Locked(u) /\ Verifying(u)' \subseteq Verifying(u)
    BY <1>2, FewerGuesses DEF Guesses, BeginLogin
  <2>1. Locked(u)' => Locked(u)
    BY <1>2 DEF BeginLogin, Locked
  <2>2. CASE u = v
    BY <1>2, <2>1, <2>2 DEF BeginLogin
  <2>3. CASE u # v
    <3>1. form' = [form EXCEPT ![t] = [step |-> "asked", user |-> v]]
      BY <1>2 DEF BeginLogin
    <3>2. Verifying(u)' = Verifying(u) \ {t}
      BY <2>3, <3>1, LeavesForm
    <3> QED
      BY <2>1, <3>2
  <2> QED
    BY <2>2, <2>3
<1>3. ASSUME NEW t \in Tabs, NEW kept \in BOOLEAN, SignIn(t, kept) PROVE Guesses'
  <2>1. form[t].user \in Users
    BY <1>3, StepIsPending DEF SignIn, Steps
  <2> SUFFICES ASSUME NEW u \in Users
               PROVE  Locked(u)' => Locked(u) /\ Verifying(u)' \subseteq Verifying(u)
    BY <1>3, FewerGuesses DEF Guesses, SignIn
  <2>2. CASE u = form[t].user
    <3>1. attempts'[u].until = 0 /\ now' \in Nat
      BY <1>3, <2>1, <2>2, AccountsAssumption DEF SignIn, TypeOK, Time
    <3> QED
      BY <3>1 DEF Locked
  <2>3. CASE u # form[t].user
    <3>1. Locked(u)' <=> Locked(u)
      BY <1>3, <2>1, <2>3 DEF SignIn, TypeOK, Locked
    <3>2. \A s \in Tabs : form'[s] = Idle \/ form'[s] = form[s]
      BY <1>3 DEF SignIn
    <3>3. Idle.step \notin {"asked", "found", "unknown"}
      BY DEF Idle
    <3>4. Verifying(u)' \subseteq Verifying(u)
      BY <3>2, <3>3 DEF Verifying
    <3> QED
      BY <3>1, <3>4
  <2> QED
    BY <2>2, <2>3
<1>4. CASE UNCHANGED <<now, lockouts>>
  BY <1>4 DEF lockouts, Guesses, Locked, Verifying
<1>5. ASSUME NEW t \in Tabs, UNCHANGED <<now, attempts, slipped>>,
             \A u \in Users : Verifying(u)' \subseteq Verifying(u)
      PROVE  Guesses'
  <2>1. \A u \in Users : slipped'[u] = slipped[u] /\ (Locked(u)' => Locked(u))
    BY <1>5 DEF Locked
  <2> QED
    BY <1>5, <2>1, FewerGuesses DEF Guesses
<1>6. ASSUME NEW t \in Tabs, Look(t) PROVE Guesses'
  <2>1. PICK step \in {"found", "unknown"} :
             form' = [form EXCEPT ![t] = [step |-> step, user |-> form[t].user]]
    BY <1>6 DEF Look
  <2>2. \A u \in Users : Verifying(u)' \subseteq Verifying(u)
    BY <1>6, <2>1 DEF Look, TypeOK, Verifying
  <2> QED
    BY <1>5, <1>6, <2>2 DEF Look
<1>7. ASSUME NEW t \in Tabs, ReadCookie(t) PROVE Guesses'
  <2>1. form' = [form EXCEPT ![t] = [step |-> "restoring", user |-> sent[t].user]]
    BY <1>7 DEF ReadCookie
  <2>2. \A u \in Users : Verifying(u)' = Verifying(u) \ {t}
    BY <2>1, LeavesForm
  <2> QED
    BY <1>5, <1>7, <2>2 DEF ReadCookie
<1>8. ASSUME NEW t \in Tabs, Restore(t) PROVE Guesses'
  <2>1. Idle.step \notin {"asked", "found", "unknown"}
    BY DEF Idle
  <2>2. \A u \in Users : Verifying(u)' = Verifying(u) \ {t}
    BY <1>8, <2>1, LeavesForm DEF Restore
  <2> QED
    BY <1>5, <1>8, <2>2 DEF Restore
<1> QED
  BY <1>1, <1>2, <1>3, <1>4, <1>6, <1>7, <1>8, WrongGuesses, FailureGuesses, TabActs
     DEF CreateUser, Toggle, SignOut, RestoreRefused, Reload

(* With n tabs, at most n - 1 wrong passwords are verified in a lockout.   *)
THEOREM LockoutWorks == DeskSpec => []LockoutHolds
<1>1. DeskInit => Guesses
  <2> SUFFICES ASSUME DeskInit PROVE Guesses
    OBVIOUS
  <2>1. \A u \in Users : slipped[u] = 0 /\ ~Locked(u)
    BY DEF DeskInit, Init, Locked
  <2> QED
    BY <2>1, FewVerify DEF Guesses
<1>2. DeskTypeOK /\ Guesses /\ [DeskNext]_vars => Guesses'
  <2> SUFFICES ASSUME DeskTypeOK, Guesses, DeskNext \/ UNCHANGED vars
               PROVE  Guesses'
    OBVIOUS
  <2>1. CASE UNCHANGED accounts
    BY <2>1 DEF accounts, lockouts, Guesses, Locked, Verifying
  <2>2. DeskStep => UNCHANGED accounts
    BY DEF DeskStep, Submit, Issue, OpenLink, Decide
  <2> QED
    BY <2>1, <2>2, StepGuesses DEF DeskNext, DeskTypeOK, vars
<1>3. Guesses => LockoutHolds
  BY DEF Guesses, LockoutHolds
<1> QED
  BY <1>1, <1>2, <1>3, TypeCorrect, PTL DEF DeskSpec
=============================================================================
