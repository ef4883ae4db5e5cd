--------------------------- MODULE AudienceProofs ---------------------------
(***************************************************************************)
(* Audience, for every set of addresses, links, files, tabs, staff and     *)
(* loads: types, the history of opt-outs against the do-not-send list and  *)
(* against loaded lists, first clicks, and removals.                       *)
(***************************************************************************)
EXTENDS Audience, TLAPS

(* What a run of StopSending has reached, and a load has known, is on the  *)
(* do-not-send list: OptOutHolds and OptOutReachesLists made inductive.    *)
StoppedIsSuppressed ==
  \A v \in Visitors : page[v] = "stopped" => link[v].email \in suppressed
KnewIsLeft == \A r \in Loaders : knew[r] \subseteq left

OptedOut ==
  /\ TypeOK /\ StoppedIsSuppressed
  /\ OptOutHolds /\ KnewIsLeft /\ OptOutReachesLists

LEMMA TypeInit == Init => TypeOK
  BY DEF Init, TypeOK, Membership, PageState, DeskState, LoadPC

LEMMA RowsTyped ==
  ASSUME TypeOK, NEW E \in SUBSET Addresses, NEW b \in BOOLEAN, AddMany(E, b)
  PROVE  subscriber' \in [Addresses -> Membership] /\ removed' \subseteq Addresses
  BY DEF TypeOK, AddMany, Membership

LEMMA DropTyped ==
  ASSUME TypeOK, NEW a \in Addresses, Drop(a)
  PROVE  subscriber' \in [Addresses -> Membership] /\ removed' \subseteq Addresses
  BY DEF TypeOK, Drop, Membership

LEMMA LinkedAddress ==
  ASSUME TypeOK, NEW v \in Visitors
  PROVE  link[v] \in Links /\ link[v].email \in Addresses
  BY AudienceAssumption DEF TypeOK

LEMMA VisitTyped ==
  ASSUME TypeOK, NEW v \in Visitors, VisitorStep(v)
  PROVE  TypeOK'
  <1> USE DEF TypeOK, PageState, Shows
  <1>0. link[v] \in Links /\ link[v].email \in Addresses
    BY LinkedAddress
  <1>1. ASSUME NEW l \in Links, OpenLink(v, l) PROVE TypeOK'
    BY <1>1 DEF OpenLink, tables, desks, loads, told
  <1>2. CASE CloseTab(v)
    BY <1>2 DEF CloseTab, tables, desks, loads, told
  <1>3. CASE Record(v)
    BY <1>0, <1>3 DEF Record, desks, loads
  <1>4. CASE StopSending(v)
    BY <1>0, <1>4 DEF StopSending, desks, loads, told
  <1>5. CASE Deactivate(v)
    <2>1. subscriber' \in [Addresses -> Membership] /\ removed' \subseteq Addresses
      <3>1. CASE Drop(link[v].email)
        BY <1>0, <3>1, DropTyped
      <3>2. CASE UNCHANGED <<subscriber, removed>>
        BY <3>2
      <3> QED
        BY <1>5, <3>1, <3>2 DEF Deactivate
    <2> QED
      BY <1>0, <1>5, <2>1 DEF Deactivate, desks, loads
  <1>6. CASE Thank(v)
    BY <1>6 DEF Thank, tables, desks, loads, told
  <1>7. CASE Interrupt(v)
    BY <1>7 DEF Interrupt, tables, desks, loads, told
  <1> QED
    BY <1>1, <1>2, <1>3, <1>4, <1>5, <1>6, <1>7 DEF VisitorStep

LEMMA DeskTyped ==
  ASSUME TypeOK, NEW s \in Staff, StaffStep(s)
  PROVE  TypeOK'
  <1> USE DEF TypeOK, DeskState
  <1>1. ASSUME NEW f \in Files, StartImport(s, f) PROVE TypeOK'
    BY <1>1, AudienceAssumption DEF StartImport, Sendable, tables, visits, loads, told
  <1>2. ASSUME NEW a \in Addresses, StartAdd(s, a) PROVE TypeOK'
    BY <1>2 DEF StartAdd, tables, visits, loads, told
  <1>3. CASE WriteRows(s)
    <2>1. subscriber' \in [Addresses -> Membership] /\ removed' \subseteq Addresses
      <3>1. hand[s] \in SUBSET Addresses /\ (desk[s] = "adding") \in BOOLEAN
        OBVIOUS
      <3>2. AddMany(hand[s], desk[s] = "adding")
        BY <1>3 DEF WriteRows
      <3> QED
        BY <3>1, <3>2, RowsTyped
    <2> QED
      BY <1>3, <2>1 DEF WriteRows, visits, loads, told
  <1>4. CASE GiveUp(s)
    BY <1>4 DEF GiveUp, tables, visits, loads, told
  <1> QED
    BY <1>1, <1>2, <1>3, <1>4 DEF StaffStep

LEMMA LoadTyped ==
  ASSUME TypeOK, NEW r \in Loaders, LoadStep(r)
  PROVE  TypeOK'
  <1> USE DEF TypeOK, LoadPC, Holds
  <1>1. CASE BeginLoad(r)
    BY <1>1 DEF BeginLoad, Active, tables, visits, desks, told
  <1>2. CASE NoFile(r)
    BY <1>2 DEF NoFile, tables, visits, desks, told
  <1>3. CASE Seed(r)
    <2>1. subscriber' \in [Addresses -> Membership] /\ removed' \subseteq Addresses
      BY <1>3, RowsTyped DEF Seed
    <2> QED
      BY <1>3, <2>1 DEF Seed, visits, desks, told
  <1>4. CASE ReadAgain(r)
    BY <1>4 DEF ReadAgain, Active, tables, visits, desks, told
  <1>5. CASE Validate(r)
    BY <1>5 DEF Validate, Sendable, tables, visits, desks, told
  <1>6. CASE AttachList(r)
    BY <1>6 DEF AttachList, tables, visits, desks, told
  <1>7. ASSUME NEW f \in Files, Bootstrap(r, f) PROVE TypeOK'
    BY <1>7, AudienceAssumption DEF Bootstrap, Sendable, tables, visits, desks, told
  <1>8. ASSUME NEW f \in Files, Upload(r, f) PROVE TypeOK'
    BY <1>8, AudienceAssumption DEF Upload, tables, visits, desks, told
  <1> QED
    BY <1>1, <1>2, <1>3, <1>4, <1>5, <1>6, <1>7, <1>8 DEF LoadStep

LEMMA TypeStep == TypeOK /\ [Next]_vars => TypeOK'
  <1> SUFFICES ASSUME TypeOK, [Next]_vars PROVE TypeOK'
    OBVIOUS
  <1>1. CASE UNCHANGED vars
    BY <1>1 DEF TypeOK, vars, tables, visits, desks, loads, told
  <1>2. ASSUME NEW v \in Visitors, VisitorStep(v) PROVE TypeOK'
    BY <1>2, VisitTyped
  <1>3. ASSUME NEW s \in Staff, StaffStep(s) PROVE TypeOK'
    BY <1>3, DeskTyped
  <1>4. ASSUME NEW r \in Loaders, LoadStep(r) PROVE TypeOK'
    BY <1>4, LoadTyped
  <1>5. ASSUME NEW a \in Addresses, Remove(a) PROVE TypeOK'
    BY <1>5, DropTyped DEF Remove, TypeOK, visits, desks, loads, told
  <1>6. ASSUME NEW a \in Addresses, Restore(a) PROVE TypeOK'
    BY <1>6 DEF Restore, TypeOK, Membership, visits, desks, loads, told
  <1> QED
    BY <1>1, <1>2, <1>3, <1>4, <1>5, <1>6 DEF Next

(* Every variable keeps its type; no load holds an empty validated list.   *)
THEOREM TypeCorrect == Spec => []TypeOK
  BY TypeInit, TypeStep, PTL DEF Spec

-----------------------------------------------------------------------------
(* Opt-outs: `suppressed` and `left` only grow, and what else changes in   *)
(* `page`, `pc`, `list` and `knew` is checked against them.                *)
LEMMA OptedOutInit == Init => OptedOut
  BY TypeInit
     DEF Init, OptedOut, StoppedIsSuppressed, OptOutHolds, KnewIsLeft, OptOutReachesLists

LEMMA VisitOptsOut ==
  ASSUME OptedOut, NEW v \in Visitors, VisitorStep(v)
  PROVE  StoppedIsSuppressed' /\ OptOutHolds' /\ KnewIsLeft' /\ OptOutReachesLists'
  <1> USE DEF OptedOut, TypeOK, StoppedIsSuppressed, OptOutHolds, KnewIsLeft,
              OptOutReachesLists, Shows
  <1>1. ASSUME NEW l \in Links, OpenLink(v, l) PROVE StoppedIsSuppressed'
    BY <1>1 DEF OpenLink, tables
  <1>2. ASSUME NEW l \in Links, OpenLink(v, l)
        PROVE  OptOutHolds' /\ KnewIsLeft' /\ OptOutReachesLists'
    BY <1>2 DEF OpenLink, tables, loads, told
  <1>3. CASE CloseTab(v)
    BY <1>3 DEF CloseTab, tables, loads, told
  <1>4. CASE Record(v)
    BY <1>4 DEF Record, loads
  <1>5. CASE StopSending(v)
    BY <1>5 DEF StopSending, loads, told
  <1>6. CASE Deactivate(v)
    BY <1>6 DEF Deactivate, loads
  <1>7. CASE Thank(v)
    BY <1>7 DEF Thank, tables, loads, told
  <1>8. CASE Interrupt(v)
    BY <1>8 DEF Interrupt, tables, loads, told
  <1> QED
    BY <1>1, <1>2, <1>3, <1>4, <1>5, <1>6, <1>7, <1>8 DEF VisitorStep

LEMMA DeskOptsOut ==
  ASSUME OptedOut, NEW s \in Staff, StaffStep(s)
  PROVE  StoppedIsSuppressed' /\ OptOutHolds' /\ KnewIsLeft' /\ OptOutReachesLists'
  BY DEF OptedOut, StoppedIsSuppressed, OptOutHolds, KnewIsLeft, OptOutReachesLists,
         StaffStep, StartImport, StartAdd, WriteRows, GiveUp, tables, visits, loads, told

(* A load learns only what has been told; what it then validates holds     *)
(* nobody who is suppressed, hence nobody it knows to have left.           *)
LEMMA LoadOptsOut ==
  ASSUME OptedOut, NEW r \in Loaders, LoadStep(r)
  PROVE  StoppedIsSuppressed' /\ OptOutHolds' /\ KnewIsLeft' /\ OptOutReachesLists'
  <1> USE DEF OptedOut, TypeOK, StoppedIsSuppressed, OptOutHolds, KnewIsLeft,
              OptOutReachesLists, Holds
  <1>1. CASE BeginLoad(r)
    BY <1>1 DEF BeginLoad, tables, visits, told
  <1>2. CASE NoFile(r)
    BY <1>2 DEF NoFile, tables, visits, told
  <1>3. CASE Seed(r)
    BY <1>3 DEF Seed, visits, told
  <1>4. CASE ReadAgain(r)
    BY <1>4 DEF ReadAgain, tables, visits, told
  <1>5. CASE Validate(r)
    BY <1>5 DEF Validate, Sendable, tables, visits, told
  <1>6. CASE AttachList(r)
    BY <1>6 DEF AttachList, tables, visits, told
  <1>7. ASSUME NEW f \in Files, Bootstrap(r, f)
        PROVE  StoppedIsSuppressed' /\ OptOutHolds' /\ KnewIsLeft' /\ OptOutReachesLists'
    BY <1>7 DEF Bootstrap, tables, visits, told
  <1>8. ASSUME NEW f \in Files, Upload(r, f)
        PROVE  StoppedIsSuppressed' /\ OptOutHolds' /\ KnewIsLeft' /\ OptOutReachesLists'
    BY <1>8 DEF Upload, tables, visits, told
  <1> QED
    BY <1>1, <1>2, <1>3, <1>4, <1>5, <1>6, <1>7, <1>8 DEF LoadStep

LEMMA OptedOutStep == OptedOut /\ [Next]_vars => OptedOut'
  <1> SUFFICES ASSUME OptedOut, [Next]_vars PROVE OptedOut'
    OBVIOUS
  <1>1. TypeOK'
    BY TypeStep DEF OptedOut
  <1>2. StoppedIsSuppressed' /\ OptOutHolds' /\ KnewIsLeft' /\ OptOutReachesLists'
    <2> USE DEF OptedOut, StoppedIsSuppressed, OptOutHolds, KnewIsLeft, OptOutReachesLists
    <2>1. CASE UNCHANGED vars
      BY <2>1 DEF vars, tables, visits, loads, told
    <2>2. CASE \E v \in Visitors : VisitorStep(v)
      BY <2>2, VisitOptsOut
    <2>3. CASE \E s \in Staff : StaffStep(s)
      BY <2>3, DeskOptsOut
    <2>4. CASE \E r \in Loaders : LoadStep(r)
      BY <2>4, LoadOptsOut
    <2>5. CASE \E a \in Addresses : Remove(a) \/ Restore(a)
      BY <2>5 DEF Remove, Restore, visits, loads, told
    <2> QED
      BY <2>1, <2>2, <2>3, <2>4, <2>5 DEF Next
  <1> QED
    BY <1>1, <1>2 DEF OptedOut

(* A confirmed unsubscribe holds for good, whatever was interrupted.       *)
THEOREM OptOutIsFinal == Spec => []OptOutHolds
  <1>1. OptedOut => OptOutHolds
    BY DEF OptedOut
  <1> QED
    BY <1>1, OptedOutInit, OptedOutStep, PTL DEF Spec

(* No list about to be attached has an address whose unsubscribe was       *)
(* confirmed before its load began.                                        *)
THEOREM ListsRespectOptOuts == Spec => []OptOutReachesLists
  <1>1. OptedOut => OptOutReachesLists
    BY DEF OptedOut
  <1> QED
    BY <1>1, OptedOutInit, OptedOutStep, PTL DEF Spec

-----------------------------------------------------------------------------
(* The unique constraint on email_events decides which click is the first. *)
Clicked == TypeOK /\ FirstTimeOnce

LEMMA ClickedStep == Clicked /\ [Next]_vars => Clicked'
  <1> SUFFICES ASSUME Clicked, [Next]_vars PROVE FirstTimeOnce'
    BY TypeStep DEF Clicked
  <1> USE DEF Clicked, FirstTimeOnce, TypeOK
  <1>1. CASE UNCHANGED <<events, firsts>>
    BY <1>1
  <1>2. ASSUME NEW v \in Visitors, Record(v) PROVE FirstTimeOnce'
    BY <1>2 DEF Record
  <1>3. (\E v \in Visitors : Record(v)) \/ UNCHANGED <<events, firsts>>
    BY DEF Next, vars, tables, told, VisitorStep, OpenLink, CloseTab, StopSending,
           Deactivate, Thank, Interrupt, StaffStep, StartImport, StartAdd, WriteRows,
           GiveUp, LoadStep, BeginLoad, NoFile, Seed, ReadAgain, Validate, AttachList,
           Bootstrap, Upload, Remove, Restore
  <1> QED
    BY <1>1, <1>2, <1>3

(* One click per link counts, in however many tabs it is made.             *)
THEOREM OneFirstClick == Spec => []FirstTimeOnce
  <1>1. Init => Clicked
    BY TypeInit DEF Clicked, Init, FirstTimeOnce
  <1>2. Clicked => FirstTimeOnce
    BY DEF Clicked
  <1> QED
    BY <1>1, <1>2, ClickedStep, PTL DEF Spec

-----------------------------------------------------------------------------
(* Removals: only an addition or a restore by name revives a removed row.  *)
Gone == TypeOK /\ RemovedStaysRemoved

LEMMA GoneStep == Gone /\ [Next]_vars => Gone'
  <1> SUFFICES ASSUME Gone, [Next]_vars PROVE RemovedStaysRemoved'
    BY TypeStep DEF Gone
  <1> USE DEF Gone, RemovedStaysRemoved, TypeOK
  <1>1. CASE UNCHANGED <<subscriber, removed>>
    BY <1>1
  <1>2. ASSUME NEW E \in SUBSET Addresses, NEW b \in BOOLEAN, AddMany(E, b)
        PROVE  RemovedStaysRemoved'
    BY <1>2 DEF AddMany
  <1>3. ASSUME NEW a \in Addresses, Drop(a) PROVE RemovedStaysRemoved'
    BY <1>3 DEF Drop
  <1>4. ASSUME NEW s \in Staff, WriteRows(s) PROVE RemovedStaysRemoved'
    <2>1. hand[s] \in SUBSET Addresses /\ (desk[s] = "adding") \in BOOLEAN
      OBVIOUS
    <2>2. AddMany(hand[s], desk[s] = "adding")
      BY <1>4 DEF WriteRows
    <2> QED
      BY <1>2, <2>1, <2>2
  <1>5. ASSUME NEW r \in Loaders, Seed(r) PROVE RemovedStaysRemoved'
    BY <1>2, <1>5 DEF Seed
  <1>6. ASSUME NEW v \in Visitors, Deactivate(v) PROVE RemovedStaysRemoved'
    BY <1>1, <1>3, <1>6, LinkedAddress DEF Deactivate
  <1>7. ASSUME NEW a \in Addresses, Remove(a) \/ Restore(a) PROVE RemovedStaysRemoved'
    BY <1>3, <1>7 DEF Remove, Restore
  <1>8. \/ UNCHANGED <<subscriber, removed>>
        \/ \E s \in Staff : WriteRows(s)
        \/ \E r \in Loaders : Seed(r)
        \/ \E v \in Visitors : Deactivate(v)
        \/ \E a \in Addresses : Remove(a) \/ Restore(a)
    BY DEF Next, vars, tables, VisitorStep, OpenLink, CloseTab, Record, StopSending,
           Thank, Interrupt, StaffStep, StartImport, StartAdd, GiveUp,
           LoadStep, BeginLoad, NoFile, ReadAgain, Validate, AttachList,
           Bootstrap, Upload
  <1> QED
    BY <1>1, <1>4, <1>5, <1>6, <1>7, <1>8

(* No import or bootstrap brings back whoever was removed.                 *)
THEOREM RemovalsHold == Spec => []RemovedStaysRemoved
  <1>1. Init => Gone
    BY TypeInit DEF Gone, Init, RemovedStaysRemoved
  <1>2. Gone => RemovedStaysRemoved
    BY DEF Gone
  <1> QED
    BY <1>1, <1>2, GoneStep, PTL DEF Spec
=============================================================================
