--------------------------- MODULE SettingsProofs ---------------------------
(***************************************************************************)
(* Theorems about the settings and the heartbeat (Settings, AgentStatus),  *)
(* for every set of threads, keys, inputs, versions and validators.        *)
(*                                                                         *)
(* Layers is the inductive core of LayersAgree: what a call under way on a *)
(* key nobody else is busy with still knows of both layers.  Beats is that *)
(* of NoFalseAlarm: how old the heartbeat of a working worker can be at    *)
(* each point of its schedule.                                             *)
(*                                                                         *)
(* The brand is the settings that go out in mails: the last part is about  *)
(* those mails (Mailing), for every edit of the brand under way.           *)
(***************************************************************************)
EXTENDS AgentStatus, TLAPS

(* What the call of thread t knows.                                        *)
Ongoing(t) ==
  /\ edit[t].value \in Accepts[version][edit[t].key]
  /\ edit[t].previous \in Accepts[version][edit[t].key]
  /\ edit[t].step = "removed" => edit[t].value = Env[edit[t].key]
  /\ edit[t].alone =>
       /\ \A x \in Threads \ {t} : ~Busy(x, edit[t].key)
       /\ edit[t].step = "applied" => live[edit[t].key] = edit[t].value
       /\ edit[t].step = "removed" => saved[edit[t].key] = None
       /\ edit[t].step = "applied" /\ edit[t].key \notin apart /\ Plain(edit[t].key) =>
            edit[t].previous = Applied(saved, version)[edit[t].key]

Shape ==
  /\ LayersType
  /\ live \in [Keys -> Values]

Layers ==
  /\ Shape
  /\ \A t \in Threads : edit[t] # Quiet => Ongoing(t)
  /\ LayersAgree

(* Rows a release may read: those of the table, or none.                   *)
Rows == [Keys -> Values \cup {None}]

LEMMA AppliedAccepted ==
  ASSUME NEW s \in Rows, NEW r \in Versions
  PROVE  /\ Applied(s, r) \in [Keys -> Values]
         /\ \A k \in Keys : Applied(s, r)[k] \in Accepts[r][k]
<1>1. \A k \in Keys : Applied(s, r)[k] \in Accepts[r][k]
  BY SettingsAssumption DEF Applied, Assigned
<1> QED
  BY <1>1 DEF Applied, Values

(* What an assignment leaves is accepted when what it found was.           *)
LEMMA AssignedAccepted ==
  ASSUME NEW r \in Versions, NEW k \in Keys, NEW old \in Accepts[r][k], NEW v
  PROVE  Assigned(r, k, old, v) \in Accepts[r][k]
BY DEF Assigned

(* What is in force of a key that its validators leave alone can be        *)
(* assigned again, and stays what it is.                                   *)
LEMMA AppliedStays ==
  ASSUME saved \in Rows, version \in Versions, NEW k \in Keys, Plain(k)
  PROVE  /\ Normal[k][Applied(saved, version)[k]] = Applied(saved, version)[k]
         /\ Applied(saved, version)[k] \in Accepts[version][k]
<1>1. Applied(saved, version)[k] \in {Env[k], saved[k]}
  BY DEF Applied, Assigned, Plain
<1>2. Applied(saved, version)[k] = saved[k] /\ saved[k] = None => Applied(saved, version)[k] = Env[k]
  BY DEF Applied
<1> QED
  BY <1>1, <1>2, AppliedAccepted DEF Plain

LEMMA EditIsCall ==
  ASSUME LayersType, NEW t \in Threads, edit[t] # Quiet
  PROVE  /\ edit[t] \in Edit
         /\ edit[t].key \in Keys /\ edit[t].value \in Values
         /\ edit[t].previous \in Values /\ edit[t].alone \in BOOLEAN
         /\ edit[t].step \in {"applied", "removed"}
BY DEF LayersType, Edit

-----------------------------------------------------------------------------
(* A call begins: what it knows, and what the others keep or lose.         *)
LEMMA Begun ==
  ASSUME Layers, NEW t \in Threads, NEW k \in Keys,
         NEW to \in {"applied", "removed"}, NEW v \in Accepts[version][k],
         Begin(t, k, to, v)
  PROVE  /\ edit' \in [Threads -> Edit \cup {Quiet}]
         /\ edits' \in 0..MaxEdits
         /\ edit[t] = Quiet
         /\ edit'[t] # Quiet
         /\ edit'[t].step = to /\ edit'[t].key = k /\ edit'[t].value = v
         /\ edit'[t].previous = live[k]
         /\ edit'[t].alone => \A x \in Threads \ {t} : ~Busy(x, k)
         /\ \A x \in Threads \ {t} :
              /\ edit[x] = Quiet <=> edit'[x] = Quiet
              /\ edit[x] # Quiet =>
                   /\ edit'[x].step = edit[x].step
                   /\ edit'[x].key = edit[x].key
                   /\ edit'[x].value = edit[x].value
                   /\ edit'[x].previous = edit[x].previous
                   /\ edit'[x].alone => edit[x].alone /\ edit[x].key # k
<1> DEFINE others == {x \in Threads : Busy(x, k)}
           mine == [step |-> to, key |-> k, value |-> v, previous |-> live[k],
                    alone |-> others = {}]
<1>1. version \in Versions /\ v \in Values /\ live[k] \in Values
  BY DEF Layers, Shape, LayersType, Values
<1>2. mine \in Edit /\ mine # Quiet
  <2>1. (others = {}) \in BOOLEAN
    OBVIOUS
  <2> QED
    BY <1>1, <2>1 DEF Edit, Quiet
<1>3. edit[t] = Quiet /\ t \notin others
  BY DEF Begin, Busy
<1>4. edit' = [x \in Threads |-> CASE x = t -> mine
                 [] x \in others -> [edit[x] EXCEPT !.alone = FALSE]
                 [] OTHER -> edit[x]]
  BY DEF Begin
<1>5. edit'[t] = mine
  BY <1>3, <1>4
<1>6. ASSUME NEW x \in Threads \ {t}
      PROVE  /\ edit'[x] \in Edit \cup {Quiet}
             /\ edit[x] = Quiet <=> edit'[x] = Quiet
             /\ edit[x] # Quiet =>
                  /\ edit'[x].step = edit[x].step
                  /\ edit'[x].key = edit[x].key
                  /\ edit'[x].value = edit[x].value
                  /\ edit'[x].previous = edit[x].previous
                  /\ edit'[x].alone => edit[x].alone /\ edit[x].key # k
  <2>1. edit[x] \in Edit \cup {Quiet}
    BY DEF Layers, Shape, LayersType
  <2>2. CASE x \in others
    <3>1. edit'[x] = [edit[x] EXCEPT !.alone = FALSE]
      BY <1>4, <2>2
    <3>2. edit[x] # Quiet /\ edit[x] \in Edit
      BY <2>1, <2>2 DEF Busy
    <3> QED
      BY <3>1, <3>2 DEF Edit, Quiet
  <2>3. CASE x \notin others
    <3>1. edit'[x] = edit[x]
      BY <1>4, <2>3
    <3>2. edit[x] # Quiet => edit[x].key # k
      BY <2>3 DEF Busy
    <3> QED
      BY <2>1, <3>1, <3>2
  <2> QED
    BY <2>2, <2>3
<1>7. edit' \in [Threads -> Edit \cup {Quiet}]
  <2>1. \A x \in Threads : edit'[x] \in Edit \cup {Quiet}
    <3> HIDE DEF mine, others
    <3> QED
      BY <1>2, <1>5, <1>6
  <2>2. edit' = [x \in Threads |-> edit'[x]]
    BY <1>4
  <2> QED
    BY <2>1, <2>2
<1>8. edits' \in 0..MaxEdits
  BY SettingsAssumption DEF Begin, Layers, Shape, LayersType
<1>9. mine.alone => \A x \in Threads \ {t} : ~Busy(x, k)
  OBVIOUS
<1> QED
  BY <1>2, <1>3, <1>5, <1>6, <1>7, <1>8, <1>9

(* The call of t ends: nothing changes for the others.                     *)
LEMMA Ended ==
  ASSUME Layers, NEW t \in Threads, edit[t] # Quiet,
         edit' = [edit EXCEPT ![t] = Quiet]
  PROVE  /\ edit' \in [Threads -> Edit \cup {Quiet}]
         /\ edit'[t] = Quiet
         /\ \A x \in Threads \ {t} : edit'[x] = edit[x]
BY DEF Layers, Shape, LayersType

-----------------------------------------------------------------------------
(* The beginning of either call preserves Layers.                          *)
LEMMA BeginKeepsLayers ==
  ASSUME Layers, NEW t \in Threads, NEW k \in Keys,
         NEW to \in {"applied", "removed"}, NEW v \in Accepts[version][k],
         Begin(t, k, to, v), UNCHANGED <<version, apart>>,
         \/ /\ to = "applied"
            /\ live' = [live EXCEPT ![k] = v] /\ UNCHANGED saved
         \/ /\ to = "removed" /\ v = Env[k]
            /\ saved' = [saved EXCEPT ![k] = None] /\ UNCHANGED live
  PROVE  Layers'
<1> USE DEF Layers, Shape
<1>1. version \in Versions /\ v \in Values
  BY DEF LayersType, Values
<1>2. /\ live' \in [Keys -> Values] /\ saved' \in [Keys -> Values \cup {None}]
      /\ \A q \in Keys : live'[q] \in Accepts[version][q]
  BY <1>1 DEF LayersType
<1>3. \A q \in Keys \ {k} : live'[q] = live[q] /\ saved'[q] = saved[q]
  BY DEF LayersType
<1>4. /\ to = "applied" => live'[k] = v /\ saved' = saved
      /\ to = "removed" => saved'[k] = None
  BY DEF LayersType
<1>5. \A q \in Keys \ {k} :
        /\ Applied(saved', version)[q] = Applied(saved, version)[q]
        /\ Plain(q)' <=> Plain(q)
  BY <1>3 DEF Applied, Assigned, Plain
<1>6. Shape'
  BY <1>2, Begun DEF LayersType
<1>7. ASSUME NEW x \in Threads, edit'[x] # Quiet
      PROVE  Ongoing(x)'
  <2>1. CASE x = t
    <3>1. live[k] \in Accepts[version][k]
      BY DEF LayersType
    <3>2. edit'[t].alone => \A y \in Threads \ {t} : ~Busy(y, k)'
      BY Begun DEF Busy
    <3>3. edit'[t].alone /\ k \notin apart /\ Plain(k) => live[k] = Applied(saved, version)[k]
      <4>1. edit'[t].alone => \A y \in Threads : ~Busy(y, k)
        BY Begun DEF Busy
      <4> QED
        BY <4>1 DEF LayersAgree, Settled
    <3>4. to = "applied" => (Plain(k)' <=> Plain(k))
      BY <1>4 DEF Plain
    <3> QED
      BY <2>1, <3>1, <3>2, <3>3, <3>4, <1>4, Begun DEF Ongoing
  <2>2. CASE x # t
    <3>1. edit[x] # Quiet /\ Ongoing(x) /\ edit[x].key \in Keys
      BY <2>2, <1>7, Begun, EditIsCall
    <3>2. /\ edit'[x].step = edit[x].step /\ edit'[x].key = edit[x].key
          /\ edit'[x].value = edit[x].value /\ edit'[x].previous = edit[x].previous
          /\ edit'[x].alone => edit[x].alone /\ edit[x].key # k
      BY <2>2, <3>1, Begun
    <3>3. ASSUME edit'[x].alone, NEW y \in Threads \ {x}
          PROVE  ~Busy(y, edit[x].key)'
      <4>1. ~Busy(y, edit[x].key)
        BY <3>1, <3>2, <3>3 DEF Ongoing
      <4> QED
        BY <3>2, <3>3, <4>1, Begun DEF Busy
    <3> QED
      BY <3>1, <3>2, <3>3, <1>3, <1>5 DEF Ongoing
  <2> QED
    BY <2>1, <2>2
<1>8. LayersAgree'
  <2> SUFFICES ASSUME NEW q \in Keys, q \notin apart, \A x \in Threads : ~Busy(x, q)', Plain(q)'
               PROVE  live'[q] = Applied(saved', version)[q]
    BY DEF LayersAgree, Settled
  <2>1. q # k
    BY Begun DEF Busy
  <2>2. \A x \in Threads : ~Busy(x, q)
    BY Begun DEF Busy
  <2> QED
    BY <2>1, <2>2, <1>3, <1>5 DEF LayersAgree, Settled
<1> QED
  BY <1>6, <1>7, <1>8

-----------------------------------------------------------------------------
(* The end of either call preserves Layers.                                *)
LEMMA EndKeepsLayers ==
  ASSUME Layers, NEW t \in Threads, Persist(t) \/ PersistFails(t) \/ ResetLive(t)
  PROVE  Layers'
<1> DEFINE k == edit[t].key
<1> USE DEF Layers, Shape
<1>1. /\ edit[t] # Quiet /\ Ongoing(t) /\ version \in Versions
      /\ edit' = [edit EXCEPT ![t] = Quiet]
      /\ UNCHANGED <<version, edits>>
  BY DEF Persist, PersistFails, ResetLive, Finish, Quiet, LayersType
<1>2. /\ k \in Keys /\ edit[t].value \in Values /\ edit[t].previous \in Values
      /\ edit[t].value \in Accepts[version][k]
      /\ edit[t].previous \in Accepts[version][k]
  BY <1>1, EditIsCall DEF Ongoing
<1>3. /\ live' \in [Keys -> Values] /\ saved' \in [Keys -> Values \cup {None}]
      /\ \A q \in Keys \ {k} : live'[q] = live[q] /\ saved'[q] = saved[q]
      /\ live'[k] \in Accepts[version][k]
  <2>1. /\ live[k] \in Accepts[version][k]
        /\ \A v : /\ Assigned(version, k, live[k], v) \in Accepts[version][k]
                 /\ Assigned(version, k, live[k], v) \in Values
    BY <1>1, <1>2, AssignedAccepted DEF LayersType, Values
  <2>2. live' = live \/ \E v : live' = [live EXCEPT ![k] = Assigned(version, k, live[k], v)]
    BY <1>2 DEF Persist, PersistFails, ResetLive
  <2>3. saved' = saved \/ saved' = [saved EXCEPT ![k] = edit[t].value]
    BY DEF Persist, PersistFails, ResetLive
  <2>4. /\ live' \in [Keys -> Values] /\ live'[k] \in Accepts[version][k]
        /\ \A q \in Keys \ {k} : live'[q] = live[q]
    BY <1>2, <2>1, <2>2
  <2> QED
    BY <1>2, <2>3, <2>4 DEF LayersType
<1>4. \A q \in Keys \ {k} :
        /\ Applied(saved', version)[q] = Applied(saved, version)[q]
        /\ Plain(q)' <=> Plain(q)
        /\ q \in apart' <=> q \in apart
  BY <1>3 DEF Applied, Assigned, Plain, Persist, PersistFails, ResetLive, Finish
<1>5. apart' \subseteq Keys
  BY <1>2 DEF LayersType, Persist, PersistFails, ResetLive, Finish
<1>6. Shape'
  BY <1>1, <1>3, <1>5, Ended DEF LayersType
<1>7. ASSUME NEW x \in Threads, edit'[x] # Quiet
      PROVE  Ongoing(x)'
  <2>1. x # t /\ edit'[x] = edit[x] /\ edit[x] # Quiet /\ Ongoing(x) /\ edit[x].key \in Keys
    BY <1>1, <1>7, Ended, EditIsCall
  <2>2. edit[x].alone => edit[x].key # k
    BY <1>1, <2>1 DEF Ongoing, Busy
  <2>3. \A y \in Threads \ {x} : Busy(y, edit[x].key)' => Busy(y, edit[x].key)
    BY <1>1, <2>1, Ended DEF Busy
  <2> QED
    BY <1>1, <2>1, <2>2, <2>3, <1>3, <1>4 DEF Ongoing
<1>8. ASSUME k \notin apart', Normal[k][Env[k]] = Env[k],
             saved'[k] # None => Normal[k][saved'[k]] = saved'[k]
      PROVE  live'[k] = Applied(saved', version)[k]
  <2>0. None \notin Accepts[version][k]
    BY <1>1, <1>2, SettingsAssumption
  <2>1. CASE Persist(t)
    <3>1. edit[t].alone
      BY <2>1, <1>8 DEF Persist, Finish
    <3>2. live'[k] = edit[t].value /\ saved'[k] = edit[t].value
      BY <2>1, <3>1, <1>1, <1>2 DEF Persist, Ongoing, LayersType
    <3>3. edit[t].value # None /\ Normal[k][edit[t].value] = edit[t].value
      BY <3>2, <2>0, <1>2, <1>8
    <3> QED
      BY <3>2, <3>3, <1>2 DEF Applied, Assigned
  <2>2. CASE PersistFails(t)
    <3>1. edit[t].alone /\ k \notin apart /\ saved' = saved /\ edit[t].step = "applied"
      BY <2>2, <1>8 DEF PersistFails
    <3>2. Plain(k)
      BY <3>1, <1>8 DEF Plain
    <3>3. edit[t].previous = Applied(saved, version)[k]
      BY <3>1, <3>2, <1>1 DEF Ongoing
    <3>4. saved \in Rows
      BY DEF LayersType, Rows
    <3>5. Normal[k][edit[t].previous] = edit[t].previous
      BY <3>2, <3>3, <3>4, <1>1, <1>2, AppliedStays
    <3>6. live'[k] = edit[t].previous
      BY <2>2, <3>5, <1>2 DEF PersistFails, Assigned
    <3> QED
      BY <3>1, <3>3, <3>6
  <2>3. CASE ResetLive(t)
    <3>1. edit[t].alone /\ edit[t].step = "removed" /\ saved' = saved
      BY <2>3, <1>8 DEF ResetLive, Finish
    <3>2. edit[t].value = Env[k] /\ saved'[k] = None
      BY <3>1, <1>1 DEF Ongoing
    <3>3. live'[k] = Env[k]
      BY <2>3, <3>2, <1>8, <1>2 DEF ResetLive, Assigned
    <3> QED
      BY <3>2, <3>3, <1>2 DEF Applied
  <2> QED
    BY <2>1, <2>2, <2>3
<1>9. LayersAgree'
  <2> SUFFICES ASSUME NEW q \in Keys, q \notin apart', \A x \in Threads : ~Busy(x, q)', Plain(q)'
               PROVE  live'[q] = Applied(saved', version)[q]
    BY <1>1 DEF LayersAgree, Settled
  <2>1. CASE q = k
    BY <2>1, <1>8 DEF Plain
  <2>2. CASE q # k
    <3>1. \A x \in Threads : ~Busy(x, q)
      BY <2>2, <1>1, Ended DEF Busy
    <3> QED
      BY <2>2, <3>1, <1>3, <1>4 DEF LayersAgree, Settled
  <2> QED
    BY <2>1, <2>2
<1> QED
  BY <1>6, <1>7, <1>9

-----------------------------------------------------------------------------
(* A restart makes the layers agree, or says where they do not.            *)
LEMMA RestartKeepsLayers ==
  ASSUME Layers, RestartApp
  PROVE  Layers'
<1> USE DEF Layers, Shape
<1>1. PICK r \in Versions, read \in BOOLEAN :
        /\ version' = r
        /\ live' = Applied(IF read THEN saved ELSE [k \in Keys |-> None], r)
        /\ apart' = {k \in Keys : live'[k] # Applied(saved, r)[k]}
  BY DEF RestartApp
<1>2. (IF read THEN saved ELSE [k \in Keys |-> None]) \in Rows
  BY DEF Rows, LayersType
<1>3. live' \in [Keys -> Values] /\ \A k \in Keys : live'[k] \in Accepts[r][k]
  BY <1>1, <1>2, AppliedAccepted
<1>4. Shape'
  BY <1>1, <1>3 DEF RestartApp, LayersType
<1>5. \A t \in Threads : edit'[t] = Quiet
  BY DEF RestartApp
<1>6. LayersAgree'
  BY <1>1 DEF LayersAgree, Settled, RestartApp
<1> QED
  BY <1>4, <1>5, <1>6

LEMMA StepKeepsLayers ==
  ASSUME Layers, AgentNext \/ UNCHANGED vars
  PROVE  Layers'
<1>1. CASE \E t \in Threads : EditStep(t)
  <2>1. PICK t \in Threads : EditStep(t)
    BY <1>1
  <2>2. CASE SetLive(t)
    <3>1. PICK k \in Keys : \E i \in Inputs[k] :
            /\ Normal[k][i] \in Accepts[version][k]
            /\ Begin(t, k, "applied", Normal[k][i])
            /\ live' = [live EXCEPT ![k] = Normal[k][i]]
            /\ UNCHANGED <<version, saved, apart>>
      BY <2>2 DEF SetLive
    <3> QED
      BY <3>1, BeginKeepsLayers
  <2>3. CASE ResetRow(t)
    <3>1. PICK k \in Keys :
            /\ Begin(t, k, "removed", Env[k])
            /\ saved' = [saved EXCEPT ![k] = None]
            /\ UNCHANGED <<version, live, apart>>
      BY <2>3 DEF ResetRow
    <3>2. Env[k] \in Accepts[version][k]
      BY SettingsAssumption DEF Layers, Shape, LayersType
    <3> QED
      BY <3>1, <3>2, BeginKeepsLayers
  <2> QED
    BY <2>1, <2>2, <2>3, EndKeepsLayers DEF EditStep
<1>2. CASE RestartApp
  BY <1>2, RestartKeepsLayers
<1>3. CASE UNCHANGED layers
  BY <1>3 DEF layers, Layers, Shape, LayersType, Ongoing, LayersAgree, Settled, Plain, Busy
<1> QED
  BY <1>1, <1>2, <1>3 DEF AgentNext, StartWorker, EndPass, StopWorker, Tick, vars

LEMMA InitialLayers == Init => Layers
<1> SUFFICES ASSUME Init PROVE Layers
  OBVIOUS
<1>1. \A k \in Keys : Env[k] \in Accepts[1][k] /\ Env[k] \in Values
  BY SettingsAssumption DEF Values
<1>2. \A k \in Keys : Applied(saved, version)[k] = Env[k]
  BY SettingsAssumption DEF Init, Applied
<1>3. Shape
  BY <1>1, SettingsAssumption DEF Init, Shape, LayersType
<1> QED
  BY <1>2, <1>3 DEF Layers, LayersAgree, Settled, Init

(* While nobody edits a setting, the app has exactly what it would have    *)
(* after a restart, unless an overlap or a failed read parted the layers   *)
(* or a second validation would change what it has.                        *)
THEOREM LayersCorrect == AgentSpec => []LayersAgree
<1>1. AgentInit => Layers
  BY InitialLayers DEF AgentInit
<1>2. Layers /\ [AgentNext]_vars => Layers'
  BY StepKeepsLayers
<1>3. Layers => LayersAgree
  BY DEF Layers
<1> QED
  BY <1>1, <1>2, <1>3, PTL DEF AgentSpec

-----------------------------------------------------------------------------
(* The heartbeat.                                                          *)
Hours ==
  /\ worker \in {"down", "idle", "passing"}
  /\ every \in Nat \ {0} /\ due \in 1..every
  /\ spent \in 0..MaxPass
  /\ age \in Nat \cup {None}

Flags == started \in BOOLEAN /\ good \in BOOLEAN

(* A worker that recorded its last pass is never further from the next one *)
(* than its interval, and than the pass itself once that has begun.        *)
Beats ==
  /\ Hours /\ Flags
  /\ worker # "down" /\ good => age \in Nat
  /\ worker = "idle" /\ good => age + due <= every
  /\ worker = "passing" /\ good => age <= every + spent

LEMMA BoundIsNat == Layers => MaxPass \in Nat
<1> SUFFICES ASSUME Layers PROVE MaxPass \in Nat
  OBVIOUS
<1>1. Env["interval"] \in Intervals
  BY SettingsAssumption, StatusAssumption DEF Intervals
<1> QED
  BY <1>1, StatusAssumption

(* Starting, ending a pass and stopping keep the clocks in order.          *)
LEMMA WorkerKeepsBeats ==
  ASSUME Layers, Beats, StartWorker \/ EndPass \/ StopWorker
  PROVE  Beats'
<1> USE BoundIsNat DEF Beats, Hours
<1>1. CASE StartWorker
  <2>1. PICK rows \in {saved, [k \in Keys |-> None]} :
          every' = Interval(Applied(rows, version)) /\ due' = every'
    BY <1>1 DEF StartWorker
  <2>2. rows \in Rows /\ version \in Versions
    BY <2>1 DEF Rows, Layers, Shape, LayersType
  <2>3. every' \in Intervals
    BY <2>1, <2>2, AppliedAccepted, StatusAssumption DEF Interval, Intervals
  <2>4. every' \in Nat \ {0}
    BY <2>3, StatusAssumption
  <2>5. started' \in BOOLEAN
    BY <1>1 DEF StartWorker
  <2>6. worker' = "passing" /\ spent' = 0 /\ good' = FALSE /\ age' = age
    BY <1>1 DEF StartWorker
  <2>7. Hours'
    BY <2>1, <2>4, <2>6
  <2>8. Flags'
    BY <2>5, <2>6 DEF Flags
  <2> QED
    BY <2>6, <2>7, <2>8
<1>2. CASE EndPass
  <2>1. PICK recorded \in BOOLEAN :
          /\ age' = IF recorded THEN 0 ELSE age
          /\ good' = recorded
    BY <1>2 DEF EndPass
  <2>2. worker' = "idle" /\ spent' = 0 /\ UNCHANGED <<every, due, started>>
    BY <1>2 DEF EndPass
  <2>3. Flags'
    BY <2>1, <2>2 DEF Flags
  <2> QED
    BY <2>1, <2>2, <2>3
<1>3. CASE StopWorker
  <2>1. /\ worker' = "down" /\ spent' = 0 /\ good' = FALSE /\ every' = 1 /\ due' = 1
        /\ UNCHANGED <<started, age>>
    BY <1>3 DEF StopWorker
  <2>2. Hours'
    BY <2>1
  <2>3. Flags'
    BY <2>1 DEF Flags
  <2> QED
    BY <2>1, <2>2, <2>3
<1> QED
  BY <1>1, <1>2, <1>3

(* An hour passes.                                                         *)
LEMMA TickKeepsBeats ==
  ASSUME Layers, Beats, Tick
  PROVE  Beats'
<1> USE BoundIsNat DEF Beats, Hours, Flags
<1>1. /\ every' = every /\ started' = started /\ good' = good
      /\ spent' = IF worker = "passing" THEN spent + 1 ELSE 0
      /\ worker = "passing" => spent < MaxPass
  BY DEF Tick
<1>2. spent' \in 0..MaxPass
  BY <1>1
<1>3. /\ age = None => age' = None
      /\ age \in Nat => age' \in Nat /\ age' <= age + 1
  BY SettingsAssumption DEF Tick
<1>4. CASE worker = "down"
  BY <1>1, <1>2, <1>3, <1>4 DEF Tick
<1>5. CASE worker # "down" /\ due = 1
  <2>1. worker' = "passing" /\ due' = every
    BY <1>5 DEF Tick
  <2> QED
    BY <1>1, <1>2, <1>3, <1>5, <2>1
<1>6. CASE worker # "down" /\ due # 1
  <2>1. worker' = worker /\ due' = due - 1
    BY <1>6 DEF Tick
  <2> QED
    BY <1>1, <1>2, <1>3, <1>6, <2>1
<1> QED
  BY <1>4, <1>5, <1>6

Sound == Layers /\ Beats

LEMMA StepKeepsSound == Sound /\ [AgentNext]_vars => Sound'
<1> SUFFICES ASSUME Layers, Beats, AgentNext \/ UNCHANGED vars PROVE Layers' /\ Beats'
  BY DEF Sound
<1>1. Layers'
  BY StepKeepsLayers
<1>2. CASE UNCHANGED clocks
  <2>1. /\ worker' = worker /\ every' = every /\ due' = due /\ spent' = spent
        /\ started' = started /\ age' = age /\ good' = good
    BY <1>2 DEF clocks
  <2>2. Hours' /\ Flags'
    BY <2>1 DEF Beats, Hours, Flags
  <2> QED
    BY <1>1, <2>1, <2>2 DEF Beats
<1> QED
  BY <1>1, <1>2, WorkerKeepsBeats, TickKeepsBeats DEF AgentNext, vars

LEMMA InitialSound == AgentInit => Sound
<1> SUFFICES ASSUME AgentInit PROVE Sound
  OBVIOUS
<1>1. Layers
  BY InitialLayers DEF AgentInit
<1>2. /\ worker = "down" /\ every = 1 /\ due = 1 /\ spent = 0
      /\ started = FALSE /\ age = None /\ good = FALSE
  BY DEF AgentInit
<1>3. Hours
  BY <1>1, <1>2, BoundIsNat DEF Hours
<1>4. Flags
  BY <1>2 DEF Flags
<1> QED
  BY <1>1, <1>2, <1>3, <1>4 DEF Sound, Beats

(* Every variable of the settings and of the heartbeat keeps its type.     *)
THEOREM TypeCorrect == AgentSpec => []TypeOK
<1>1. Sound => TypeOK
  BY DEF Sound, Layers, Shape, Beats, Hours, Flags, TypeOK
<1> QED
  BY <1>1, InitialSound, StepKeepsSound, PTL DEF AgentSpec

(* A worker whose passes end and record themselves is never called stalled *)
(* while the interval is not shortened under it.                           *)
THEOREM NoAlarmWithoutCause == AgentSpec => []NoFalseAlarm
<1>1. Sound => NoFalseAlarm
  <2> SUFFICES ASSUME Sound, worker # "down", good, every <= Interval(live)
               PROVE  Headline # "stalled"
    BY DEF NoFalseAlarm
  <2>1. Interval(live) \in Intervals
    BY StatusAssumption DEF Sound, Layers, Shape, LayersType, Interval, Intervals
  <2>2. PICK i \in Nat : i = Interval(live) /\ MaxPass \in Nat /\ MaxPass <= i + 1
    BY <2>1, StatusAssumption
  <2>3. every <= i /\ age \in Nat /\ age <= every + MaxPass /\ every \in Nat
    BY <2>2 DEF Sound, Beats, Hours, Flags
  <2>4. ~(age > Interval(live) * 2 + 1)
    BY <2>2, <2>3
  <2>5. ~Stale
    BY <2>4 DEF Stale
  <2> QED
    BY <2>5 DEF Headline
<1> QED
  BY <1>1, InitialSound, StepKeepsSound, PTL DEF AgentSpec

-----------------------------------------------------------------------------
(* The mails.  The pass for nobody must leave the links alone so that the  *)
(* pass for each recipient can give them their own way out.                *)
CONSTANTS Recipients, Known, Pages
VARIABLES brand, body, footer, pc, rendered, built, mailed

Mails == INSTANCE Mailing

(* A rendering that can be made personal: its links are still tokens.      *)
Personable ==
  /\ {"page", "unsubscribe_url"} \cap DOMAIN rendered.html # {}
  /\ Mails!LinkTokens \subseteq DOMAIN rendered.text
  /\ \A x \in Mails!LinkTokens :
       /\ x \in DOMAIN rendered.html => rendered.html[x] = Mails!Open
       /\ x \in DOMAIN rendered.text => rendered.text[x] = Mails!Open

WayOut(m) ==
  /\ \A x \in Mails!LinkTokens :
       /\ x \in DOMAIN m.html => m.html[x] \in Mails!WaysOut(m.to, x)
       /\ x \in DOMAIN m.text => m.text[x] \in Mails!WaysOut(m.to, x)
  /\ {"page", "unsubscribe_url"} \cap DOMAIN m.html # {}
  /\ "unsubscribe_url" \in DOMAIN m.text
  /\ m.button = m.text["unsubscribe_url"]

AllBuilt == \A r \in Recipients : \E m \in built : m.to = r

WaysOutKept ==
  /\ brand \in Mails!Brands
  /\ pc = "building" => Personable
  /\ pc = "mailing" \/ mailed # {} => AllBuilt
  /\ mailed \subseteq built
  /\ \A m \in built : WayOut(m)

(* The pass for nobody leaves the links to the pass for each recipient.    *)
LEMMA FirstPassKeepsLinks ==
  ASSUME Mails!Render
  PROVE  Personable'
<1> DEFINE h == Mails!Merged(Mails!Html, None, Mails!NoLinks)
           t == Mails!Merged(Mails!Text, None, Mails!NoLinks)
<1>1. rendered'.html = h /\ rendered'.text = t /\ Mails!Compliant(h, t)
  BY DEF Mails!Render
<1>2. {"page", "unsubscribe_url"} \cap DOMAIN h # {}
  BY <1>1 DEF Mails!Compliant
<1>3. Mails!LinkTokens \subseteq DOMAIN t
  BY DEF Mails!Merged, Mails!Text
<1>4. \A x \in Mails!LinkTokens : x # "page" /\ x # "address" /\ x \in Mails!MergeTokens
                            /\ Mails!Substitute(x, None, Mails!NoLinks) = Mails!Open
  BY DEF Mails!LinkTokens, Mails!MergeTokens, Mails!Substitute, Mails!NoLinks
<1>5. ASSUME NEW x \in Mails!LinkTokens, x \in DOMAIN h PROVE h[x] = Mails!Open
  <2>1. x \in DOMAIN Mails!Html
    BY <1>5 DEF Mails!Merged
  <2>2. Mails!Html[x] = Mails!Open
    BY <1>4, <2>1 DEF Mails!Html
  <2> QED
    BY <1>4, <2>1, <2>2 DEF Mails!Merged
<1>6. ASSUME NEW x \in Mails!LinkTokens, x \in DOMAIN t PROVE t[x] = Mails!Open
  <2>1. x \in DOMAIN Mails!Text
    BY <1>6 DEF Mails!Merged
  <2>2. Mails!Text[x] = Mails!Open
    BY <1>4, <2>1 DEF Mails!Text
  <2> QED
    BY <1>4, <2>1, <2>2 DEF Mails!Merged
<1> HIDE DEF h, t
<1> QED
  BY <1>1, <1>2, <1>3, <1>5, <1>6 DEF Personable

(* What stands in a link's place once it is filled for r.                  *)
LEMMA SecondPassFillsLinks ==
  ASSUME NEW part, NEW r, NEW minted \in BOOLEAN, brand \in Mails!Brands, Mails!BrandComplete,
         NEW x \in Mails!LinkTokens, x \in DOMAIN part, part[x] = Mails!Open
  PROVE  /\ Mails!Merged(part, r, Mails!Links(r, minted))[x] = Mails!Links(r, minted)[x]
         /\ Mails!Links(r, minted)[x] \in Mails!WaysOut(r, x)
<1>1. x \in DOMAIN Mails!Links(r, minted) /\ x \in Mails!MergeTokens
  BY DEF Mails!Links, Mails!MergeTokens
<1>2. Mails!Substitute(x, r, Mails!Links(r, minted)) = Mails!Links(r, minted)[x]
  BY <1>1 DEF Mails!Substitute
<1>3. brand.page \in Pages
  BY DEF Mails!Brands, Mails!BrandComplete
<1>4. Mails!Links(r, minted)[x] \in Mails!WaysOut(r, x)
  BY <1>3 DEF Mails!Links, Mails!WaysOut
<1> QED
  BY <1>1, <1>2, <1>4 DEF Mails!Merged

LEMMA BuiltHasWayOut ==
  ASSUME brand \in Mails!Brands, Mails!BrandComplete, Personable, NEW r, NEW minted \in BOOLEAN
  PROVE  WayOut(Mails!Message(r, Mails!Links(r, minted)))
<1> DEFINE links == Mails!Links(r, minted)
           h == Mails!Merged(rendered.html, r, links)
           t == Mails!Merged(rendered.text, r, links)
           m == Mails!Message(r, links)
<1>1. m.to = r /\ m.html = h /\ m.text = t /\ m.button = links["unsubscribe_url"]
  BY DEF Mails!Message, Mails!Button
<1>2. DOMAIN h = DOMAIN rendered.html /\ DOMAIN t = DOMAIN rendered.text
  BY DEF Mails!Merged
<1>3. ASSUME NEW x \in Mails!LinkTokens
      PROVE  /\ x \in DOMAIN h => h[x] \in Mails!WaysOut(r, x)
             /\ t[x] = links[x] /\ t[x] \in Mails!WaysOut(r, x)
  BY <1>2, SecondPassFillsLinks DEF Personable
<1>4. "unsubscribe_url" \in Mails!LinkTokens
  BY DEF Mails!LinkTokens
<1>5. t["unsubscribe_url"] = links["unsubscribe_url"]
  BY <1>3, <1>4
<1>6. "unsubscribe_url" \in DOMAIN t
  BY <1>2, <1>4 DEF Personable
<1>7. {"page", "unsubscribe_url"} \cap DOMAIN h # {}
  BY <1>2 DEF Personable
<1> HIDE DEF h, t
<1> QED
  BY <1>1, <1>3, <1>5, <1>6, <1>7 DEF WayOut

LEMMA StepKeepsWaysOut == WaysOutKept /\ [Mails!Next]_(Mails!vars) => WaysOutKept'
<1> SUFFICES ASSUME WaysOutKept, Mails!Next \/ UNCHANGED Mails!vars PROVE WaysOutKept'
  OBVIOUS
<1> USE DEF WaysOutKept
<1>1. CASE Mails!Render
  <2>1. UNCHANGED <<brand, built, mailed>> /\ pc = "claimed" /\ pc' = "building"
    BY <1>1 DEF Mails!Render
  <2> QED
    BY <1>1, <2>1, FirstPassKeepsLinks DEF AllBuilt, WayOut
<1>2. CASE Mails!RenderRaises \/ Mails!BuildRaises
  BY <1>2 DEF Mails!RenderRaises, Mails!BuildRaises, Mails!Raise, AllBuilt, WayOut
<1>3. ASSUME NEW r \in Recipients, Mails!Build(r) PROVE WaysOutKept'
  <2>1. PICK minted \in BOOLEAN :
          /\ built' = built \cup {Mails!Message(r, Mails!Links(r, minted))}
          /\ pc = "building" /\ Mails!BrandComplete
          /\ UNCHANGED <<brand, pc, rendered, mailed>>
    BY <1>3 DEF Mails!Build
  <2>2. WayOut(Mails!Message(r, Mails!Links(r, minted)))
    BY <2>1, BuiltHasWayOut
  <2>3. \A m \in built' : WayOut(m)
    BY <2>1, <2>2
  <2>4. Personable'
    BY <2>1 DEF Personable
  <2>5. mailed' # {} => AllBuilt'
    BY <2>1 DEF AllBuilt
  <2> QED
    BY <2>1, <2>3, <2>4, <2>5 DEF WayOut
<1>4. CASE Mails!BeginBatch
  BY <1>4 DEF Mails!BeginBatch, AllBuilt, WayOut
<1>5. CASE Mails!Mail
  BY <1>5 DEF Mails!Mail, AllBuilt, WayOut
<1>6. CASE Mails!EditBrand
  BY <1>6 DEF Mails!EditBrand, Personable, AllBuilt, WayOut
<1>7. CASE UNCHANGED Mails!vars
  BY <1>7 DEF Mails!vars, Personable, AllBuilt, WayOut
<1> QED
  BY <1>1, <1>2, <1>3, <1>4, <1>5, <1>6, <1>7 DEF Mails!Next

(* Whoever is mailed finds their own way out of the list in each part, and *)
(* nobody is mailed before everybody's message was built.                  *)
THEOREM EveryMailHasWayOut == Mails!Spec => []Mails!OwnWayOut
<1>1. Mails!Init => WaysOutKept
  BY DEF Mails!Init, WaysOutKept, AllBuilt
<1>2. WaysOutKept => Mails!OwnWayOut
  BY DEF WaysOutKept, Mails!OwnWayOut, WayOut, AllBuilt
<1> QED
  BY <1>1, <1>2, StepKeepsWaysOut, PTL DEF Mails!Spec
=============================================================================
