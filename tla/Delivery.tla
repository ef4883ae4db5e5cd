------------------------------ MODULE Delivery ------------------------------
(***************************************************************************)
(* Delivering one campaign (services/delivery_service.py): attaching a     *)
(* recipient list, claiming the campaign, mailing the list one by one with *)
(* retries (modules/email/batcher.py), recording every outcome, settling.  *)
(* Senders are the processes that call send_campaign or retry_failed: page *)
(* reruns and dispatch passes.  The list may be replaced, and an address   *)
(* may unsubscribe, at any point of a run.                                 *)
(*                                                                         *)
(* A recipient row is a position in `list`; its id is base plus the        *)
(* position.  SQLite numbers new rows from the largest id in use, so a     *)
(* list that replaces the newest one takes over its ids.                   *)
(***************************************************************************)
EXTENDS Naturals, Sequences, SequencesExt, FiniteSets, CampaignStates

CONSTANTS
  Addresses,     \* e-mail addresses
  Files,         \* the CSV files people upload, as sequences of addresses
  OptOuts,       \* bound: the addresses that may unsubscribe meanwhile
  Senders,       \* processes that send
  MaxRetries,    \* settings.email.max_retries
  MaxUploads,    \* bound: lists attached to the campaign
  MaxCrashes     \* bound: processes lost

ASSUME DeliveryAssumption ==
  /\ Files \subseteq Seq(Addresses) /\ OptOuts \subseteq Addresses
  /\ MaxRetries \in Nat /\ MaxUploads \in Nat /\ MaxCrashes \in Nat

VARIABLES
  status,      \* campaigns.status
  base, list,  \* the recipients rows: ids base + 1 .. base + Len(list)
  records,     \* send_records: [recipient, status]
  rollup,      \* campaigns.recipient_count, sent_count, failed_count
  suppressed,  \* the do-not-send list
  pc,          \* where each sender is
  plan,        \* the targets it read: a sequence of [id, email]
  results,     \* one outcome per target it has finished with
  tries,       \* attempts at the current target
  uploads, crashes,
  acked,       \* history: acknowledged mails per address
  got,         \* history: per sender, target ids acknowledged in this run
  optedOut     \* history: addresses mailed after they were suppressed

rows  == <<base, list, records>>
run   == <<pc, plan, results, tries>>
ghost == <<acked, got, optedOut>>
vars  == <<status, rows, rollup, suppressed, run, uploads, crashes, ghost>>

SendStatus == {"SENT", "FAILED"}
RunPC      == {"claimed", "sending", "aborted", "recorded"}
InRun(p)   == pc[p] \in RunPC

Id(k)   == base + k
Ids     == {Id(k) : k \in 1 .. Len(list)}
Targets == [k \in 1 .. Len(list) |-> [id |-> Id(k), email |-> list[k]]]

SentIds == {r.recipient : r \in {s \in records : s.status = "SENT"}}
Oks(p)  == Cardinality({k \in 1 .. Len(results[p]) : results[p][k] = "SENT"})

TypeOK ==
  /\ status \in CampaignStatus
  /\ base \in Nat /\ list \in Seq(Addresses)
  /\ records \subseteq [recipient : Nat, status : SendStatus]
  /\ rollup \in [recipients : Nat, sent : Nat, failed : Nat]
  /\ suppressed \subseteq Addresses
  /\ pc \in [Senders -> {"idle", "sendread", "retryread"} \cup RunPC]
  /\ plan \in [Senders -> Seq([id : Nat, email : Addresses])]
  /\ results \in [Senders -> Seq(SendStatus)]
  /\ tries \in [Senders -> 0 .. MaxRetries]
  /\ uploads \in Nat /\ crashes \in Nat
  /\ acked \in [Addresses -> Nat]
  /\ got \in [Senders -> SUBSET Nat]
  /\ optedOut \subseteq Addresses

Init ==
  /\ status = "DRAFT"
  /\ base = 0 /\ list = <<>> /\ records = {}
  /\ rollup = [recipients |-> 0, sent |-> 0, failed |-> 0]
  /\ suppressed = {}
  /\ pc = [p \in Senders |-> "idle"]
  /\ plan = [p \in Senders |-> <<>>]
  /\ results = [p \in Senders |-> <<>>]
  /\ tries = [p \in Senders |-> 0]
  /\ uploads = 0 /\ crashes = 0
  /\ acked = [a \in Addresses |-> 0]
  /\ got = [p \in Senders |-> {}]
  /\ optedOut = {}

-----------------------------------------------------------------------------
(* Recipients.                                                             *)

(* validate_recipients: the first of each address that is not suppressed.  *)
Valid(file) ==
  LET keep[k \in 0 .. Len(file)] ==
        IF k = 0 THEN <<>>
        ELSE IF Contains(keep[k - 1], file[k]) \/ file[k] \in suppressed
               THEN keep[k - 1] ELSE Append(keep[k - 1], file[k])
  IN keep[Len(file)]

(* save_recipients: the rows are replaced wholesale, whatever the status,  *)
(* and the send records of the old rows go with them (ON DELETE CASCADE).  *)
(* The new ids follow the largest left: the old base, unless another       *)
(* campaign's rows were added since.                                       *)
Attach(file, after) ==
  /\ uploads < MaxUploads
  /\ Valid(file) # <<>>
  /\ after \in {base, base + Len(list)}
  /\ base' = after /\ list' = Valid(file) /\ records' = {}
  /\ rollup' = [rollup EXCEPT !.recipients = Len(Valid(file))]
  /\ uploads' = uploads + 1
  /\ UNCHANGED <<status, suppressed, run, crashes, ghost>>

(* suppress: an unsubscribe, from the page or from a link in an e-mail.    *)
Suppress(a) ==
  /\ suppressed' = suppressed \cup {a}
  /\ UNCHANGED <<status, rows, rollup, run, uploads, crashes, ghost>>

-----------------------------------------------------------------------------
(* Starting a run: the targets are read, then the campaign is claimed.  On *)
(* SQLite the read takes no lock, so other commits may fall in between.    *)
Reads(p, at, targets) ==
  /\ pc[p] = "idle" /\ targets # <<>>
  /\ pc' = [pc EXCEPT ![p] = at]
  /\ plan' = [plan EXCEPT ![p] = targets]
  /\ UNCHANGED <<status, rows, rollup, suppressed, results, tries, uploads, crashes, ghost>>

ReadList(p) == Reads(p, "sendread", Targets)

(* retry_failed leaves out whoever has a SENT record.                      *)
Undelivered ==
  LET left[k \in 0 .. Len(list)] ==
        IF k = 0 THEN <<>>
        ELSE IF Id(k) \in SentIds
               THEN left[k - 1] ELSE Append(left[k - 1], Targets[k])
  IN left[Len(list)]

ReadUndelivered(p) == Reads(p, "retryread", Undelivered)

Idle(p) ==
  /\ pc' = [pc EXCEPT ![p] = "idle"]
  /\ plan' = [plan EXCEPT ![p] = <<>>]
  /\ results' = [results EXCEPT ![p] = <<>>]
  /\ tries' = [tries EXCEPT ![p] = 0]
  /\ got' = [got EXCEPT ![p] = {}]

(* Seeded fault: the claim also takes a campaign that has settled badly.   *)
ClaimUnsettled(p) ==
  /\ pc[p] \in {"sendread", "retryread"}
  /\ status \in SendableStates \cup {"PARTIAL_FAILURE", "FAILED"}
  /\ status' = "SENDING"
  /\ pc' = [pc EXCEPT ![p] = "claimed"]
  /\ UNCHANGED <<rows, rollup, suppressed, plan, results, tries, uploads, crashes, ghost>>

(* begin_send.                                                             *)
Claim(p) ==
  /\ pc[p] \in {"sendread", "retryread"}
  /\ status \in SendableStates
  /\ status' = "SENDING"
  /\ pc' = [pc EXCEPT ![p] = "claimed"]
  /\ UNCHANGED <<rows, rollup, suppressed, plan, results, tries, uploads, crashes, ghost>>

Refuse(p) ==
  /\ pc[p] \in {"sendread", "retryread"}
  /\ status \notin SendableStates
  /\ Idle(p)
  /\ UNCHANGED <<status, rows, rollup, suppressed, uploads, crashes, acked, optedOut>>

-----------------------------------------------------------------------------
(* The batch.                                                              *)

(* Rendering, creating the provider and building every message either all  *)
(* succeed before the first mail, or raise: the claim is not given back.   *)
Begin(p) ==
  /\ pc[p] = "claimed"
  /\ pc' = [pc EXCEPT ![p] = "sending"]
  /\ UNCHANGED <<status, rows, rollup, suppressed, plan, results, tries, uploads, crashes, ghost>>

RaiseBeforeMail(p) ==
  /\ pc[p] = "claimed"
  /\ Idle(p)
  /\ UNCHANGED <<status, rows, rollup, suppressed, uploads, crashes, acked, optedOut>>

Current(p) == plan[p][Len(results[p]) + 1]
Mailing(p) == pc[p] = "sending" /\ Len(results[p]) < Len(plan[p])

(* Seeded fault: the outcomes are collected newest first.                  *)
DoneNewestFirst(p, outcome) ==
  /\ results' = [results EXCEPT ![p] = <<outcome>> \o @]
  /\ tries' = [tries EXCEPT ![p] = 0]

(* One target is done with, and its outcome appended.                      *)
Done(p, outcome) ==
  /\ results' = [results EXCEPT ![p] = Append(@, outcome)]
  /\ tries' = [tries EXCEPT ![p] = 0]

Accept(p) ==
  /\ Mailing(p)
  /\ Done(p, "SENT")
  /\ acked' = [acked EXCEPT ![Current(p).email] = @ + 1]
  /\ got' = [got EXCEPT ![p] = @ \cup {Current(p).id}]
  /\ optedOut' = optedOut \cup ({Current(p).email} \cap suppressed)
  /\ UNCHANGED <<status, rows, rollup, suppressed, pc, plan, uploads, crashes>>

(* The mailbox is refused, or the connection fails: no second attempt.     *)
Reject(p) ==
  /\ Mailing(p)
  /\ Done(p, "FAILED")
  /\ UNCHANGED <<status, rows, rollup, suppressed, pc, plan, uploads, crashes, ghost>>

(* Seeded fault: a retry that does not count the attempt.                  *)
BusyForEver(p) ==
  /\ Mailing(p)
  /\ tries' = [tries EXCEPT ![p] = (@ + 1) % 2]
  /\ UNCHANGED <<status, rows, rollup, suppressed, pc, plan, results, uploads, crashes, ghost>>

(* Seeded fault: one attempt too many.                                     *)
BusyOnceMore(p) ==
  /\ Mailing(p)
  /\ IF tries[p] <= MaxRetries
       THEN tries' = [tries EXCEPT ![p] = @ + 1] /\ UNCHANGED results
       ELSE Done(p, "FAILED")
  /\ UNCHANGED <<status, rows, rollup, suppressed, pc, plan, uploads, crashes, ghost>>

(* EmailProviderError (busy, 5xx): another attempt while any is left.      *)
Busy(p) ==
  /\ Mailing(p)
  /\ IF tries[p] < MaxRetries
       THEN tries' = [tries EXCEPT ![p] = @ + 1] /\ UNCHANGED results
       ELSE Done(p, "FAILED")
  /\ UNCHANGED <<status, rows, rollup, suppressed, pc, plan, uploads, crashes, ghost>>

(* EmailAuthError or EmailQuotaExceeded stops the batch.                   *)
AccountFails(p) ==
  /\ Mailing(p)
  /\ pc' = [pc EXCEPT ![p] = "aborted"]
  /\ UNCHANGED <<status, rows, rollup, suppressed, plan, results, tries, uploads, crashes, ghost>>

-----------------------------------------------------------------------------
(* Recording and settling.                                                 *)

(* Seeded fault: an aborted batch counts every attempt as sent.            *)
AllAttemptsSent(p) ==
  IF pc[p] = "aborted" THEN [k \in 1 .. Len(results[p]) |-> "SENT"] ELSE results[p]

(* What is written: every outcome, or, of an aborted batch, one SENT for   *)
(* as many targets from the front as sends had succeeded.                  *)
Outcomes(p) ==
  IF pc[p] = "aborted" THEN [k \in 1 .. Oks(p) |-> "SENT"] ELSE results[p]

BatchOver(p) ==
  pc[p] = "aborted" \/ (pc[p] = "sending" /\ Len(results[p]) = Len(plan[p]))

RowsRemain(p) == \A k \in 1 .. Len(Outcomes(p)) : plan[p][k].id \in Ids

(* _persist, one transaction.                                              *)
Persist(p) ==
  /\ BatchOver(p) /\ RowsRemain(p)
  /\ records' = records \cup
       {[recipient |-> plan[p][k].id, status |-> Outcomes(p)[k]] :
          k \in 1 .. Len(Outcomes(p))}
  /\ results' = [results EXCEPT ![p] = Outcomes(p)]
  /\ pc' = [pc EXCEPT ![p] = "recorded"]
  /\ UNCHANGED <<status, base, list, rollup, suppressed, plan, tries, uploads, crashes, ghost>>

(* A row it refers to is gone: IntegrityError, nothing recorded, and the   *)
(* exception leaves the campaign as it is.                                 *)
PersistFails(p) ==
  /\ BatchOver(p) /\ ~RowsRemain(p)
  /\ Idle(p)
  /\ UNCHANGED <<status, rows, rollup, suppressed, uploads, crashes, acked, optedOut>>

(* _settle: the counts and the status they imply.                          *)
Settle(p) ==
  /\ pc[p] = "recorded"
  /\ LET sent == Oks(p)  failed == Len(results[p]) - Oks(p) IN
       /\ rollup' = [rollup EXCEPT !.sent = sent, !.failed = failed]
       /\ status' = Transitioned(status, Outcome(sent, failed))
  /\ Idle(p)
  /\ UNCHANGED <<rows, suppressed, uploads, crashes, acked, optedOut>>

(* The process dies, or a rerun interrupts the script.                     *)
Crash(p) ==
  /\ crashes < MaxCrashes /\ pc[p] # "idle"
  /\ crashes' = crashes + 1
  /\ Idle(p)
  /\ UNCHANGED <<status, rows, rollup, suppressed, uploads, acked, optedOut>>

-----------------------------------------------------------------------------
RunStep(p) ==
  \/ Claim(p) \/ Refuse(p) \/ Begin(p) \/ RaiseBeforeMail(p)
  \/ Accept(p) \/ Reject(p) \/ Busy(p) \/ AccountFails(p)
  \/ Persist(p) \/ PersistFails(p) \/ Settle(p)

Next ==
  \/ \E f \in Files, b \in {base, base + Len(list)} : Attach(f, b)
  \/ \E a \in OptOuts : Suppress(a)
  \/ \E p \in Senders : ReadList(p) \/ ReadUndelivered(p) \/ RunStep(p) \/ Crash(p)

Spec == Init /\ [][Next]_vars

(* A run that has read its targets keeps running; nobody need start one.   *)
FairSpec == Spec /\ \A p \in Senders : WF_vars(RunStep(p))

-----------------------------------------------------------------------------
(* Sending implements SendOnce: whoever calls send_campaign or retry_failed*)
(* and however often, mail goes out only under the one claim, and nobody   *)
(* is acknowledged twice.                                                  *)
Phase ==
  CASE status \in SendableStates -> "open"
    [] status = "SENDING"        -> "sending"
    [] OTHER                     -> "closed"
SO == INSTANCE SendOnce WITH phase <- Phase, mails <- acked
SendsOnce == SO!Spec

(* The settled campaign tells how many mails went out, whether the batch   *)
(* ended, was aborted after failures, or its list was replaced meanwhile;  *)
(* and it is FAILED only if none did.                                      *)
SettledCountsMail ==
  status \in {"SENT", "PARTIAL_FAILURE", "FAILED"} =>
    /\ rollup.sent = Cardinality({a \in Addresses : acked[a] > 0})
    /\ status = "FAILED" <=> rollup.sent = 0

Writes(p) == pc[p] # "recorded" /\ pc'[p] = "recorded"

(* The records a run writes say SENT of exactly the rows whose mail the    *)
(* provider took, as the rows were when the run read them, although the    *)
(* list may have been replaced since; an aborted batch keeps to it if      *)
(* nothing had failed before.                                              *)
RecordsMatchMail ==
  [][\A p \in Senders :
       Writes(p) /\ (pc[p] = "aborted" => Oks(p) = Len(results[p])) =>
         \A k \in 1 .. Len(plan[p]) :
           plan[p][k].id \in got[p]
             <=> [recipient |-> plan[p][k].id, status |-> "SENT"] \in records']_vars

(* A run that has read its targets ends: retries are bounded, and every    *)
(* way out of the batch leads to an end.                                   *)
RunEnds == \A p \in Senders : pc[p] # "idle" ~> pc[p] = "idle"

-----------------------------------------------------------------------------
(* What the repository's comments promise and the code does not keep.      *)

(* What already went out is recorded even if the batch aborts (_dispatch). *)
AbortRecordsMail ==
  [][\A p \in Senders : Writes(p) =>
       \A i \in got[p] : [recipient |-> i, status |-> "SENT"] \in records']_vars

(* Retrying failed recipients re-enters SENDING (core/enums.py).           *)
RetryReenters ==
  [][\A p \in Senders :
       pc[p] = "retryread" /\ status \in {"PARTIAL_FAILURE", "FAILED"}
         /\ pc'[p] # pc[p] => status' = "SENDING"]_vars

(* Suppression is checked before every send (recipient_repo.py).           *)
NoMailAfterOptOut == optedOut = {}
=============================================================================
