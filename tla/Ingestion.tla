----------------------------- MODULE Ingestion ------------------------------
(***************************************************************************)
(* The Generate page up to the draft (ui/pages/generate.py): pasting       *)
(* addresses, reading them (services/ingestion_service.py), articles       *)
(* pasted by hand, the selection the page keeps in the user's session      *)
(* (ui/state.py), and the draft made of it.  The draft itself is           *)
(* Generation.  The agent reads its posts through the same service, one    *)
(* address at a time.                                                      *)
(*                                                                         *)
(* An article row is named by its id, its place in `articles`.             *)
(***************************************************************************)
EXTENDS Truncation, FiniteSets

CONSTANTS
  Urls,
  Pages,          \* texts a page may hold
  Typed,          \* texts a user may paste
  MaxPasted,      \* bound: addresses pasted at once
  MaxBatch,       \* MAX_URLS_PER_BATCH
  MaxArticles,    \* bound: article rows
  MaxDrafts       \* bound: drafts

ASSUME IngestionAssumption ==
  /\ Pages \cup Typed \subseteq Seq(Paragraphs)
  /\ MaxPasted \in Nat /\ MaxBatch \in Nat /\ MaxArticles \in Nat

VARIABLES
  phase,     \* what the page's run is doing
  batch,     \* unique addresses of the batch being read
  fetch,     \* per address: where its reading is
  page,      \* per address: the text it gave
  arrived,   \* history: the addresses in the order their pages came
  articles,  \* the articles table
  selected,  \* ARTICLE_IDS: ids in the session
  drafts,    \* campaigns made here, each the ids it was made of
  unseen     \* history: drafts whose run broke off before the page was told

reading == <<batch, fetch, page, arrived>>
vars == <<phase, reading, articles, selected, drafts, unseen>>

TypeOK ==
  /\ phase \in {"idle", "reading", "saved", "drafting", "drafted"}
  /\ batch \in Seq(Urls) /\ Len(batch) <= MaxBatch
  /\ fetch \in [Urls -> {"none", "reading", "read", "failed"}]
  /\ page \in [Urls -> Pages \cup {<<>>}]
  /\ arrived \in Seq(Urls)
  /\ \A id \in DOMAIN articles : articles[id].text \in Pages \cup Typed
  /\ \A i \in DOMAIN selected : selected[i] \in DOMAIN articles
  /\ \A d \in DOMAIN drafts : drafts[d] # <<>>
  /\ unseen \in 0..Len(drafts)

Init ==
  /\ phase = "idle" /\ batch = <<>> /\ arrived = <<>>
  /\ fetch = [u \in Urls |-> "none"] /\ page = [u \in Urls |-> <<>>]
  /\ articles = <<>> /\ selected = <<>> /\ drafts = <<>> /\ unseen = 0

NothingRead ==
  /\ batch' = <<>> /\ arrived' = <<>>
  /\ fetch' = [u \in Urls |-> "none"] /\ page' = [u \in Urls |-> <<>>]

-----------------------------------------------------------------------------
(* IngestionService.                                                       *)

(* The numbers of S, smallest first: what is left of a list is read off    *)
(* the places that are left.                                               *)
InOrder(S) ==
  CHOOSE s \in [1..Cardinality(S) -> S] : \A i, j \in DOMAIN s : i < j => s[i] < s[j]

(* _deduplicate: the first of each normalised address.                     *)
Deduplicate(raw) ==
  LET first == InOrder({i \in DOMAIN raw : \A k \in 1..(i - 1) : raw[k] # raw[i]})
  IN  [n \in DOMAIN first |-> raw[first[n]]]

(* Fewer than one unique address or more than MaxBatch are refused.        *)
Paste(raw) ==
  LET unique == Deduplicate(raw) IN
  /\ phase = "idle" /\ Len(unique) \in 1..MaxBatch
  /\ Len(articles) + Len(unique) <= MaxArticles
  /\ phase' = "reading" /\ batch' = unique /\ arrived' = <<>>
  /\ fetch' = [u \in Urls |-> IF u \in ToSet(unique) THEN "reading" ELSE "none"]
  /\ page' = [u \in Urls |-> <<>>]
  /\ UNCHANGED <<articles, selected, drafts, unseen>>

(* A pool thread returns: robots, redirects, retries and the cascade of    *)
(* extractors are all inside.  Pages come in any order.                    *)
FetchOk(u, p) ==
  /\ phase = "reading" /\ fetch[u] = "reading"
  /\ fetch' = [fetch EXCEPT ![u] = "read"]
  /\ page' = [page EXCEPT ![u] = p]
  /\ arrived' = Append(arrived, u)
  /\ UNCHANGED <<phase, batch, articles, selected, drafts, unseen>>

FetchFails(u) ==
  /\ phase = "reading" /\ fetch[u] = "reading"
  /\ fetch' = [fetch EXCEPT ![u] = "failed"]
  /\ UNCHANGED <<phase, batch, page, arrived, articles, selected, drafts, unseen>>

AllIn == \A u \in ToSet(batch) : fetch[u] \in {"read", "failed"}

(* Seeded fault: rows are written as the pages came.                       *)
ReadAsArrived == arrived

(* The pages that were read, in the order they were pasted.                *)
Read ==
  LET read == InOrder({i \in DOMAIN batch : fetch[batch[i]] = "read"})
  IN  [n \in DOMAIN read |-> batch[read[n]]]

(* ArticleRepository.create, in one transaction.                           *)
Article(place, text) == [batch |-> Len(articles) + 1, place |-> place, text |-> text, kept |-> Kept(text)]
Position(u) == CHOOSE i \in DOMAIN batch : batch[i] = u

Save ==
  /\ phase = "reading" /\ AllIn
  /\ phase' = "saved"
  /\ articles' = articles \o [i \in DOMAIN Read |-> Article(Position(Read[i]), page[Read[i]])]
  /\ UNCHANGED <<reading, selected, drafts, unseen>>

AddManual(text) ==
  /\ phase = "idle" /\ Len(articles) < MaxArticles
  /\ articles' = Append(articles, Article(1, text))
  /\ selected' = Append(selected, Len(articles) + 1)
  /\ UNCHANGED <<phase, reading, drafts, unseen>>

-----------------------------------------------------------------------------
(* The page.                                                               *)

Latest ==
  InOrder({id \in DOMAIN articles : articles[id].batch = articles[Len(articles)].batch})

(* _extract, once the service has returned.                                *)
Select ==
  /\ phase = "saved" /\ phase' = "idle" /\ NothingRead
  /\ selected' = IF Read = <<>> THEN selected ELSE selected \o Latest
  /\ UNCHANGED <<articles, drafts, unseen>>

(* Seeded fault: the draft is made of what is selected when it is done.    *)
RemoveArticleAnyTime(i) ==
  /\ phase \in {"idle", "drafting"}
  /\ selected' = RemoveAt(selected, i)
  /\ UNCHANGED <<phase, reading, articles, drafts, unseen>>

RemoveArticle(i) ==
  /\ phase = "idle"
  /\ selected' = RemoveAt(selected, i)
  /\ UNCHANGED <<phase, reading, articles, drafts, unseen>>

Logout ==
  /\ phase = "idle" /\ selected # <<>>
  /\ selected' = <<>>
  /\ UNCHANGED <<phase, reading, articles, drafts, unseen>>

ClickGenerate ==
  /\ phase = "idle" /\ selected # <<>> /\ Len(drafts) < MaxDrafts
  /\ phase' = "drafting"
  /\ UNCHANGED <<reading, articles, selected, drafts, unseen>>

(* Whatever ends the draft before it is persisted, Generation has the      *)
(* ways: the selection stays for another click.                            *)
DraftFails ==
  /\ phase = "drafting" /\ phase' = "idle"
  /\ UNCHANGED <<reading, articles, selected, drafts, unseen>>

DraftPersisted ==
  /\ phase = "drafting" /\ phase' = "drafted"
  /\ drafts' = Append(drafts, selected)
  /\ UNCHANGED <<reading, articles, selected, unseen>>

(* Seeded fault: the selection outlives its newsletter.                    *)
ShowDraftOnly ==
  /\ phase = "drafted" /\ phase' = "idle"
  /\ UNCHANGED <<reading, articles, selected, drafts, unseen>>

ShowDraft ==
  /\ phase = "drafted" /\ phase' = "idle" /\ selected' = <<>>
  /\ UNCHANGED <<reading, articles, drafts, unseen>>

(* The user does something else on the page: Streamlit ends the run at its *)
(* next call to the page.  Pages being read are waited for and dropped;    *)
(* what was committed stays, and the page does not learn of it.            *)
Interrupt ==
  /\ phase \in {"reading", "saved", "drafted"} /\ phase' = "idle" /\ NothingRead
  /\ unseen' = IF phase = "drafted" THEN unseen + 1 ELSE unseen
  /\ UNCHANGED <<articles, selected, drafts>>

Raw == UNION {[1..n -> Urls] : n \in 1..MaxPasted}

Next ==
  \/ \E raw \in Raw : Paste(raw)
  \/ \E u \in Urls : FetchFails(u) \/ \E p \in Pages : FetchOk(u, p)
  \/ \E p \in Typed : AddManual(p)
  \/ \E i \in DOMAIN selected : RemoveArticle(i)
  \/ Save \/ Select \/ Logout \/ Interrupt
  \/ ClickGenerate \/ DraftFails \/ DraftPersisted \/ ShowDraft

Spec == Init /\ [][Next]_vars

-----------------------------------------------------------------------------
(* What the model reads of an article fits its budget and has no paragraph *)
(* twice; an article that fits is whole (tokenizer.py:46-81).              *)
TextFits ==
  \A id \in DOMAIN articles :
    LET p == articles[id].text
        k == articles[id].kept
    IN  IF TooLong(p) THEN KeptLength(p, k) < Limit /\ k.head + k.tail < Len(p)
        ELSE k.head = Len(p)

(* A batch stands in the order it was pasted, whichever page came first,   *)
(* and without a hole where another page failed (ingestion_service.py:106, *)
(* core/models.py:101 "One failure never aborts the batch").               *)
StoryOrder ==
  /\ \A i, j \in DOMAIN selected :
       LET a == articles[selected[i]]
           b == articles[selected[j]]
       IN  i < j /\ a.batch = b.batch => a.place < b.place
  /\ phase = "saved" =>
       \A u \in Urls : fetch[u] = "read" =>
         \E i \in DOMAIN Latest : articles[Latest[i]].text = page[u]

(* An article makes one newsletter; another only after a run that broke    *)
(* off between the draft and the page (generate.py:241-242).               *)
DraftedOnce ==
  \A id \in DOMAIN articles :
    Cardinality({d \in DOMAIN drafts : id \in ToSet(drafts[d])}) <= 1 + unseen
=============================================================================
