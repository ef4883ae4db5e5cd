------------------------------ MODULE Mailing ------------------------------
(***************************************************************************)
(* From a newsletter to one message per recipient                          *)
(* (modules/template/renderer.py, modules/template/brand.py,               *)
(* DeliveryService._dispatch and _build_message).  A campaign is rendered  *)
(* once, for nobody in particular, and then made personal for each target; *)
(* every message is built before the first is mailed, and any failure      *)
(* raises.  Brand settings may be edited at any moment in between.         *)
(*                                                                         *)
(* A part of a message (HTML, text, subject) is a function: from the       *)
(* tokens that were written into it, and from what else the checks look    *)
(* for, to what now stands in that place.                                  *)
(***************************************************************************)
EXTENDS FiniteSets

CONSTANTS
  Recipients,  \* the targets of the run
  Known,       \* per recipient: the fields its row has a value for
  Pages,       \* unsubscribe pages an administrator may configure
  None         \* nobody, nothing

ValueTokens == {"name", "company", "email"}
LinkTokens  == {"like_url", "unsubscribe_url"}
MergeTokens == ValueTokens \cup LinkTokens

VARIABLES
  brand,     \* BRAND_*: [page, address], as they are now
  body,      \* tokens in the fields of the newsletter
  footer,    \* what the template adds: link tokens, a literal "page", "address"
  pc,        \* "claimed", "building", "mailing", "raised"
  rendered,  \* RenderedEmail
  built,     \* messages, each [to, html, text, subject, button]
  mailed

vars == <<brand, body, footer, pc, rendered, built, mailed>>

(* An address that autoescaping rewrites ("Smith & Co") is "escaped".      *)
Brands == [page : Pages \cup {None}, address : {"none", "plain", "escaped"}]

Init ==
  /\ brand \in Brands
  /\ body \in SUBSET MergeTokens
  /\ footer \in SUBSET (LinkTokens \cup {"page", "address"})
  /\ pc = "claimed" /\ rendered = None
  /\ built = {} /\ mailed = {}

-----------------------------------------------------------------------------
(* What can stand in a place: a kind, and whose or which it is.            *)
Open       == <<"token", None>>         \* the token itself still stands
Neutral    == <<"placeholder", None>>   \* "there", "your team", you@example.com
Of(r)      == <<"value", r>>            \* what the row of r says
Link(r, x) == <<x, r>>                  \* signed for r and the action of x
Page(u)    == <<"page", u>>
Address(a) == <<"address", a>>

(* What a token becomes for r, or for nobody, given a URL for some links.  *)
Substitute(x, r, links) ==
  IF x \in LinkTokens THEN (IF x \in DOMAIN links THEN links[x] ELSE Open)
  ELSE IF r # None /\ x \in Known[r] THEN Of(r) ELSE Neutral

(* apply_merge_tokens: one pass over the tokens that still stand.          *)
Merged(part, r, links) ==
  [x \in DOMAIN part |->
    IF x \in MergeTokens /\ part[x] = Open THEN Substitute(x, r, links) ELSE part[x]]

NoLinks == [x \in {} |-> None]

(* The Jinja template around the body: data never becomes template source. *)
Html == [x \in body \cup footer |->
  CASE x = "page" -> Page(brand.page)
    [] x = "address" -> Address(brand.address)
    [] OTHER -> Open]

(* build_plain_text: its footer is written out, whatever the template has. *)
Text == [x \in body \cup LinkTokens \cup {"address"} |->
  IF x = "address" THEN Address(brand.address) ELSE Open]

(* resolve_brand: or it raises.                                            *)
BrandComplete == brand.page # None /\ brand.address # "none"

(* _assert_compliant looks for the URL or its token, and for the address   *)
(* as it is configured, before escaping.                                   *)
Compliant(html, text) ==
  /\ {"page", "unsubscribe_url"} \cap DOMAIN html # {}
  /\ {"page", "unsubscribe_url"} \cap DOMAIN text # {}
  /\ "address" \in DOMAIN html /\ html["address"] = Address("plain")

Raise ==
  /\ pc' = "raised"
  /\ UNCHANGED <<brand, body, footer, rendered, built, mailed>>

(* render, with the recipient left at None.                                *)
Render ==
  /\ pc = "claimed" /\ BrandComplete
  /\ Compliant(Merged(Html, None, NoLinks), Merged(Text, None, NoLinks))
  /\ rendered' = [html    |-> Merged(Html, None, NoLinks),
                  text    |-> Merged(Text, None, NoLinks),
                  subject |-> Merged([x \in body |-> Open], None, NoLinks)]
  /\ pc' = "building"
  /\ UNCHANGED <<brand, body, footer, built, mailed>>

RenderRaises ==
  /\ pc = "claimed"
  /\ ~(BrandComplete /\ Compliant(Merged(Html, None, NoLinks), Merged(Text, None, NoLinks)))
  /\ Raise

(* _recipient_links: both are always there; untracked if minting fails (a  *)
(* website, if one is set, then stands in for the page of the like link).  *)
Links(r, minted) ==
  [x \in LinkTokens |-> IF minted THEN Link(r, x) ELSE Page(brand.page)]

(* _assert_no_unresolved_links                                             *)
Resolved(part) == \A x \in DOMAIN part \cap LinkTokens : part[x] # Open

(* unsubscribe_headers: the mail client's own button.                      *)
Button(links) == links["unsubscribe_url"]

Message(r, links) ==
  [to      |-> r,
   html    |-> Merged(rendered.html, r, links),
   text    |-> Merged(rendered.text, r, links),
   subject |-> Merged(rendered.subject, r, NoLinks),
   button  |-> Button(links)]

Build(r) == \E minted \in BOOLEAN :
  LET m == Message(r, Links(r, minted)) IN
  /\ pc = "building" /\ \A b \in built : b.to # r
  /\ BrandComplete /\ Resolved(m.html) /\ Resolved(m.text)
  /\ built' = built \cup {m}
  /\ UNCHANGED <<brand, body, footer, pc, rendered, mailed>>

BuildRaises == pc = "building" /\ ~BrandComplete /\ Raise

BeginBatch ==
  /\ pc = "building" /\ \A r \in Recipients : \E m \in built : m.to = r
  /\ pc' = "mailing"
  /\ UNCHANGED <<brand, body, footer, rendered, built, mailed>>

Mail == \E m \in built :
  /\ pc = "mailing" /\ m \notin mailed
  /\ mailed' = mailed \cup {m}
  /\ UNCHANGED <<brand, body, footer, pc, rendered, built>>

EditBrand ==
  /\ brand' \in Brands /\ brand' # brand
  /\ UNCHANGED <<body, footer, pc, rendered, built, mailed>>

Next ==
  \/ Render \/ RenderRaises
  \/ (\E r \in Recipients : Build(r)) \/ BuildRaises
  \/ BeginBatch \/ Mail \/ EditBrand

Spec == Init /\ [][Next]_vars

-----------------------------------------------------------------------------
WaysOut(r, x) == {Link(r, x)} \cup {Page(u) : u \in Pages}

(* Whoever is mailed finds a way out of the list in each part, and it is   *)
(* their own: no link is somebody else's or still a token, the button of   *)
(* the mail client goes where the text's link goes, and nobody is mailed   *)
(* unless everybody's message could be built (_recipient_links,            *)
(* _assert_compliant and _assert_no_unresolved_links taken together).      *)
OwnWayOut ==
  /\ \A m \in mailed :
       /\ \A x \in LinkTokens :
            /\ x \in DOMAIN m.html => m.html[x] \in WaysOut(m.to, x)
            /\ x \in DOMAIN m.text => m.text[x] \in WaysOut(m.to, x)
       /\ {"page", "unsubscribe_url"} \cap DOMAIN m.html # {}
       /\ "unsubscribe_url" \in DOMAIN m.text
       /\ m.button = m.text["unsubscribe_url"]
  /\ mailed # {} => \A r \in Recipients : \E m \in built : m.to = r

(* Each recipient reads what their own row says wherever the newsletter    *)
(* names a field of it (docs/01_PRD.md:187, FR-6.8 "Support basic          *)
(* personalization tokens").  The first pass, for nobody, uses them up.    *)
OwnValues ==
  \A m \in mailed : \A x \in ValueTokens \cap DOMAIN m.text :
    x \in Known[m.to] => m.text[x] = Of(m.to)
=============================================================================
