------------------------------ MODULE Accounts ------------------------------
(***************************************************************************)
(* Who is signed in (services/auth_service.py, core/auth.py,               *)
(* ui/session.py, app.py, the Users tab of ui/pages/settings_page.py).     *)
(*                                                                         *)
(* A tab is one Streamlit session with its own thread: it keeps a user in  *)
(* its session state until it is reloaded, whatever becomes of the         *)
(* account.  The tabs share the accounts table and the one AuthService of  *)
(* the login form, whose failure counts live in the process.               *)
(*                                                                         *)
(* A password is right or wrong, and a token's signature verifies: neither *)
(* is spelled out.                                                         *)
(***************************************************************************)
EXTENDS Naturals, FiniteSets

CONSTANTS
  Users,
  Admins,       \* users whose role is ADMIN
  Guessed,      \* bound: users whose password is ever got wrong
  Remembered,   \* bound: users whose browser ever keeps a cookie
  Tabs,
  None,         \* an absent value
  MaxAttempts,  \* MAX_ATTEMPTS
  Lockout,      \* LOCKOUT_SECONDS, in ticks
  SessionTTL,   \* SESSION_TTL_SECONDS, in ticks
  MaxTime       \* bound: the clock stops here

ASSUME AccountsAssumption ==
  /\ Admins \subseteq Users /\ Guessed \subseteq Users /\ None \notin Users
  /\ IsFiniteSet(Tabs) /\ Tabs # {}
  /\ MaxAttempts \in Nat \ {0} /\ Lockout \in Nat \ {0}
  /\ SessionTTL \in Nat /\ MaxTime \in Nat

VARIABLES
  now,
  account,   \* the users table: no row yet, active, or off
  user,      \* per tab: USER of the session state
  jar,       \* per tab: the cookie its browser keeps
  sent,      \* per tab: the cookie its page load came with
  form,      \* per tab: the login or restoring under way
  attempts,  \* per user: _Attempts of the shared AuthService
  slipped,   \* history: per user, wrong passwords verified in a lockout
  early      \* history: tabs that held an account when it was turned off

session  == <<user, jar, sent>>
lockouts == <<form, attempts, slipped>>
accounts == <<now, account, session, lockouts, early>>

Time  == 0..MaxTime
Token == [user : Users, until : Nat]
Idle  == [step |-> "idle", user |-> None]

(* A form has asked for the lock; it then read the row of an active        *)
(* account or none, and fails or not; a cookie's row was read.             *)
Steps == {"asked", "found", "unknown", "counted", "restoring"}

(* The tab is signed in as u, or read u as active and will be.             *)
Holds(t, u) ==
  user[t] = u \/ (form[t].user = u /\ form[t].step \in {"found", "restoring"})

TypeOK ==
  /\ now \in Time
  /\ account \in [Users -> {"none", "active", "off"}]
  /\ user \in [Tabs -> Users \cup {None}]
  /\ jar \in [Tabs -> Token \cup {None}]
  /\ sent \in [Tabs -> Token \cup {None}]
  /\ form \in [Tabs -> [step : Steps, user : Users] \cup {Idle}]
  /\ attempts \in [Users -> [count : Nat, until : Nat]]
  /\ slipped \in [Users -> Nat]
  /\ early \subseteq Tabs

(* The first account is made from a terminal (scripts/create_user.py).     *)
Init ==
  /\ now = 0
  /\ account = [u \in Users |-> IF u \in Admins THEN "active" ELSE "none"]
  /\ user = [t \in Tabs |-> None]
  /\ jar = [t \in Tabs |-> None] /\ sent = [t \in Tabs |-> None]
  /\ form = [t \in Tabs |-> Idle]
  /\ attempts = [u \in Users |-> [count |-> 0, until |-> 0]]
  /\ slipped = [u \in Users |-> 0]
  /\ early = {}

-----------------------------------------------------------------------------
(* The login form.                                                         *)

Locked(u) == attempts[u].until > now

(* main: an unauthenticated run first tries the cookie its load sent.      *)
Restorable(t) ==
  /\ sent[t] # None
  /\ now <= sent[t].until /\ account[sent[t].user] = "active"

(* Seeded fault: the form does not ask for the lock.                       *)
BeginLoginUnasked(t, u) ==
  /\ user[t] = None /\ ~Restorable(t) /\ form[t] = Idle
  /\ form' = [form EXCEPT ![t] = [step |-> "asked", user |-> u]]
  /\ UNCHANGED <<now, account, session, attempts, slipped, early>>

(* authenticate up to _raise_if_locked.                                    *)
BeginLogin(t, u) ==
  /\ user[t] = None /\ ~Restorable(t) /\ form[t] = Idle /\ ~Locked(u)
  /\ form' = [form EXCEPT ![t] = [step |-> "asked", user |-> u]]
  /\ UNCHANGED <<now, account, session, attempts, slipped, early>>

(* get_active, once: whether the account stays active while its password   *)
(* is verified is not asked again.                                         *)
Look(t) ==
  LET u == form[t].user IN
  /\ form[t].step = "asked"
  /\ form' = [form EXCEPT ![t] =
       [step |-> IF account[u] = "active" THEN "found" ELSE "unknown", user |-> u]]
  /\ UNCHANGED <<now, account, session, attempts, slipped, early>>

(* The right password of the row it read; the count is dropped, and with   *)
(* it what others are still adding to it.  remember is best effort.        *)
SignIn(t, remembered) ==
  LET u == form[t].user IN
  /\ form[t].step = "found"
  /\ remembered => u \in Remembered
  /\ user' = [user EXCEPT ![t] = u]
  /\ jar' = IF remembered
            THEN [jar EXCEPT ![t] = [user |-> u, until |-> now + SessionTTL]] ELSE jar
  /\ form' = [s \in Tabs |-> IF s = t \/ form[s] = [step |-> "counted", user |-> u]
                             THEN Idle ELSE form[s]]
  /\ attempts' = [attempts EXCEPT ![u] = [count |-> 0, until |-> 0]]
  /\ UNCHANGED <<now, account, sent, slipped, early>>

(* No row, or a wrong password; _record_failure counts, then locks, which  *)
(* another thread may have done in between.                                *)
WrongPassword(t) ==
  LET u == form[t].user IN
  /\ form[t].step = "unknown" \/ (form[t].step = "found" /\ u \in Guessed)
  /\ form' = [form EXCEPT ![t] = [step |-> "counted", user |-> u]]
  /\ attempts' = [attempts EXCEPT ![u] = [count |-> attempts[u].count + 1,
                                          until |-> attempts[u].until]]
  /\ slipped' = [slipped EXCEPT ![u] = IF Locked(u) THEN slipped[u] + 1 ELSE slipped[u]]
  /\ early' = early \ {t}
  /\ UNCHANGED <<now, account, session>>

(* Seeded fault: a failed login leaves its user name behind.               *)
FinishFailureKeeping(t) ==
  /\ form[t].step = "counted"
  /\ form' = [form EXCEPT ![t] = [step |-> "idle", user |-> form[t].user]]
  /\ UNCHANGED <<now, account, session, attempts, slipped, early>>

FinishFailure(t) ==
  LET u == form[t].user
      full == attempts[u].count >= MaxAttempts
  IN
  /\ form[t].step = "counted"
  /\ form' = [form EXCEPT ![t] = Idle]
  /\ attempts' = IF full THEN [attempts EXCEPT ![u] = [count |-> 0, until |-> now + Lockout]]
                 ELSE attempts
  /\ slipped' = IF full THEN [slipped EXCEPT ![u] = 0] ELSE slipped
  /\ UNCHANGED <<now, account, session, early>>

-----------------------------------------------------------------------------
(* Sessions.                                                               *)

(* Seeded fault: a signature and a date are enough.                        *)
ReadCookieTrusting(t) ==
  /\ user[t] = None /\ form[t] = Idle
  /\ sent[t] # None /\ now <= sent[t].until
  /\ form' = [form EXCEPT ![t] = [step |-> "restoring", user |-> sent[t].user]]
  /\ UNCHANGED <<now, account, session, attempts, slipped, early>>

(* restore: the token verifies and get_active finds its account.           *)
ReadCookie(t) ==
  /\ user[t] = None /\ form[t] = Idle /\ Restorable(t)
  /\ form' = [form EXCEPT ![t] = [step |-> "restoring", user |-> sent[t].user]]
  /\ UNCHANGED <<now, account, session, attempts, slipped, early>>

(* set_current_user, on what was read.                                     *)
Restore(t) ==
  /\ form[t].step = "restoring"
  /\ user' = [user EXCEPT ![t] = form[t].user]
  /\ form' = [form EXCEPT ![t] = Idle]
  /\ UNCHANGED <<now, account, jar, sent, attempts, slipped, early>>

(* A token that is no good any more is forgotten.                          *)
RestoreRefused(t) ==
  /\ user[t] = None /\ form[t] = Idle
  /\ sent[t] # None /\ ~Restorable(t) /\ jar[t] # None
  /\ jar' = [jar EXCEPT ![t] = None]
  /\ UNCHANGED <<now, account, user, sent, lockouts, early>>

(* forget is best effort too.                                              *)
SignOut(t, forgotten) ==
  /\ user[t] # None
  /\ user' = [user EXCEPT ![t] = None]
  /\ jar' = IF forgotten THEN [jar EXCEPT ![t] = None] ELSE jar
  /\ early' = early \ {t}
  /\ UNCHANGED <<now, account, sent, lockouts>>

(* A refresh is a new Streamlit session; a login or restoring it           *)
(* interrupts counts as that of another tab.                               *)
Reload(t) ==
  /\ form[t] = Idle /\ (user[t] # None \/ sent[t] # jar[t])
  /\ user' = [user EXCEPT ![t] = None]
  /\ sent' = [sent EXCEPT ![t] = jar[t]]
  /\ early' = early \ {t}
  /\ UNCHANGED <<now, account, jar, lockouts>>

-----------------------------------------------------------------------------
(* The Users tab.  The role is the session's; whether its account is still *)
(* active is not asked.                                                    *)

CreateUser(t, u) ==
  /\ user[t] \in Admins /\ account[u] = "none"
  /\ account' = [account EXCEPT ![u] = "active"]
  /\ UNCHANGED <<now, session, lockouts, early>>

(* The button turns over what the run it starts finds in the table.        *)
Toggle(t, u) ==
  /\ user[t] \in Admins /\ u # user[t] /\ account[u] # "none"
  /\ account' = [account EXCEPT ![u] = IF account[u] = "active" THEN "off" ELSE "active"]
  /\ early' = IF account[u] = "active" THEN early \cup {s \in Tabs : Holds(s, u)}
              ELSE early \ {s \in Tabs : Holds(s, u)}
  /\ UNCHANGED <<now, session, lockouts>>

Tick ==
  /\ now < MaxTime /\ now' = now + 1
  /\ UNCHANGED <<account, session, lockouts, early>>

TabStep(t) ==
  \/ \E u \in Users : BeginLogin(t, u) \/ CreateUser(t, u) \/ Toggle(t, u)
  \/ \E kept \in BOOLEAN : SignIn(t, kept) \/ SignOut(t, kept)
  \/ Look(t) \/ WrongPassword(t) \/ FinishFailure(t)
  \/ ReadCookie(t) \/ Restore(t) \/ RestoreRefused(t) \/ Reload(t)

Next == Tick \/ \E t \in Tabs : TabStep(t)

Spec == Init /\ [][Next]_accounts

-----------------------------------------------------------------------------
(* A lockout stops every guess but those already past its check: with n    *)
(* tabs open at most n - 1 passwords are verified while it lasts           *)
(* (auth_service.py:104-124).                                              *)
LockoutHolds == \A u \in Users : slipped[u] <= Cardinality(Tabs) - 1

(* Turning an account off keeps it out of every session but those it can   *)
(* no longer stop: a tab signed in as it, or one that had already read its *)
(* row as active and was verifying the password or restoring a cookie      *)
(* (user_repo.py:49, session.py:19-21).  Whoever asks afterwards is        *)
(* refused, with the right password or with a cookie signed before, and    *)
(* so is such a tab once it has failed, signed out or been reloaded.       *)
OffAccountsStayOut ==
  \A t \in Tabs : user[t] # None /\ account[user[t]] = "off" => t \in early
=============================================================================
