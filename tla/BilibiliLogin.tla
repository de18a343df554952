----------------------------- MODULE BilibiliLogin -----------------------------
(***************************************************************************)
(* The Bilibili login of the crawler: which cookie the settings page       *)
(* stores, which account it shows beside it, and which cookie a crawl then *)
(* sends.                                                                  *)
(*                                                                         *)
(* A cookie is a set of fields, each with the account it came from; any    *)
(* may lack, and they may be of several accounts.  The stored row and the  *)
(* environment are merged field by field, the row first.                   *)
(* Requests overlap: each asks Bilibili whose cookie it has, then looks    *)
(* for the row, then writes it.                                            *)
(***************************************************************************)
EXTENDS LoginPromises

CONSTANTS
  Requests,      \* requests of settings pages
  Pasted,        \* cookies a user may paste
  Profiles       \* cookies in the databases of the local browsers

Cookies == [Fields -> Accounts \cup {None}]

Assumption ==
  /\ Session \in Login /\ None \notin Accounts /\ "anonymous" \notin Accounts
  /\ Pasted \subseteq Cookies /\ Profiles \subseteq Cookies
  /\ Environment \in Cookies

VARIABLES
  pc,        \* where each request is
  cookie,    \* the cookie it will store
  profile,   \* what Bilibili said of it: an account, "anonymous" or None
  found      \* the row it has found, or None

vars == <<row, pc, cookie, profile, found>>

Empty == [f \in Fields |-> None]

Init ==
  /\ row = None
  /\ pc = [r \in Requests |-> "idle"] /\ cookie = [r \in Requests |-> Empty]
  /\ profile = [r \in Requests |-> None]
  /\ found = [r \in Requests |-> None]

-----------------------------------------------------------------------------
Accept(r, c) ==
  /\ cookie' = [cookie EXCEPT ![r] = c]
  /\ pc' = [pc EXCEPT ![r] = "validate"]
  /\ UNCHANGED <<row, profile, found>>

\* The user saves a pasted cookie, an empty one to clear it, or the one that
\* the form shows, which is the resolved one.
Submit(r) ==
  /\ pc[r] = "idle"
  /\ \E c \in Pasted \cup {Empty, Resolved} : Accept(r, c)

\* The cookie database of the browser is read: what it has of the fields.
Import(r) ==
  /\ pc[r] = "idle"
  /\ \E c \in Profiles \ {Empty} : Accept(r, c)

\* It is locked, and the user logs in in a window: the cookie is taken as soon as
\* it has a session, whatever else it lacks.  An import that finds none, or is not
\* answered in time, fails and changes nothing.
LogInInWindow(r) ==
  /\ pc[r] = "idle"
  /\ \E c \in Profiles : c[Session] # None /\ Accept(r, c)

\* fetch_bilibili_account_profile: Bilibili does not answer, or does not
\* recognise the cookie as logged in, or names the account of its session.
Answers(c) ==
  IF c = Empty THEN {None}
  ELSE {None, "anonymous"} \cup ({c[Session]} \ {None})

Validate(r) ==
  /\ pc[r] = "validate"
  /\ \E answer \in Answers(cookie[r]) : profile' = [profile EXCEPT ![r] = answer]
  /\ pc' = [pc EXCEPT ![r] = "select"]
  /\ UNCHANGED <<row, cookie, found>>

\* upsert_system_config looks for the row ...
Select(r) ==
  /\ pc[r] = "select"
  /\ found' = [found EXCEPT ![r] = row]
  /\ pc' = [pc EXCEPT ![r] = "write"]
  /\ UNCHANGED <<row, cookie, profile>>

\* Mutant of Stored: without an account the one that was known is kept.
StoredKeepingProfile(r) ==
  row' = [cookie |-> cookie[r],
          profile |-> IF profile[r] = None /\ row # None
                        THEN row.profile ELSE profile[r]]

\* A value equal to the one that was read is not written.
Stored(r) ==
  LET value == [cookie |-> cookie[r], profile |-> profile[r]]
  IN row' = value \/ (found[r] = value /\ UNCHANGED row)

\* ... and updates or inserts it.  The insert fails when another request has
\* inserted the row meanwhile: its key is unique.
Write(r) ==
  /\ pc[r] = "write"
  /\ IF found[r] = None /\ row # None THEN UNCHANGED row ELSE Stored(r)
  /\ pc' = [pc EXCEPT ![r] = "idle"]
  /\ cookie' = [cookie EXCEPT ![r] = Empty]
  /\ profile' = [profile EXCEPT ![r] = None]
  /\ found' = [found EXCEPT ![r] = None]

Next ==
  \E r \in Requests :
    \/ Submit(r) \/ Import(r) \/ LogInInWindow(r)
    \/ Validate(r) \/ Select(r) \/ Write(r)

Spec == Init /\ [][Next]_vars

-----------------------------------------------------------------------------
ProfileNames == Accounts \cup {"anonymous", None}

Rows == [cookie : Cookies, profile : ProfileNames]

TypeOK ==
  /\ row = None \/ row \in Rows
  /\ pc \in [Requests -> {"idle", "validate", "select", "write"}]
  /\ cookie \in [Requests -> Cookies] /\ profile \in [Requests -> ProfileNames]
  /\ \A r \in Requests : found[r] = None \/ found[r] \in Rows

================================================================================
