---------------------------- MODULE LoginPromises ----------------------------
(***************************************************************************)
(* What the settings page promises of the login: the stored row, what it   *)
(* comes to together with the environment, and whose account is shown.     *)
(***************************************************************************)
CONSTANTS
  Accounts,      \* Bilibili accounts
  Login,         \* SESSDATA, bili_jct and DedeUserID
  Session,       \* SESSDATA
  Device,        \* buvid3, buvid4
  Environment,   \* the cookie of the environment
  None

VARIABLE
  row        \* runtime_auth: [cookie, profile], or None before the first save

Fields == Login \cup Device

\* resolve_bilibili_auth_settings: what a crawl sends and the page shows.
Resolved ==
  [f \in Fields |-> IF row # None /\ row.cookie[f] # None
                      THEN row.cookie[f] ELSE Environment[f]]

\* The account shown on the settings page is the one whose session the crawler
\* sends: the session is not that of the environment or of an overlapping request,
\* whatever fields the cookies lack.  The rest of the login may be another
\* account's, see README.
ProfileIsOfLogin ==
  row # None /\ row.profile \in Accounts => Resolved[Session] = row.profile

==============================================================================
