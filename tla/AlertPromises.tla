---------------------------- MODULE AlertPromises ----------------------------
(***************************************************************************)
(* What send_alert promises, in the state that shows whether it keeps it:  *)
(* claims in Redis, the senders, and the alerts that have been shown.      *)
(***************************************************************************)
EXTENDS Naturals

CONSTANTS
  Senders,       \* worker processes
  Keys,          \* dedupe keys
  Nobody

VARIABLES
  claim,     \* claim[k]: whose claim of the key is in Redis, or Nobody
  event,     \* event[s]: the key of the alert the sender is busy with
  next,      \* next[s]: the channel to try; past the last one, clear; 0 when idle
  shown,     \* alerts of each key shown since its window began, 2 for many
  blind,     \* keys for which a call to Redis failed in the window
  stuck,     \* keys whose claim outlived the work of the sender that made it
  misread    \* keys whose claim was given back although the alert was shown

Working(s, k) == next[s] # 0 /\ event[s] = k

\* No more than one alert of a kind is shown in a window, whatever senders race
\* for it, die or give their claim back, as long as Redis answers and none has
\* taken an alert that was shown for one that every channel refused: send_alert
\* counts a channel that shows the alert and then fails as a failure.
OneAlertPerWindow == \A k \in Keys : k \notin blind \cup misread => shown[k] <= 1

\* A claim silences a kind of alert only because one has been shown, or because
\* the sender that made the claim is still at it, unless that sender died or
\* could not give the claim back: a report that reached nobody does not keep
\* the next one from being sent.
SilenceHasReason ==
  \A k \in Keys \ stuck :
    claim[k] # Nobody => shown[k] > 0 \/ Working(claim[k], k)

==============================================================================
