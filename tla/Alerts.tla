-------------------------------- MODULE Alerts --------------------------------
(***************************************************************************)
(* send_alert: workers report the end of a task over several channels.  A  *)
(* claim in Redis with an expiry keeps a second report of the same kind    *)
(* silent for the length of a window; a report whose every channel failed  *)
(* gives the claim back.                                                   *)
(*                                                                         *)
(* Any call to Redis or to a channel may fail, before or after it took     *)
(* effect, and a worker may die.                                           *)
(***************************************************************************)
EXTENDS AlertPromises

CONSTANT
  Channels       \* number of configured channels, 0 with alerting disabled

Assumption == Channels \in Nat /\ Nobody \notin Senders

VARIABLES
  via,       \* via[s]: delivered_via is not empty
  reached    \* reached[s]: a channel has shown the alert, whatever it answered

vars == <<claim, event, next, via, reached, shown, blind, stuck, misread>>

Init ==
  /\ claim = [k \in Keys |-> Nobody]
  /\ event \in [Senders -> Keys]
  /\ next = [s \in Senders |-> 0]
  /\ via = [s \in Senders |-> FALSE] /\ reached = [s \in Senders |-> FALSE]
  /\ shown = [k \in Keys |-> 0] /\ blind = {} /\ stuck = {} /\ misread = {}

Begin(s, k) ==
  /\ event' = [event EXCEPT ![s] = k]
  /\ next' = [next EXCEPT ![s] = 1]
  /\ via' = [via EXCEPT ![s] = FALSE]
  /\ reached' = [reached EXCEPT ![s] = FALSE]

-----------------------------------------------------------------------------
\* Mutant of Claimed: SET without NX.
ClaimedAnyway(s, k) ==
  /\ claim' = [claim EXCEPT ![k] = s] /\ Begin(s, k)
  /\ UNCHANGED <<blind, stuck>>

\* SET NX answers that the claim is made.
Claimed(s, k) ==
  /\ claim[k] = Nobody
  /\ claim' = [claim EXCEPT ![k] = s] /\ Begin(s, k)
  /\ UNCHANGED <<blind, stuck>>

\* It answers that there is one already, and the alert is dropped.
Dropped(s, k) ==
  /\ claim[k] # Nobody
  /\ UNCHANGED <<claim, event, next, via, reached, blind, stuck>>

\* It fails, which counts as claimed, and may have taken effect all the same.
Unanswered(s, k) ==
  /\ Begin(s, k)
  /\ blind' = blind \cup {k}
  /\ \/ UNCHANGED <<claim, stuck>>
     \/ /\ claim[k] = Nobody
        /\ claim' = [claim EXCEPT ![k] = s]
        /\ UNCHANGED stuck

\* A task has ended and there is a channel to say so.
Alert(s, k) ==
  /\ next[s] = 0 /\ Channels > 0
  /\ Claimed(s, k) \/ Dropped(s, k) \/ Unanswered(s, k)
  /\ UNCHANGED <<shown, misread>>

\* One channel after the other.  A failure only skips the channel, but a request
\* that times out, a status that is raised or an SMTP error may come after the
\* alert was shown.  A channel that answers with success is taken to show it.
Deliver(s) ==
  /\ next[s] \in 1..Channels
  /\ \E ok, told \in BOOLEAN :
       /\ ok => told
       /\ via' = [via EXCEPT ![s] = @ \/ ok]
       /\ reached' = [reached EXCEPT ![s] = @ \/ told]
       /\ shown' = [shown EXCEPT ![event[s]] =
                      IF told /\ ~reached[s] /\ @ < 2 THEN @ + 1 ELSE @]
       /\ next' = [next EXCEPT ![s] =
                     IF next[s] = Channels /\ via'[s] THEN 0 ELSE @ + 1]
  /\ UNCHANGED <<claim, event, blind, stuck, misread>>

\* Mutant of Cleared: the claim stays.
ClearedNever(s) == UNCHANGED <<claim, blind, stuck>>

\* _clear_duplicate_alert_claim: the key is deleted, whoever holds it, and an
\* error is ignored.
Cleared(s) ==
  LET k == event[s]
  IN \/ claim' = [claim EXCEPT ![k] = Nobody] /\ UNCHANGED <<blind, stuck>>
     \/ /\ blind' = blind \cup {k} /\ stuck' = stuck \cup {k}
        /\ claim' \in {claim, [claim EXCEPT ![k] = Nobody]}

\* Every channel failed, also one that has shown the alert.
Clear(s) ==
  /\ next[s] = Channels + 1
  /\ Cleared(s)
  /\ next' = [next EXCEPT ![s] = 0]
  /\ misread' = misread \cup {k \in {event[s]} : reached[s]}
  /\ UNCHANGED <<event, via, reached, shown>>

Dies(s) ==
  /\ next[s] # 0
  /\ stuck' = stuck \cup {k \in {event[s]} : claim[k] = s}
  /\ next' = [next EXCEPT ![s] = 0]
  /\ UNCHANGED <<claim, event, via, reached, shown, blind, misread>>

\* The window is over: the claim, if there still is one, expires.  The window
\* (15 minutes) is longer than a delivery (8 seconds a channel).
Elapse(k) ==
  /\ \A s \in Senders : ~Working(s, k)
  /\ claim' = [claim EXCEPT ![k] = Nobody]
  /\ shown' = [shown EXCEPT ![k] = 0]
  /\ blind' = blind \ {k} /\ stuck' = stuck \ {k} /\ misread' = misread \ {k}
  /\ UNCHANGED <<event, next, via, reached>>

Next ==
  \/ \E s \in Senders : Deliver(s) \/ Clear(s) \/ Dies(s)
  \/ \E s \in Senders, k \in Keys : Alert(s, k)
  \/ \E k \in Keys : Elapse(k)

Spec == Init /\ [][Next]_vars

-----------------------------------------------------------------------------
TypeOK ==
  /\ claim \in [Keys -> Senders \cup {Nobody}]
  /\ event \in [Senders -> Keys] /\ next \in [Senders -> 0..(Channels + 1)]
  /\ via \in [Senders -> BOOLEAN] /\ reached \in [Senders -> BOOLEAN]
  /\ shown \in [Keys -> 0..2]
  /\ blind \subseteq Keys /\ stuck \subseteq Keys /\ misread \subseteq Keys

=============================================================================
