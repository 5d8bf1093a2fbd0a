--------------------------- MODULE MCJobLifecycle ---------------------------
(* One job, and what oarexec and the users may do to it. *)
EXTENDS JobLifecycle

CONSTANTS j1, j2

OneClass == {"ok"}

NoClass == {}

KillRequests == {"oardel"}

AllRequests == {"oardel", "oarhold", "oarhold -r", "oarresume", "force"}

(* Jobs have no row in common: each is looked at while the other waits *)
Waits(j) ==
  /\ state[j] = "Waiting" /\ resv[j] = "None" /\ frag[j] = "none"
  /\ pc[j] = "idle" /\ \A kind \in CommandKinds : pending[j][kind] = 0
  /\ \A e \in events \cup todo : e.job # j
  /\ cur # NoEvent => cur.event.job # j

OneAtATime == \E j \in Jobs : Waits(j)

(* oarhold -r and --force are for the noop job, of which there is less to see *)
FewRequests == \A j \in Jobs \ Noop : ~OarholdRunning(j) /\ ~OardelForce(j)

=============================================================================
