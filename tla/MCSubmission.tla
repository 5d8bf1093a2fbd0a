---------------------------- MODULE MCSubmission ----------------------------
(* Instances of Submission for TLC. *)
EXTENDS Submission, TLC

One(after, hold) ==
  [n |-> 1, keyed |-> FALSE, hold |-> hold, interactive |-> FALSE, moldable |-> TRUE, after |-> after]
Array(keyed, moldable, after) ==
  [n |-> 2, keyed |-> keyed, hold |-> FALSE, interactive |-> FALSE, moldable |-> moldable, after |-> after]

(* One asks for a job on hold, or an array with keys; the other for an     *)
(* array without keys after job 1, or one that is moldable or interactive. *)
AllRequests ==
  "s1" :> {One({}, TRUE), Array(TRUE, TRUE, {})}
  @@ "s2" :> {Array(FALSE, FALSE, {1}), Array(FALSE, TRUE, {}),
              [Array(TRUE, FALSE, {}) EXCEPT !.interactive = TRUE]}

=============================================================================
