---------------------------- MODULE RequestFate ----------------------------
(***************************************************************************)
(* What becomes of the requests that clients publish, whatever the network,*)
(* the tasks and the process do: they are judged one at a time in the      *)
(* order they were published and never twice; one that was not judged yet  *)
(* may be lost, and then with all that were published before it.  (A       *)
(* connection is taken to be gone for both its ends at once, see           *)
(* AmqpReceive.)                                                           *)
(***************************************************************************)
EXTENDS Integers

CONSTANT Messages   \* the requests, numbered in the order they are published

VARIABLE fate   \* of each request

Fates == {"unsent", "waiting", "judging", "answered", "ignored", "lost"}

Init == fate = [m \in Messages |-> "unsent"]

Before(m) == {k \in Messages : k < m}
After(m) == {k \in Messages : k > m}

Send(m) ==
    /\ fate[m] = "unsent"
    /\ \A k \in Before(m) : fate[k] # "unsent"
    /\ fate' = [fate EXCEPT ![m] = "waiting"]

(* Everything before it is over, nothing after it has begun.               *)
Take(m) ==
    /\ fate[m] = "waiting"
    /\ \A k \in Before(m) : fate[k] \in {"answered", "ignored", "lost"}
    /\ \A k \in After(m) : fate[k] \in {"unsent", "waiting"}
    /\ fate' = [fate EXCEPT ![m] = "judging"]

End(m, f) ==
    /\ fate[m] = "judging"
    /\ fate' = [fate EXCEPT ![m] = f]

(* The requests before m that are not over are lost, and m with them.      *)
Lose(m) ==
    /\ fate[m] \in {"waiting", "judging"}
    /\ fate' = [k \in Messages |->
                   IF k <= m /\ fate[k] \in {"waiting", "judging"} THEN "lost" ELSE fate[k]]

Next ==
    \E m \in Messages :
        \/ Send(m) \/ Take(m) \/ Lose(m)
        \/ \E f \in {"answered", "ignored"} : End(m, f)

Spec == Init /\ [][Next]_fate
=============================================================================
