--------------------------- MODULE HandleLifetime ---------------------------
(***************************************************************************)
(* What the user counter promises: a stream is used only between the       *)
(* moment its handle is published and the moment it is retired, and its    *)
(* object goes away only when the last user has left.                      *)
(***************************************************************************)
CONSTANTS Handle, Thread

VARIABLES phase,    \* phase[h]: "absent", "opening", "open" or "closing"
          users     \* users[h]: the threads that are using the stream

vars == <<phase, users>>

Init == /\ phase = [h \in Handle |-> "absent"]
        /\ users = [h \in Handle |-> {}]

Move(h, from, to) == phase[h] = from /\ phase' = [phase EXCEPT ![h] = to]

Create(h)  == Move(h, "absent", "opening") /\ UNCHANGED users
Publish(h) == Move(h, "opening", "open")   /\ UNCHANGED users
Discard(h) == Move(h, "opening", "absent") /\ UNCHANGED users
Retire(h)  == Move(h, "open", "closing")   /\ UNCHANGED users
Destroy(h) == Move(h, "closing", "absent") /\ users[h] = {} /\ UNCHANGED users

Acquire(t, h) == /\ phase[h] = "open"
                 /\ \A g \in Handle : t \notin users[g]
                 /\ users' = [users EXCEPT ![h] = @ \cup {t}]
                 /\ UNCHANGED phase

Release(t, h) == /\ t \in users[h]
                 /\ users' = [users EXCEPT ![h] = @ \ {t}]
                 /\ UNCHANGED phase

Next == \E h \in Handle :
            \/ Create(h) \/ Publish(h) \/ Discard(h) \/ Retire(h) \/ Destroy(h)
            \/ \E t \in Thread : Acquire(t, h) \/ Release(t, h)

Spec == Init /\ [][Next]_vars
=============================================================================
