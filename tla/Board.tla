---- MODULE Board ----
(* What a front end of the client promises to whoever looks at it: the        *)
(* torrents as the controller last described them when it was looked at, and  *)
(* never a mixture of an older and a newer description.                       *)
VARIABLES
    posted,  \* the torrents as described by all the messages sent so far
    shown    \* the torrents as shown

Init == posted = <<>> /\ shown = <<>>

\* The controller says more; what is shown stays.
Post == UNCHANGED shown

\* Somebody looks: what is shown is all that was said.
Look == shown' = posted /\ UNCHANGED posted

Next == Post \/ Look

Spec == Init /\ [][Next]_<<posted, shown>>
====
