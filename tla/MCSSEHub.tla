------------------------------ MODULE MCSSEHub ------------------------------
(***************************************************************************)
(* SSEHub with tabs of one user, and a tab of another.                     *)
(***************************************************************************)
EXTENDS SSEHub, TLC

CONSTANTS t1, t2, t3, u1, u2

\* Two tabs of one user.
SameUser == t1 :> u1 @@ t2 :> u1

\* Two tabs of one user and one of another.
TwoUsers == t1 :> u1 @@ t2 :> u1 @@ t3 :> u2

\* The two tabs of one user are interchangeable, and so are the projects.
Symmetry == Permutations({t1, t2}) \cup Permutations(Project)

\* The histories of what was delivered and shown influence no step.
WithoutHistories == <<hub, objects, queue, fans, timers, pc, view, channel, sent>>
=============================================================================
