---------------------------- MODULE ReAuthQuery ----------------------------
(***************************************************************************)
(* baseQueryWithReauth (client/src/services/BaseQuery.js), through which   *)
(* every request of the web client to the server goes, as a function of    *)
(* how its one or two tries end.                                           *)
(*                                                                         *)
(* An operator whose comment says "Changed" is a deliberately wrong        *)
(* version of the one after it.  Nothing uses it: it is there to show      *)
(* that a property notices the mistake it describes.                       *)
(***************************************************************************)
EXTENDS Naturals, Sequences, FiniteSets

(* How a try ends: the handler did it ("done") or refused it; the          *)
(* middleware answered 403 before the handler ("forbidden"); the answer    *)
(* was lost after the handler had done it ("lost"); or prepareHeaders got  *)
(* no token and throws, so that nothing is sent ("unsent").                *)
Try == {"done", "refused", "forbidden", "lost", "unsent"}

(* Changed: after any error.                                               *)
RetriedOnError(t) == t # "done"
(* One more try, with a renewed token.                                     *)
Retried(t) == t = "forbidden"

(* Whether there is an account and the renewal succeeds is up to MSAL.     *)
Query == {<<t>> : t \in Try}
         \cup {<<t, u>> : t \in {v \in Try : Retried(v)}, u \in Try}

(* A second try that cannot be sent is caught: the first answer stays.     *)
Result(q) == IF Len(q) = 2 /\ q[2] = "unsent" THEN q[1] ELSE q[Len(q)]

(* How often the handler did what it was asked.                            *)
Applied(q) == Cardinality({i \in DOMAIN q : q[i] \in {"done", "lost"}})
=============================================================================
