---------------------------- MODULE IngestLedger ----------------------------
(***************************************************************************)
(* What the ingestion pipeline promises about every log entry, said without *)
(* batches, timers, mutexes or sessions: an entry waits in Kafka until it   *)
(* is held in memory, and from there it is stored in Elasticsearch for      *)
(* good.  The only way to lose a usable entry is a mishap that hit it: the  *)
(* process ended while it was held, or Elasticsearch rejected it.           *)
(*                                                                         *)
(* LogConsumer is shown to implement this module.                          *)
(***************************************************************************)
CONSTANT Entry

VARIABLES
  fate,   \* what has become of every entry
  hit     \* the entries that a mishap has hit

vars == <<fate, hit>>

Fate == {"waiting", "held", "stored", "skipped", "lost"}

TypeOK ==
  /\ fate \in [Entry -> Fate]
  /\ hit \subseteq Entry

Init ==
  /\ fate = [e \in Entry |-> "waiting"]
  /\ hit = {}

With(f) == {e \in Entry : fate[e] = f}

Moves(e, from, to) == fate[e] = from /\ fate'[e] = to

\* An entry is taken from Kafka into memory.
Accept(e) ==
  /\ fate[e] = "waiting"
  /\ fate' = [fate EXCEPT ![e] = "held"]
  /\ UNCHANGED hit

\* Held entries leave the memory: some are stored; a mishap hits the others,
\* which wait to be delivered again or, behind the commit, are lost.
Leave ==
  /\ fate' \in [Entry -> Fate]
  /\ hit \subseteq hit' /\ hit' \subseteq Entry
  /\ \A e \in Entry :
       \/ fate'[e] = fate[e]
       \/ Moves(e, "held", "stored")
       \/ e \in hit' /\ (Moves(e, "held", "waiting") \/ Moves(e, "held", "lost"))

\* Waiting entries are put behind the commit: the unusable ones are skipped
\* on purpose, the others had been hit by a mishap before.
Settle ==
  /\ fate' \in [Entry -> Fate]
  /\ UNCHANGED hit
  /\ \A e \in Entry :
       \/ fate'[e] = fate[e]
       \/ Moves(e, "waiting", "skipped")
       \/ e \in hit /\ Moves(e, "waiting", "lost")

Next ==
  \/ \E e \in Entry : Accept(e)
  \/ Leave
  \/ Settle

Spec == Init /\ [][Next]_vars

-----------------------------------------------------------------------------
(***************************************************************************)
(* No entry is lost without a mishap that hit it.                          *)
(***************************************************************************)
NoSilentLoss == With("lost") \subseteq hit

(***************************************************************************)
(* An entry that is stored stays stored, whatever is redelivered later.    *)
(***************************************************************************)
StoredForGood == [][With("stored") \subseteq With("stored")']_vars
=============================================================================
