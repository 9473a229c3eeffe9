--------------------------- MODULE LivePages_proofs ---------------------------
(***************************************************************************)
(* Proofs that the live pages keep to one EventSource, show every message  *)
(* once and drain their buffer, for all projects, limits and bounds.       *)
(***************************************************************************)
EXTENDS LivePages, FiniteSetTheorems, SequenceTheorems, TLAPS

-----------------------------------------------------------------------------
(* What the operations do to the refs, the timers and the EventSources     *)

\* The setups whose EventSource is connecting or open, and those that await
\* a token.
AliveIn(c)  == {i \in Setup : c.st[i] \in {"connecting", "open"}}
TokensIn(c) == {i \in Setup : c.st[i] = "token"}

\* From c to d no EventSource has opened, and the open ones are as they were.
NoneOpens(c, d) ==
  \A i \in Setup : d.st[i] = "open" =>
    c.st[i] = "open" /\ d.of[i] = c.of[i] /\ d.got[i] = c.got[i]

\* The constants are those of LimitsAssumption, and some project exists.
LEMMA Limits ==
  /\ MaxMoves \in Nat /\ MaxFaults \in Nat /\ MaxMessages \in Nat
  /\ MaxShown \in Nat \ {0} /\ BatchSize \in Nat \ {0}
  /\ SomeProject \in Projects
  /\ NoSetup \notin Setup
BY LimitsAssumption DEF SomeProject, Setup, NoSetup

\* Closing ends the EventSources in I and leaves the rest.
LEMMA CloseFacts ==
  ASSUME NEW c \in Connection, NEW I
  PROVE  LET d == Close(c, I) IN
         /\ d \in Connection
         /\ d.ref = c.ref /\ d.cleanup = c.cleanup /\ d.timer = c.timer
         /\ d.timers = c.timers /\ d.connecting = c.connecting /\ d.attempts = c.attempts
         /\ d.of = c.of /\ d.current = c.current /\ d.got = c.got
         /\ \A i \in Setup : d.st[i] = IF i \in I /\ c.st[i] \in {"connecting", "open"}
                                       THEN "closed" ELSE c.st[i]
BY DEF Close, Connection

\* Releasing ends the EventSources of both refs and the timer.
LEMMA ReleaseFacts ==
  ASSUME NEW c \in Connection
  PROVE  LET d == Release(c) IN
         /\ d \in Connection
         /\ d.ref = NoSetup /\ d.cleanup = NoSetup /\ d.timer = c.timer
         /\ d.timers = c.timers \ {c.timer}
         /\ d.connecting = c.connecting /\ d.attempts = c.attempts
         /\ d.of = c.of /\ d.current = c.current /\ d.got = c.got
         /\ \A i \in Setup : d.st[i] = IF i \in {c.ref, c.cleanup} /\ c.st[i] \in {"connecting", "open"}
                                       THEN "closed" ELSE c.st[i]
<1> DEFINE e == Close(c, {c.ref, c.cleanup})
<1>1. /\ e \in Connection
      /\ e.ref = c.ref /\ e.cleanup = c.cleanup /\ e.timer = c.timer
      /\ e.timers = c.timers /\ e.connecting = c.connecting /\ e.attempts = c.attempts
      /\ e.of = c.of /\ e.current = c.current /\ e.got = c.got
      /\ \A i \in Setup : e.st[i] = IF i \in {c.ref, c.cleanup} /\ c.st[i] \in {"connecting", "open"}
                                    THEN "closed" ELSE c.st[i]
  BY CloseFacts
<1> HIDE DEF e
<1>2. Release(c) = [e EXCEPT !.ref = NoSetup, !.cleanup = NoSetup, !.timers = @ \ {c.timer}]
  BY DEF Release, e
<1> QED BY <1>1, <1>2 DEF Connection

\* Forgetting drops what failed or was closed, unless a timer or a ref holds it.
LEMMA ForgettingFacts ==
  ASSUME NEW c \in Connection
  PROVE  LET d == Forgetting(c) IN
         /\ d \in Connection
         /\ d.ref = c.ref /\ d.cleanup = c.cleanup /\ d.timers = c.timers
         /\ d.connecting = c.connecting /\ d.attempts = c.attempts
         /\ d.timer = IF c.timer \in c.timers THEN c.timer ELSE NoSetup
         /\ \A i \in Setup :
              \/ /\ d.st[i] = c.st[i] /\ d.of[i] = c.of[i]
                 /\ d.current[i] = c.current[i] /\ d.got[i] = c.got[i]
              \/ c.st[i] \in {"failed", "closed"} /\ i # c.ref /\ d.st[i] = "none"
<1> DEFINE dead == {i \in Setup : /\ c.st[i] \in {"failed", "closed"}
                               /\ i \notin c.timers \cup {c.ref, c.cleanup}}
           Without(f, v) == [i \in Setup |-> IF i \in dead THEN v ELSE f[i]]
<1>1. /\ Without(c.st, "none") \in
           [Setup -> {"none", "token", "failed", "connecting", "open", "closed"}]
      /\ Without(c.of, SomeProject) \in [Setup -> Projects]
      /\ Without(c.current, FALSE) \in [Setup -> BOOLEAN]
      /\ Without(c.got, 0) \in [Setup -> 0 .. MaxMessages]
      /\ (IF c.timer \in c.timers THEN c.timer ELSE NoSetup) \in Setup \cup {NoSetup}
  <2>1. /\ c.st \in [Setup -> {"none", "token", "failed", "connecting", "open", "closed"}]
        /\ c.of \in [Setup -> Projects]
        /\ c.current \in [Setup -> BOOLEAN]
        /\ c.got \in [Setup -> 0 .. MaxMessages]
        /\ c.timer \in Setup \cup {NoSetup}
    BY DEF Connection
  <2>2. Without(c.st, "none") \in
           [Setup -> {"none", "token", "failed", "connecting", "open", "closed"}]
    BY <2>1
  <2>3. Without(c.of, SomeProject) \in [Setup -> Projects]
    BY <2>1, Limits
  <2>4. Without(c.current, FALSE) \in [Setup -> BOOLEAN]
    BY <2>1
  <2>5. Without(c.got, 0) \in [Setup -> 0 .. MaxMessages]
    BY <2>1, Limits
  <2> QED BY <2>1, <2>2, <2>3, <2>4, <2>5
<1>2. Forgetting(c) = [c EXCEPT !.st = Without(c.st, "none"),
                                !.of = Without(c.of, SomeProject),
                                !.current = Without(c.current, FALSE),
                                !.got = Without(c.got, 0),
                                !.timer = IF c.timer \in c.timers THEN c.timer ELSE NoSetup]
  BY DEF Forgetting, Connection
<1>3. \A i \in Setup :
        \/ /\ Without(c.st, "none")[i] = c.st[i] /\ Without(c.of, SomeProject)[i] = c.of[i]
           /\ Without(c.current, FALSE)[i] = c.current[i] /\ Without(c.got, 0)[i] = c.got[i]
        \/ /\ c.st[i] \in {"failed", "closed"} /\ i # c.ref
           /\ Without(c.st, "none")[i] = "none"
  OBVIOUS
<1> HIDE DEF Without
<1>4. /\ Forgetting(c) \in Connection
      /\ Forgetting(c).st = Without(c.st, "none")
      /\ Forgetting(c).of = Without(c.of, SomeProject)
      /\ Forgetting(c).current = Without(c.current, FALSE)
      /\ Forgetting(c).got = Without(c.got, 0)
  BY <1>1, <1>2 DEF Connection
<1>5. LET d == Forgetting(c) IN
         /\ d.ref = c.ref /\ d.cleanup = c.cleanup /\ d.timers = c.timers
         /\ d.connecting = c.connecting /\ d.attempts = c.attempts
         /\ d.timer = IF c.timer \in c.timers THEN c.timer ELSE NoSetup
  BY <1>2 DEF Connection
<1> QED BY <1>3, <1>4, <1>5

\* A call of the setup function that reaches its await has taken at most one
\* setup, which awaits a token.
LEMMA AwaitTokenFacts ==
  ASSUME NEW c \in Connection, NEW p \in Projects, NEW g \in BOOLEAN
  PROVE  LET d == AwaitToken(c, p, g) IN
         /\ d \in Connection
         /\ d.ref = c.ref /\ d.cleanup = c.cleanup /\ d.timer = c.timer
         /\ d.timers = c.timers /\ d.connecting = c.connecting /\ d.attempts = c.attempts
         /\ d.got = c.got
         /\ \E k : /\ k \in Setup => d.st[k] = "token"
                   /\ \A i \in Setup \ {k} : /\ d.st[i] = c.st[i] /\ d.of[i] = c.of[i]
                                             /\ d.current[i] = c.current[i]
<1> DEFINE k == CHOOSE j \in Unused(c) : \A l \in Unused(c) : j <= l
<1>1. AwaitToken(c, p, g) = [c EXCEPT !.st[k] = "token", !.of[k] = p, !.current[k] = g]
  BY DEF AwaitToken
<1> HIDE DEF k
<1>2. /\ [c.st EXCEPT ![k] = "token"] \in
           [Setup -> {"none", "token", "failed", "connecting", "open", "closed"}]
      /\ [c.of EXCEPT ![k] = p] \in [Setup -> Projects]
      /\ [c.current EXCEPT ![k] = g] \in [Setup -> BOOLEAN]
  BY DEF Connection
<1>3. AwaitToken(c, p, g) = [c EXCEPT !.st = [c.st EXCEPT ![k] = "token"],
                                      !.of = [c.of EXCEPT ![k] = p],
                                      !.current = [c.current EXCEPT ![k] = g]]
  BY <1>1 DEF Connection
<1> DEFINE d == AwaitToken(c, p, g)
<1>4. /\ d \in Connection
      /\ d.ref = c.ref /\ d.cleanup = c.cleanup /\ d.timer = c.timer
      /\ d.timers = c.timers /\ d.connecting = c.connecting /\ d.attempts = c.attempts
      /\ d.got = c.got
      /\ d.st = [c.st EXCEPT ![k] = "token"]
      /\ d.of = [c.of EXCEPT ![k] = p]
      /\ d.current = [c.current EXCEPT ![k] = g]
  BY <1>2, <1>3 DEF Connection
<1> HIDE DEF d
<1>5. /\ k \in Setup => d.st[k] = "token"
      /\ \A i \in Setup \ {k} : /\ d.st[i] = c.st[i] /\ d.of[i] = c.of[i]
                                /\ d.current[i] = c.current[i]
  BY <1>4 DEF Connection
<1> QED BY <1>4, <1>5 DEF d

\* What starting a setup does, from c to d: it takes at most one more; the
\* timer and, but for alerts, the connection of the refs are gone.
Starts(c, d) ==
  /\ d \in Connection /\ d.attempts = c.attempts
  /\ NoneOpens(c, d)
  /\ AliveIn(d) \subseteq AliveIn(c)
  /\ page = "alerts" => d.ref = c.ref /\ d.timers = c.timers
  /\ page # "alerts" => /\ d.ref = NoSetup /\ c.ref \notin AliveIn(d)
                        /\ d.timers = c.timers \ {c.timer}
                        /\ d.connecting
  /\ \E k : \A i \in TokensIn(d) \ {k} : i \in TokensIn(c) /\ d.current[i] = c.current[i]

\* The setup function does that up to its await.
LEMMA SetupStartedFacts ==
  ASSUME NEW c \in Connection, NEW p \in Projects, NEW g \in BOOLEAN
  PROVE  Starts(c, SetupStarted(c, p, g))
<1>1. CASE page = "alerts"
  <2> DEFINE d == AwaitToken(c, p, g)
  <2>1. /\ d \in Connection /\ d.attempts = c.attempts /\ d.got = c.got
        /\ d.ref = c.ref /\ d.timers = c.timers
        /\ \E k : /\ k \in Setup => d.st[k] = "token"
                  /\ \A i \in Setup \ {k} : /\ d.st[i] = c.st[i] /\ d.of[i] = c.of[i]
                                            /\ d.current[i] = c.current[i]
    BY AwaitTokenFacts
  <2>2. SetupStarted(c, p, g) = d
    BY <1>1 DEF SetupStarted
  <2> HIDE DEF d
  <2>3. /\ NoneOpens(c, d) /\ AliveIn(d) \subseteq AliveIn(c)
        /\ \E k : \A i \in TokensIn(d) \ {k} : i \in TokensIn(c) /\ d.current[i] = c.current[i]
    BY <2>1 DEF NoneOpens, AliveIn, TokensIn
  <2> QED BY <1>1, <2>1, <2>2, <2>3 DEF Starts
<1>2. CASE page # "alerts"
  <2> DEFINE r == Release(c)
             a == AwaitToken(r, p, g)
             d == [a EXCEPT !.timer = NoSetup, !.connecting = TRUE]
  <2>1. SetupStarted(c, p, g) = d
    BY <1>2 DEF SetupStarted
  <2>2. /\ r \in Connection /\ r.ref = NoSetup /\ r.attempts = c.attempts
        /\ r.timers = c.timers \ {c.timer}
        /\ r.of = c.of /\ r.current = c.current /\ r.got = c.got
        /\ \A i \in Setup : r.st[i] = IF i \in {c.ref, c.cleanup} /\ c.st[i] \in {"connecting", "open"}
                                      THEN "closed" ELSE c.st[i]
    BY ReleaseFacts
  <2> HIDE DEF r
  <2>3. /\ a \in Connection /\ a.ref = r.ref /\ a.attempts = r.attempts
        /\ a.timers = r.timers /\ a.got = r.got
        /\ \E k : /\ k \in Setup => a.st[k] = "token"
                  /\ \A i \in Setup \ {k} : /\ a.st[i] = r.st[i] /\ a.of[i] = r.of[i]
                                            /\ a.current[i] = r.current[i]
    BY <2>2, AwaitTokenFacts
  <2> HIDE DEF a
  <2>4. /\ d \in Connection /\ d.connecting
        /\ d.ref = a.ref /\ d.attempts = a.attempts /\ d.timers = a.timers
        /\ d.st = a.st /\ d.of = a.of /\ d.current = a.current /\ d.got = a.got
    BY <2>3 DEF Connection
  <2> HIDE DEF d
  <2>5. PICK k : /\ k \in Setup => d.st[k] = "token"
                 /\ \A i \in Setup \ {k} : /\ d.st[i] = r.st[i] /\ d.of[i] = c.of[i]
                                           /\ d.current[i] = c.current[i]
    BY <2>2, <2>3, <2>4
  <2>6. NoneOpens(c, d)
    BY <2>2, <2>3, <2>4, <2>5 DEF NoneOpens
  <2>7. /\ AliveIn(d) \subseteq AliveIn(c) /\ c.ref \notin AliveIn(d)
        /\ \A i \in TokensIn(d) \ {k} : i \in TokensIn(c) /\ d.current[i] = c.current[i]
    BY <2>2, <2>5 DEF AliveIn, TokensIn
  <2> QED BY <1>2, <2>1, <2>2, <2>3, <2>4, <2>6, <2>7 DEF Starts
<1> QED BY <1>1, <1>2

\* What the cleanup of the effect does, seen from its next run, from c to d:
\* the EventSource of the ref is closed, the timer is gone and no setup is of
\* the latest run.
Cleans(c, d) ==
  /\ d \in Connection /\ d.attempts \in {0, c.attempts}
  /\ NoneOpens(c, d)
  /\ AliveIn(d) \subseteq AliveIn(c) \ {c.ref}
  /\ page = "alerts" => d.timers = c.timers
  /\ page # "alerts" => d.timers = c.timers \ {c.timer} /\ d.timer = c.timer /\ ~ d.connecting
  /\ \A i \in Setup : ~ d.current[i]

\* Cleaned and NextRun do that.
LEMMA CleanedFacts ==
  ASSUME NEW c \in Connection
  PROVE  Cleans(c, NextRun(Cleaned(c)))
<1> DEFINE b == Cleaned(c)
           d == NextRun(b)
<1>1. /\ b \in Connection /\ b.attempts \in {0, c.attempts}
      /\ b.of = c.of /\ b.got = c.got
      /\ \A i \in Setup : b.st[i] # c.st[i] => b.st[i] = "closed"
      /\ c.ref \notin AliveIn(b)
      /\ page = "alerts" => b.timers = c.timers
      /\ page # "alerts" => b.timers = c.timers \ {c.timer} /\ b.timer = c.timer /\ ~ b.connecting
  <2>1. CASE page = "alerts"
    <3>1. b = Close(c, {c.ref})
      BY <2>1 DEF Cleaned
    <3> QED BY <2>1, <3>1, CloseFacts DEF AliveIn
  <2>2. CASE page # "alerts"
    <3> DEFINE r == Release(c)
    <3>1. b = [r EXCEPT !.connecting = FALSE, !.attempts = 0]
      BY <2>2 DEF Cleaned
    <3>2. /\ r \in Connection /\ r.timer = c.timer
          /\ r.timers = c.timers \ {c.timer}
          /\ r.of = c.of /\ r.got = c.got
          /\ \A i \in Setup : r.st[i] = IF i \in {c.ref, c.cleanup} /\ c.st[i] \in {"connecting", "open"}
                                        THEN "closed" ELSE c.st[i]
      BY ReleaseFacts
    <3> HIDE DEF r, b
    <3>3. /\ b \in Connection /\ b.attempts = 0 /\ ~ b.connecting
          /\ b.timer = r.timer /\ b.timers = r.timers
          /\ b.of = r.of /\ b.got = r.got /\ b.st = r.st
      <4>1. 0 \in 0 .. MaxFaults /\ FALSE \in BOOLEAN
        BY Limits
      <4> QED BY <3>1, <3>2, <4>1 DEF Connection
    <3>4. c.ref \notin AliveIn(b)
      BY <3>2, <3>3 DEF AliveIn
    <3> QED BY <2>2, <3>2, <3>3, <3>4
  <2> QED BY <2>1, <2>2
<1> HIDE DEF b
<1>2. /\ d \in Connection /\ d.attempts = b.attempts /\ d.connecting = b.connecting
      /\ d.timers = b.timers /\ d.timer = b.timer
      /\ d.st = b.st /\ d.of = b.of /\ d.got = b.got
      /\ d.current = [i \in Setup |-> FALSE]
  BY <1>1 DEF NextRun, Connection
<1> HIDE DEF d
<1>3. NoneOpens(c, d) /\ AliveIn(d) \subseteq AliveIn(c) \ {c.ref}
  BY <1>1, <1>2 DEF NoneOpens, AliveIn
<1> QED BY <1>1, <1>2, <1>3 DEF b, d, Cleans

\* The numbers in use.
UsedIn(c) == {i \in Setup : c.st[i] # "none"}

\* From c to d no setup and no timer is added.
Frees(c, d) ==
  /\ d \in Connection
  /\ UsedIn(d) \subseteq UsedIn(c) /\ d.timers \subseteq c.timers

\* Forgetting adds nothing.
LEMMA BecomesFrees ==
  ASSUME NEW c \in Connection, Becomes(c)
  PROVE  Frees(c, conn')
<1>1. conn' = Forgetting(c)
  BY DEF Becomes
<1>2. /\ conn' \in Connection /\ conn'.timers = c.timers
      /\ \A i \in Setup : conn'.st[i] = c.st[i] \/ conn'.st[i] = "none"
  BY <1>1, ForgettingFacts
<1> QED BY <1>2 DEF Frees, UsedIn

\* The cleanup of the effect takes none.
LEMMA CleanedFrees ==
  ASSUME NEW c \in Connection
  PROVE  Frees(c, NextRun(Cleaned(c)))
<1> DEFINE b == Cleaned(c)
           d == NextRun(b)
<1>1. /\ b \in Connection /\ b.timers \subseteq c.timers
      /\ \A i \in Setup : b.st[i] = c.st[i] \/ c.st[i] \in {"connecting", "open"}
  <2>1. CASE page = "alerts"
    <3>1. b = Close(c, {c.ref})
      BY <2>1 DEF Cleaned
    <3> QED BY <3>1, CloseFacts
  <2>2. CASE page # "alerts"
    <3> DEFINE r == Release(c)
    <3>1. b = [r EXCEPT !.connecting = FALSE, !.attempts = 0]
      BY <2>2 DEF Cleaned
    <3>2. /\ r \in Connection /\ r.timers = c.timers \ {c.timer}
          /\ \A i \in Setup : r.st[i] = c.st[i] \/ c.st[i] \in {"connecting", "open"}
      <4>1. /\ r \in Connection /\ r.timers = c.timers \ {c.timer}
            /\ \A i \in Setup : r.st[i] = IF i \in {c.ref, c.cleanup} /\ c.st[i] \in {"connecting", "open"}
                                          THEN "closed" ELSE c.st[i]
        BY ReleaseFacts
      <4> HIDE DEF r
      <4> QED BY <4>1
    <3> HIDE DEF r, b
    <3>3. b \in Connection /\ b.timers = r.timers /\ b.st = r.st
      <4>1. 0 \in 0 .. MaxFaults /\ FALSE \in BOOLEAN
        BY Limits
      <4> QED BY <3>1, <3>2, <4>1 DEF Connection
    <3> QED BY <3>2, <3>3
  <2> QED BY <2>1, <2>2
<1> HIDE DEF b
<1>2. d \in Connection /\ d.timers = b.timers /\ d.st = b.st
  BY <1>1 DEF NextRun, Connection
<1> HIDE DEF d
<1>3. UsedIn(d) \subseteq UsedIn(c) /\ d.timers \subseteq c.timers
  BY <1>1, <1>2 DEF UsedIn
<1> QED BY <1>2, <1>3 DEF b, d, Frees

-----------------------------------------------------------------------------
(* One EventSource                                                         *)

(***************************************************************************)
(* A connection whose setups were not overtaken: it has no EventSource but *)
(* the one its ref holds, none while it awaits a token, and no timer       *)
(* unless it has neither; in LiveWatch isConnectingRef guards the one      *)
(* token that the latest run of the effect awaits.                         *)
(***************************************************************************)
Lone(c) ==
  /\ AliveIn(c) \subseteq {c.ref}
  /\ TokensIn(c) # {} => AliveIn(c) = {}
  /\ c.timers \subseteq IF page = "alerts" THEN {} ELSE {c.timer}
  /\ AliveIn(c) \cup TokensIn(c) # {} => c.timers = {}
  /\ page = "watch" => \A i \in TokensIn(c) : c.current[i] =>
       c.connecting /\ \A j \in TokensIn(c) : c.current[j] => i = j

\* The EventSource of the ref is open.
OpenRef(c) == c.ref # NoSetup /\ c.st[c.ref] = "open"

\* What a step does to the connection: it stays of its type, and no stream
\* opens.
Touches(c, d) == d \in Connection /\ d.attempts \in {0, c.attempts} /\ NoneOpens(c, d)

\* Besides, it leaves the connection alone with what it has.
Keeps(c, d) ==
  /\ Touches(c, d)
  /\ AliveIn(d) \subseteq AliveIn(c)
  /\ Lone(c) => Lone(d)

\* What two steps do, one after the other.
LEMMA KeepsTwice ==
  ASSUME NEW b, NEW c, NEW d, Keeps(b, c), Keeps(c, d)
  PROVE  Keeps(b, d)
BY DEF Keeps, Touches, NoneOpens

\* Forgetting dead setups keeps what is alive.
LEMMA ForgettingKeeps ==
  ASSUME NEW c \in Connection
  PROVE  /\ Keeps(c, Forgetting(c))
         /\ OpenRef(c) => OpenRef(Forgetting(c))
<1> DEFINE d == Forgetting(c)
<1>1. /\ d \in Connection
      /\ d.ref = c.ref /\ d.timers = c.timers
      /\ d.connecting = c.connecting /\ d.attempts = c.attempts
      /\ d.timer = IF c.timer \in c.timers THEN c.timer ELSE NoSetup
      /\ \A i \in Setup :
           \/ /\ d.st[i] = c.st[i] /\ d.of[i] = c.of[i]
              /\ d.current[i] = c.current[i] /\ d.got[i] = c.got[i]
           \/ c.st[i] \in {"failed", "closed"} /\ i # c.ref /\ d.st[i] = "none"
  BY ForgettingFacts
<1> HIDE DEF d
<1>2. NoneOpens(c, d)
  BY <1>1 DEF NoneOpens
<1>3. /\ AliveIn(d) = AliveIn(c) /\ TokensIn(d) = TokensIn(c)
      /\ \A i \in TokensIn(c) : d.current[i] = c.current[i]
  BY <1>1 DEF AliveIn, TokensIn
<1>4. ASSUME Lone(c)
      PROVE  Lone(d)
  <2>1. d.timers \subseteq IF page = "alerts" THEN {} ELSE {d.timer}
    BY <1>1, <1>4 DEF Lone
  <2>2. page = "watch" => \A i \in TokensIn(d) : d.current[i] =>
          d.connecting /\ \A j \in TokensIn(d) : d.current[j] => i = j
    BY <1>1, <1>3, <1>4 DEF Lone
  <2> QED BY <1>1, <1>3, <1>4, <2>1, <2>2 DEF Lone
<1>5. OpenRef(c) => OpenRef(d)
  BY <1>1 DEF OpenRef, Connection
<1> QED BY <1>1, <1>2, <1>3, <1>4, <1>5 DEF d, Keeps, Touches

\* The same for a step that ends in Becomes.
LEMMA BecomesKeeps ==
  ASSUME NEW c \in Connection, Becomes(c)
  PROVE  /\ Keeps(c, conn')
         /\ OpenRef(c) => OpenRef(conn')
<1>1. conn' = Forgetting(c)
  BY DEF Becomes
<1> QED BY <1>1, ForgettingKeeps

\* A setup that starts once the page has no other EventSource, no other timer
\* and, in LiveWatch, no token to await for the latest run.
LEMMA SetupStartedKeeps ==
  ASSUME NEW c \in Connection, NEW d, Starts(c, d),
         page = "alerts" => AliveIn(c) = {},
         page = "watch" => (Lone(c) => \A i \in TokensIn(c) : ~ c.current[i])
  PROVE  Keeps(c, d)
<1>1. ASSUME Lone(c)
      PROVE  Lone(d)
  <2>1. AliveIn(d) = {} /\ d.timers = {}
    BY <1>1 DEF Starts, Lone
  <2>2. page = "watch" => \A i \in TokensIn(d) : d.current[i] =>
          d.connecting /\ \A j \in TokensIn(d) : d.current[j] => i = j
    BY <1>1 DEF Starts
  <2> QED BY <2>1, <2>2 DEF Lone
<1> QED BY <1>1 DEF Starts, Keeps, Touches

\* The cleanup leaves no EventSource, if the ref's was the only one.
LEMMA CleanedKeeps ==
  ASSUME NEW c \in Connection
  PROVE  LET d == NextRun(Cleaned(c)) IN
         /\ Keeps(c, d)
         /\ Lone(c) => AliveIn(d) = {}
<1> DEFINE d == NextRun(Cleaned(c))
<1>1. Cleans(c, d)
  BY CleanedFacts
<1> HIDE DEF d
<1>2. ASSUME Lone(c)
      PROVE  Lone(d) /\ AliveIn(d) = {}
  <2>1. AliveIn(d) = {} /\ d.timers = {}
    BY <1>1, <1>2 DEF Cleans, Lone
  <2>2. \A i \in TokensIn(d) : ~ d.current[i]
    BY <1>1 DEF Cleans, TokensIn
  <2> QED BY <2>1, <2>2 DEF Lone
<1> QED BY <1>1, <1>2 DEF d, Keeps, Touches, Cleans

\* A call of the setup function.
LEMMA SetupCalledKeeps ==
  ASSUME NEW c \in Connection, NEW p \in Projects, NEW g \in BOOLEAN,
         NEW barred, NEW b, NEW logs, NEW flag,
         SetupCalled(c, p, g, barred, b, logs, flag)
  PROVE  /\ Touches(c, conn') /\ AliveIn(conn') \subseteq AliveIn(c)
         /\ (page = "alerts" => AliveIn(c) = {}) => Keeps(c, conn')
         /\ isConnected' = flag \/ isConnected' = FALSE
         /\ page = "watch" => isConnected' = FALSE \/ (OpenRef(c) => OpenRef(conn'))
<1>1. CASE ReturnsEarly(c, barred)
  <2>1. Becomes(c) /\ isConnected' = flag
    BY <1>1 DEF SetupCalled
  <2> QED BY <2>1, BecomesKeeps DEF Keeps
<1>2. CASE ~ ReturnsEarly(c, barred)
  <2> DEFINE d == SetupStarted(c, p, g)
  <2>1. Becomes(d) /\ isConnected' = IF page = "watch" THEN FALSE ELSE flag
    BY <1>2 DEF SetupCalled
  <2>2. Starts(c, d)
    BY SetupStartedFacts
  <2> HIDE DEF d
  <2>3. page = "watch" => (Lone(c) => \A i \in TokensIn(c) : ~ c.current[i])
    BY <1>2 DEF Lone, ReturnsEarly
  <2>4. Touches(c, d) /\ AliveIn(d) \subseteq AliveIn(c)
    BY <2>2 DEF Starts, Touches
  <2>5. (page = "alerts" => AliveIn(c) = {}) => Keeps(c, d)
    BY <2>2, <2>3, <2>4, SetupStartedKeeps DEF Keeps
  <2>6. Keeps(d, conn')
    BY <2>1, <2>4, BecomesKeeps DEF Touches
  <2>7. Keeps(c, d) => Keeps(c, conn')
    BY ONLY <2>6, KeepsTwice
  <2>8. Touches(c, conn') /\ AliveIn(conn') \subseteq AliveIn(c)
    BY <2>4, <2>6 DEF Keeps, Touches, NoneOpens
  <2> QED BY <2>1, <2>5, <2>7, <2>8
<1> QED BY <1>1, <1>2

-----------------------------------------------------------------------------
(* The actions that touch the connection                                   *)

\* "Connected" is shown only while the ref's EventSource is open, or when the
\* project query keeps the page from setting one up.
Connected == isConnected => OpenRef(conn) \/ Barred

\* A new run of the effect: its cleanup, and a setup.
LEMMA RerunKeeps ==
  ASSUME conn \in Connection, NEW p \in Projects, NEW barred, Rerun(p, barred)
  PROVE  /\ Keeps(conn, conn')
         /\ isConnected' \in {isConnected /\ page = "watch", FALSE}
         /\ barred = FALSE => isConnected' = FALSE
<1> DEFINE c == NextRun(Cleaned(conn))
           flag == isConnected /\ page = "watch"
<1>1. SetupCalled(c, p, TRUE, barred, ClearedBatch, <<>>, flag)
  BY DEF Rerun
<1>2. Keeps(conn, c) /\ (Lone(conn) => AliveIn(c) = {}) /\ Cleans(conn, c)
  BY CleanedKeeps, CleanedFacts
<1> HIDE DEF c
<1>3. /\ Touches(c, conn') /\ AliveIn(conn') \subseteq AliveIn(c)
      /\ isConnected' = flag \/ isConnected' = FALSE
      /\ (page = "alerts" => AliveIn(c) = {}) => Keeps(c, conn')
  BY <1>1, <1>2, SetupCalledKeeps DEF Keeps, Touches
<1>4. Touches(conn, conn') /\ AliveIn(conn') \subseteq AliveIn(conn)
  BY <1>2, <1>3 DEF Keeps, Touches, NoneOpens
<1>5. Lone(conn) => Lone(conn')
  BY <1>2, <1>3 DEF Keeps
<1>6. barred = FALSE => isConnected' = FALSE
  <2>1. CASE page = "watch"
    <3>1. page = "watch" /\ ~ c.connecting
      BY <1>2, <2>1 DEF Cleans
    <3>2. barred = FALSE => ~ ReturnsEarly(c, barred)
      BY <3>1 DEF ReturnsEarly
    <3> QED BY <1>1, <3>1, <3>2 DEF SetupCalled
  <2>2. CASE page # "watch"
    BY <1>3, <2>2
  <2> QED BY <2>1, <2>2
<1> QED BY <1>3, <1>4, <1>5, <1>6 DEF Keeps

\* A page that was not overtaken has one EventSource at most, none once it is
\* left, and says truly that it is connected.
Alone ==
  /\ Lone(conn)
  /\ Connected
  /\ ~ mounted => AliveIn(conn) = {}

\* A step that keeps the connection keeps that, if it says nothing untrue.
LEMMA KeepsAlone ==
  ASSUME Alone, Keeps(conn, conn'), page' = page, mounted' = mounted,
         isConnected' => OpenRef(conn') \/ Barred'
  PROVE  Alone'
<1>1. Lone(conn') /\ AliveIn(conn') \subseteq AliveIn(conn)
  BY DEF Keeps, Alone
<1>2. Lone(conn)'
  BY <1>1 DEF Lone, AliveIn, TokensIn
<1>3. ~ mounted' => AliveIn(conn') = {}
  BY <1>1 DEF Alone
<1>4. AliveIn(conn)' = AliveIn(conn')
  BY DEF AliveIn
<1>5. OpenRef(conn)' <=> OpenRef(conn')
  BY DEF OpenRef
<1> QED BY <1>2, <1>3, <1>4, <1>5 DEF Alone, Connected

\* The page is left: whatever it had is closed.
LEMMA UnmountKeeps ==
  ASSUME conn \in Connection, Unmount
  PROVE  Touches(conn, conn') /\ (Alone => Alone')
<1> DEFINE c == NextRun(Cleaned(conn))
<1>1. Becomes(c) /\ isConnected' = FALSE /\ page' = page
  BY DEF Unmount
<1>2. Keeps(conn, c) /\ (Lone(conn) => AliveIn(c) = {})
  BY CleanedKeeps
<1> HIDE DEF c
<1>3. Keeps(c, conn')
  BY <1>1, <1>2, BecomesKeeps DEF Keeps, Touches
<1>4. Keeps(conn, conn')
  BY <1>2, <1>3, KeepsTwice
<1>5. ASSUME Alone
      PROVE  Alone'
  <2>1. Lone(conn') /\ AliveIn(conn') = {}
    BY <1>2, <1>3, <1>4, <1>5 DEF Keeps, Alone
  <2>2. Lone(conn)' /\ AliveIn(conn)' = {}
    BY <1>1, <2>1 DEF Lone, AliveIn, TokensIn
  <2> QED BY <1>1, <2>2 DEF Alone, Connected
<1> QED BY <1>4, <1>5 DEF Keeps

\* The tab is hidden: the EventSource of the ref may be closed.
LEMMA HideKeeps ==
  ASSUME conn \in Connection, Hide
  PROVE  Touches(conn, conn') /\ (Alone => Alone')
<1>1. CASE UNCHANGED conn /\ isConnected' = (isConnected /\ ~ FALSE)
  <2>1. Keeps(conn, conn')
    BY <1>1 DEF Keeps, Touches, NoneOpens
  <2>2. Connected => (isConnected' => OpenRef(conn') \/ Barred')
    BY <1>1 DEF Connected, Hide, Barred
  <2> QED BY <2>1, <2>2, KeepsAlone DEF Alone, Keeps, Hide
<1>2. CASE Becomes([Close(conn, {conn.ref}) EXCEPT !.ref = NoSetup]) /\ ~ isConnected'
  <2> DEFINE b == Close(conn, {conn.ref})
             c == [b EXCEPT !.ref = NoSetup]
  <2>1. /\ b \in Connection
        /\ b.timer = conn.timer /\ b.timers = conn.timers
        /\ b.connecting = conn.connecting /\ b.attempts = conn.attempts
        /\ b.of = conn.of /\ b.current = conn.current /\ b.got = conn.got
        /\ \A j \in Setup : b.st[j] = IF j = conn.ref /\ conn.st[j] \in {"connecting", "open"}
                                      THEN "closed" ELSE conn.st[j]
    BY CloseFacts
  <2> HIDE DEF b
  <2>2. /\ c \in Connection
        /\ c.timer = b.timer /\ c.timers = b.timers
        /\ c.connecting = b.connecting /\ c.attempts = b.attempts
        /\ c.of = b.of /\ c.current = b.current /\ c.got = b.got /\ c.st = b.st
    BY <2>1 DEF Connection
  <2>3. Becomes(c) /\ ~ isConnected'
    BY <1>2 DEF b
  <2> HIDE DEF c
  <2>4. /\ NoneOpens(conn, c)
        /\ AliveIn(c) = AliveIn(conn) \ {conn.ref} /\ TokensIn(c) = TokensIn(conn)
    BY <2>1, <2>2 DEF NoneOpens, AliveIn, TokensIn
  <2>5. Lone(conn) => Lone(c)
    BY <2>1, <2>2, <2>4 DEF Lone
  <2>6. Keeps(conn, c)
    BY <2>1, <2>2, <2>4, <2>5 DEF Keeps, Touches
  <2>7. Keeps(c, conn')
    BY <2>2, <2>3, BecomesKeeps
  <2>8. Keeps(conn, conn')
    BY <2>6, <2>7, KeepsTwice
  <2> QED BY <2>3, <2>8, KeepsAlone DEF Keeps, Hide
<1> DEFINE closes == /\ conn.ref # NoSetup
                     /\ \/ page = "monitoring"
                        \/ page = "watch" /\ conn.st[conn.ref] = "open"
<1>3. /\ closes => Becomes([Close(conn, {conn.ref}) EXCEPT !.ref = NoSetup])
      /\ ~ closes => UNCHANGED conn
      /\ isConnected' = (isConnected /\ ~ closes)
  BY DEF Hide, FlagAfter
<1> HIDE DEF closes
<1> QED BY <1>1, <1>2, <1>3

\* The tab is back in sight: a page without a connection sets one up.
LEMMA ShowKeeps ==
  ASSUME conn \in Connection, project \in Projects, Show
  PROVE  Touches(conn, conn') /\ (Alone => Alone') /\ isConnected' \in {isConnected, FALSE}
<1>1. CASE UNCHANGED <<conn, isConnected>>
  <2>1. Keeps(conn, conn')
    BY <1>1 DEF Keeps, Touches, NoneOpens
  <2>2. Connected => (isConnected' => OpenRef(conn') \/ Barred')
    BY <1>1 DEF Connected, Show, Barred
  <2> QED BY <1>1, <2>1, <2>2, KeepsAlone DEF Alone, Keeps, Show
<1>2. CASE /\ SetupCalled(conn, project, TRUE, Barred, batch, buffer, isConnected)
           /\ \/ page = "watch"
              \/ page = "monitoring" /\ conn.ref = NoSetup
  <2>1. /\ Keeps(conn, conn')
        /\ isConnected' = isConnected \/ isConnected' = FALSE
        /\ page = "watch" => isConnected' = FALSE \/ (OpenRef(conn) => OpenRef(conn'))
    BY <1>2, SetupCalledKeeps
  <2>2. Barred' = Barred
    BY DEF Show, Barred
  <2>3. Connected => (isConnected' => OpenRef(conn') \/ Barred')
    BY <1>2, <2>1, <2>2 DEF Connected, OpenRef
  <2> QED BY <2>1, <2>3, KeepsAlone DEF Alone, Keeps, Show
<1> DEFINE asks == \/ page = "monitoring" /\ conn.ref = NoSetup
                   \/ page = "watch" /\ (conn.ref = NoSetup \/ conn.st[conn.ref] = "closed")
<1>3. /\ asks => SetupCalled(conn, project, TRUE, Barred, batch, buffer, isConnected)
      /\ ~ asks => UNCHANGED <<conn, isConnected>>
  BY DEF Show
<1>4. asks => \/ page = "watch"
              \/ page = "monitoring" /\ conn.ref = NoSetup
  OBVIOUS
<1> HIDE DEF asks
<1> QED BY <1>1, <1>2, <1>3, <1>4

\* A retry's timer fires: it sets the connection up again, or is too late.
LEMMA RetryTimerKeeps ==
  ASSUME conn \in Connection, NEW i \in Setup, RetryTimer(i)
  PROVE  Touches(conn, conn') /\ (Alone => Alone') /\ isConnected' \in {isConnected, FALSE}
<1> DEFINE c == [conn EXCEPT !.timers = @ \ {i}]
<1>1. /\ c \in Connection
      /\ c.ref = conn.ref /\ c.timer = conn.timer /\ c.timers = conn.timers \ {i}
      /\ c.connecting = conn.connecting /\ c.attempts = conn.attempts
      /\ c.of = conn.of /\ c.current = conn.current /\ c.got = conn.got /\ c.st = conn.st
  BY DEF Connection
<1>2. /\ i \in conn.timers /\ page' = page /\ mounted' = mounted /\ Barred' = Barred
      /\ \/ SetupCalled(c, c.of[i], c.current[i], FALSE, batch, buffer, isConnected)
         \/ Becomes(c) /\ UNCHANGED isConnected
  BY DEF RetryTimer, tab, Barred
<1> HIDE DEF c
<1>3. c.of[i] \in Projects /\ c.current[i] \in BOOLEAN
  BY <1>1 DEF Connection
<1>4. NoneOpens(conn, c) /\ AliveIn(c) = AliveIn(conn) /\ TokensIn(c) = TokensIn(conn)
  BY <1>1 DEF NoneOpens, AliveIn, TokensIn
<1>5. Keeps(conn, c)
  BY <1>1, <1>4 DEF Keeps, Touches, Lone
<1>6. Alone => page # "alerts" /\ (~ isConnected \/ Barred)
  BY <1>2 DEF Alone, Lone, Connected, OpenRef, AliveIn, Connection
<1>7. /\ Touches(c, conn') /\ (page # "alerts" => Keeps(c, conn'))
      /\ isConnected' = isConnected \/ isConnected' = FALSE
  <2>1. CASE SetupCalled(c, c.of[i], c.current[i], FALSE, batch, buffer, isConnected)
    BY <1>1, <1>3, <2>1, SetupCalledKeeps
  <2>2. CASE Becomes(c) /\ UNCHANGED isConnected
    BY <1>1, <2>2, BecomesKeeps DEF Keeps
  <2> QED BY <1>2, <2>1, <2>2
<1>8. Touches(conn, conn')
  BY <1>5, <1>7 DEF Keeps, Touches, NoneOpens
<1>9. ASSUME Alone
      PROVE  Alone'
  <2>1. Keeps(conn, conn') /\ (isConnected' => Barred')
    BY <1>2, <1>5, <1>6, <1>7, <1>9, KeepsTwice
  <2> QED BY <1>2, <1>9, <2>1, KeepsAlone
<1> QED BY <1>7, <1>8, <1>9

\* The EventSource of setup i is new and that of the ref; others may have
\* been closed.
Arrived(c, i) ==
  /\ c.ref = i
  /\ c.timer = conn.timer /\ c.timers = conn.timers
  /\ c.connecting = conn.connecting /\ c.attempts = conn.attempts
  /\ c.of = conn.of /\ c.current = conn.current /\ c.got = conn.got
  /\ c.st[i] = "connecting"
  /\ \A j \in Setup \ {i} :
       c.st[j] = conn.st[j] \/ (conn.st[j] \in {"connecting", "open"} /\ c.st[j] = "closed")

\* A token is answered: its EventSource is made and becomes that of the ref.
LEMMA TokenArrivesKeeps ==
  ASSUME conn \in Connection, NEW i \in Setup, TokenArrives(i)
  PROVE  Touches(conn, conn') /\ (Alone /\ ~ Overtaken(i) => Alone')
<1>1. \E c \in Connection : Becomes(c) /\ Arrived(c, i)
  <2>1. CASE page = "alerts"
    <3> DEFINE b == Close(conn, {conn.ref})
               c == [b EXCEPT !.st[i] = "connecting", !.ref = i]
    <3>1. /\ b \in Connection
          /\ b.timer = conn.timer /\ b.timers = conn.timers
          /\ b.connecting = conn.connecting /\ b.attempts = conn.attempts
          /\ b.of = conn.of /\ b.current = conn.current /\ b.got = conn.got
          /\ \A j \in Setup : b.st[j] = IF j = conn.ref /\ conn.st[j] \in {"connecting", "open"}
                                        THEN "closed" ELSE conn.st[j]
      BY CloseFacts
    <3>2. Becomes(c)
      BY <2>1 DEF TokenArrives
    <3> HIDE DEF b
    <3>3. /\ c \in Connection /\ c.ref = i
          /\ c.timer = b.timer /\ c.timers = b.timers
          /\ c.connecting = b.connecting /\ c.attempts = b.attempts
          /\ c.of = b.of /\ c.current = b.current /\ c.got = b.got
          /\ c.st[i] = "connecting" /\ \A j \in Setup \ {i} : c.st[j] = b.st[j]
      BY <3>1 DEF Connection
    <3> HIDE DEF c
    <3>4. Arrived(c, i)
      BY <3>1, <3>3 DEF Arrived
    <3> QED BY <3>2, <3>3, <3>4
  <2>2. CASE page # "alerts"
    <3> DEFINE c == [conn EXCEPT !.st[i] = "connecting", !.ref = i, !.cleanup = i]
    <3>1. Becomes(c)
      BY <2>2 DEF TokenArrives
    <3>2. /\ c \in Connection /\ c.ref = i
          /\ c.timer = conn.timer /\ c.timers = conn.timers
          /\ c.connecting = conn.connecting /\ c.attempts = conn.attempts
          /\ c.of = conn.of /\ c.current = conn.current /\ c.got = conn.got
          /\ c.st[i] = "connecting" /\ \A j \in Setup \ {i} : c.st[j] = conn.st[j]
      BY DEF Connection
    <3> HIDE DEF c
    <3>3. Arrived(c, i)
      BY <3>2 DEF Arrived
    <3> QED BY <3>1, <3>2, <3>3
  <2> QED BY <2>1, <2>2
<1>2. PICK c \in Connection : Becomes(c) /\ Arrived(c, i)
  BY <1>1
<1> USE DEF Arrived
<1>3. NoneOpens(conn, c)
  BY <1>2 DEF NoneOpens
<1>4. Keeps(c, conn')
  BY <1>2, BecomesKeeps
<1>5. Touches(conn, conn')
  BY <1>2, <1>3, <1>4 DEF Keeps, Touches, NoneOpens
<1>6. ASSUME Alone, ~ Overtaken(i)
      PROVE  Alone'
  <2>0. /\ conn.st[i] = "token" /\ page' = page /\ mounted' = mounted
        /\ isConnected' = isConnected /\ Barred' = Barred
    BY DEF TokenArrives, tab, Barred
  <2>1. TokensIn(conn) = {i} /\ AliveIn(conn) = {} /\ conn.timers = {}
    BY <1>6, <2>0 DEF Alone, Lone, Overtaken, TokensIn
  <2>2. TokensIn(c) = {} /\ AliveIn(c) = {i}
    BY <1>2, <2>1 DEF TokensIn, AliveIn
  <2>3. Lone(c)
    BY <1>2, <2>1, <2>2 DEF Lone
  <2>4. Lone(conn') /\ mounted /\ (~ isConnected \/ Barred)
    BY <1>4, <1>6, <2>1, <2>3 DEF Keeps, Overtaken, Alone, Connected, OpenRef, AliveIn, Connection
  <2>5. Lone(conn)'
    BY <2>0, <2>4 DEF Lone, AliveIn, TokensIn
  <2> QED BY <2>0, <2>4, <2>5 DEF Alone, Connected
<1> QED BY <1>5, <1>6

\* A timer is set for setup i, which is not alive.
LEMMA RetryFacts ==
  ASSUME NEW c \in Connection, NEW i \in Setup, c.attempts < MaxFaults
  PROVE  LET d == Retry(c, i) IN
         /\ d \in Connection /\ d.attempts = c.attempts + 1
         /\ d.ref = c.ref /\ d.timer = i /\ d.timers = c.timers \cup {i}
         /\ d.connecting = c.connecting
         /\ d.of = c.of /\ d.current = c.current /\ d.got = c.got /\ d.st = c.st
<1>1. c.attempts + 1 \in 0 .. MaxFaults
  BY Limits DEF Connection
<1> QED BY <1>1 DEF Retry, Connection

\* Nothing is alive and no token is awaited, at most a timer runs.
LEMMA AllQuiet ==
  ASSUME AliveIn(conn') = {}, TokensIn(conn') = {}, page' = page, isConnected' = FALSE,
         conn'.timers \subseteq IF page = "alerts" THEN {} ELSE {conn'.timer}
  PROVE  Alone'
<1>1. Lone(conn)' /\ AliveIn(conn)' = {}
  BY DEF Lone, AliveIn, TokensIn
<1> QED BY <1>1 DEF Alone, Connected

\* No token: another attempt is due, or none.
LEMMA TokenFailsKeeps ==
  ASSUME conn \in Connection, faults \in 0 .. MaxFaults, conn.attempts <= faults,
         NEW i \in Setup, TokenFails(i)
  PROVE  /\ conn' \in Connection /\ conn'.attempts <= faults' /\ NoneOpens(conn, conn')
         /\ Alone /\ ~ Overtaken(i) => Alone'
<1> DEFINE c == [conn EXCEPT !.st[i] = "failed", !.connecting = @ /\ page = "alerts"]
<1>1. /\ conn.st[i] = "token" /\ faults < MaxFaults /\ faults' = faults + 1
      /\ page' = page /\ isConnected' = FALSE
      /\ \/ conn' = Retry(c, i) /\ page # "alerts"
         \/ Becomes(c)
  BY DEF TokenFails, Fault, tab
<1>2. /\ c \in Connection
      /\ c.ref = conn.ref /\ c.timer = conn.timer /\ c.timers = conn.timers
      /\ c.attempts = conn.attempts
      /\ c.of = conn.of /\ c.current = conn.current /\ c.got = conn.got
      /\ c.st[i] = "failed" /\ \A j \in Setup \ {i} : c.st[j] = conn.st[j]
  BY DEF Connection
<1> HIDE DEF c
<1>3. NoneOpens(conn, c)
  BY <1>2 DEF NoneOpens
<1>4. Alone /\ ~ Overtaken(i) => AliveIn(c) = {} /\ TokensIn(c) = {} /\ c.timers = {}
  BY <1>1, <1>2 DEF Alone, Lone, Overtaken, AliveIn, TokensIn
<1>5. CASE conn' = Retry(c, i) /\ page # "alerts"
  <2>1. c.attempts < MaxFaults
    BY <1>1, <1>2, Limits DEF Connection
  <2>2. /\ conn' \in Connection /\ conn'.attempts = c.attempts + 1
        /\ conn'.timer = i /\ conn'.timers = c.timers \cup {i}
        /\ conn'.of = c.of /\ conn'.got = c.got /\ conn'.st = c.st
    BY <1>2, <1>5, <2>1, RetryFacts
  <2>3. conn'.attempts <= faults' /\ NoneOpens(conn, conn')
    BY <1>1, <1>2, <1>3, <2>2 DEF NoneOpens, Connection
  <2>4. AliveIn(conn') = AliveIn(c) /\ TokensIn(conn') = TokensIn(c)
    BY <2>2 DEF AliveIn, TokensIn
  <2>5. Alone /\ ~ Overtaken(i) => Alone'
    BY <1>1, <1>4, <1>5, <2>2, <2>4, AllQuiet
  <2> QED BY <2>2, <2>3, <2>5
<1>6. CASE Becomes(c)
  <2>1. Keeps(c, conn')
    BY <1>2, <1>6, BecomesKeeps
  <2>2. conn' \in Connection /\ conn'.attempts <= faults' /\ NoneOpens(conn, conn')
    BY <1>1, <1>2, <1>3, <2>1 DEF Keeps, Touches, NoneOpens, Connection
  <2>3. AliveIn(conn') \subseteq AliveIn(c) /\ TokensIn(conn') = TokensIn(c)
        /\ conn'.timers = c.timers
    <3>1. conn' = Forgetting(c)
      BY <1>6 DEF Becomes
    <3>2. /\ conn'.timers = c.timers
          /\ \A j \in Setup : \/ conn'.st[j] = c.st[j]
                              \/ c.st[j] \in {"failed", "closed"} /\ conn'.st[j] = "none"
      BY <1>2, <3>1, ForgettingFacts
    <3> QED BY <3>2 DEF AliveIn, TokensIn
  <2>4. Alone /\ ~ Overtaken(i) => Alone'
    BY <1>1, <1>4, <2>3, AllQuiet
  <2> QED BY <2>2, <2>4
<1> QED BY <1>1, <1>5, <1>6

\* A stream opens: from now on it is sent what is broadcast.
LEMMA OpensKeeps ==
  ASSUME conn \in Connection, sent \in [Projects -> 0 .. MaxMessages],
         NEW i \in Setup, Opens(i)
  PROVE  /\ conn' \in Connection /\ conn'.attempts \in {0, conn.attempts}
         /\ conn'.of = conn.of
         /\ conn'.got[i] = sent[conn.of[i]]
         /\ \A j \in Setup \ {i} : conn'.st[j] = conn.st[j] /\ conn'.got[j] = conn.got[j]
         /\ Alone => Alone'
<1> DEFINE c == [conn EXCEPT !.st[i] = "open", !.got[i] = sent[conn.of[i]]]
<1>1. /\ conn.st[i] = "connecting" /\ page' = page /\ mounted' = mounted
      /\ conn' = IF page = "alerts" THEN c ELSE [c EXCEPT !.connecting = FALSE, !.attempts = 0]
      /\ isConnected' = mounted
  BY DEF Opens, tab
<1>2. sent[conn.of[i]] \in 0 .. MaxMessages /\ 0 \in 0 .. MaxFaults
  BY Limits DEF Connection
<1>3. /\ c \in Connection
      /\ c.ref = conn.ref /\ c.timer = conn.timer /\ c.timers = conn.timers
      /\ c.attempts = conn.attempts
      /\ c.of = conn.of /\ c.current = conn.current
      /\ c.st[i] = "open" /\ c.got[i] = sent[conn.of[i]]
      /\ \A j \in Setup \ {i} : c.st[j] = conn.st[j] /\ c.got[j] = conn.got[j]
  BY <1>2 DEF Connection
<1> HIDE DEF c
<1>4. /\ conn' \in Connection /\ conn'.attempts \in {0, c.attempts}
      /\ conn'.ref = c.ref /\ conn'.timer = c.timer /\ conn'.timers = c.timers
      /\ conn'.of = c.of /\ conn'.st = c.st /\ conn'.got = c.got
  <2>1. CASE page = "alerts"
    BY <1>1, <1>3, <2>1
  <2>2. CASE page # "alerts"
    BY <1>1, <1>2, <1>3, <2>2 DEF Connection
  <2> QED BY <2>1, <2>2
<1>5. AliveIn(conn') = AliveIn(conn) /\ TokensIn(conn') = TokensIn(conn)
  BY <1>1, <1>3, <1>4 DEF AliveIn, TokensIn
<1>6. ASSUME Alone
      PROVE  Alone'
  <2>1. i = conn.ref /\ mounted /\ TokensIn(conn) = {} /\ conn.timers = {}
    BY <1>1, <1>6 DEF Alone, Lone, AliveIn
  <2>2. Lone(conn')
    BY <1>3, <1>4, <1>5, <1>6, <2>1 DEF Alone, Lone
  <2>3. OpenRef(conn')
    BY <1>3, <1>4, <2>1, Limits DEF OpenRef
  <2>4. Lone(conn)' /\ OpenRef(conn)'
    BY <1>1, <2>2, <2>3 DEF Lone, AliveIn, TokensIn, OpenRef
  <2> QED BY <1>1, <2>1, <2>4 DEF Alone, Connected
<1> QED BY <1>3, <1>4, <1>6

\* A stream of logs or metrics fails: it is closed, and another attempt due
\* if it was that of the ref.
LEMMA StreamFailsKeeps ==
  ASSUME conn \in Connection, faults \in 0 .. MaxFaults, conn.attempts <= faults,
         NEW i \in Setup, StreamFails(i)
  PROVE  /\ conn' \in Connection /\ conn'.attempts <= faults' /\ NoneOpens(conn, conn')
         /\ Alone => Alone'
<1> DEFINE c == [conn EXCEPT !.st[i] = "closed", !.connecting = FALSE]
<1>1. /\ page # "alerts" /\ conn.st[i] \in {"connecting", "open"}
      /\ faults < MaxFaults /\ faults' = faults + 1
      /\ page' = page /\ isConnected' = FALSE
      /\ \/ conn' = Retry(c, i)
         \/ Becomes(c)
         \/ Becomes([c EXCEPT !.attempts = @ + 1])
  BY DEF StreamFails, Fault, tab
<1>2. /\ c \in Connection
      /\ c.ref = conn.ref /\ c.timer = conn.timer /\ c.timers = conn.timers
      /\ c.attempts = conn.attempts
      /\ c.of = conn.of /\ c.current = conn.current /\ c.got = conn.got
      /\ c.st[i] = "closed" /\ \A j \in Setup \ {i} : c.st[j] = conn.st[j]
  BY DEF Connection
<1> HIDE DEF c
<1>3. NoneOpens(conn, c)
  BY <1>2 DEF NoneOpens
<1>4. Alone => AliveIn(c) = {} /\ TokensIn(c) = {} /\ c.timers = {}
  BY <1>1, <1>2 DEF Alone, Lone, AliveIn, TokensIn
<1>5. c.attempts + 1 <= faults' /\ c.attempts <= faults' /\ c.attempts < MaxFaults
  BY <1>1, <1>2, Limits DEF Connection
<1>6. CASE conn' = Retry(c, i)
  <2>1. /\ conn' \in Connection /\ conn'.attempts = c.attempts + 1
        /\ conn'.timer = i /\ conn'.timers = c.timers \cup {i}
        /\ conn'.of = c.of /\ conn'.got = c.got /\ conn'.st = c.st
    BY <1>2, <1>5, <1>6, RetryFacts
  <2>2. conn'.attempts <= faults' /\ NoneOpens(conn, conn')
    BY <1>3, <1>5, <2>1 DEF NoneOpens
  <2>3. AliveIn(conn') = AliveIn(c) /\ TokensIn(conn') = TokensIn(c)
    BY <2>1 DEF AliveIn, TokensIn
  <2>4. Alone => Alone'
    BY <1>1, <1>4, <2>1, <2>3, AllQuiet
  <2> QED BY <2>1, <2>2, <2>4
<1>7. ASSUME NEW d \in Connection, d.attempts \in {c.attempts, c.attempts + 1},
             d.timers = c.timers, d.of = c.of, d.got = c.got, d.st = c.st, Becomes(d)
      PROVE  /\ conn' \in Connection /\ conn'.attempts <= faults' /\ NoneOpens(conn, conn')
             /\ Alone => Alone'
  <2>1. Touches(d, conn')
    BY <1>7, BecomesKeeps DEF Keeps
  <2>2. conn' \in Connection /\ conn'.attempts <= faults' /\ NoneOpens(conn, conn')
    BY <1>1, <1>3, <1>5, <1>7, <2>1 DEF Touches, NoneOpens
  <2>3. AliveIn(conn') \subseteq AliveIn(c) /\ TokensIn(conn') = TokensIn(c)
        /\ conn'.timers = c.timers
    <3>1. conn' = Forgetting(d)
      BY <1>7 DEF Becomes
    <3>2. /\ conn'.timers = c.timers
          /\ \A j \in Setup : \/ conn'.st[j] = c.st[j]
                              \/ c.st[j] \in {"failed", "closed"} /\ conn'.st[j] = "none"
      BY <1>7, <3>1, ForgettingFacts
    <3> QED BY <3>2 DEF AliveIn, TokensIn
  <2>4. Alone => Alone'
    BY <1>1, <1>4, <2>3, AllQuiet
  <2> QED BY <2>2, <2>4
<1>8. CASE Becomes(c)
  BY <1>2, <1>7, <1>8
<1>9. CASE Becomes([c EXCEPT !.attempts = @ + 1])
  <2> DEFINE d == [c EXCEPT !.attempts = @ + 1]
  <2>1. c.attempts + 1 \in 0 .. MaxFaults
    BY <1>2, <1>5, Limits DEF Connection
  <2>2. /\ d \in Connection /\ d.attempts = c.attempts + 1
        /\ d.timers = c.timers /\ d.of = c.of /\ d.got = c.got /\ d.st = c.st
    BY <1>2, <2>1 DEF Connection
  <2>3. Becomes(d)
    BY <1>9
  <2> HIDE DEF d
  <2> QED BY <1>7, <2>2, <2>3
<1> QED BY <1>1, <1>6, <1>8, <1>9

\* A stream of alerts fails: the browser connects again, or gives it up.
LEMMA AlertStreamFailsKeeps ==
  ASSUME conn \in Connection, NEW i \in Setup, AlertStreamFails(i)
  PROVE  Touches(conn, conn') /\ (Alone => Alone')
<1>1. PICK s \in {"connecting", "closed"} : Becomes([conn EXCEPT !.st[i] = s])
  BY DEF AlertStreamFails
<1>2. /\ page = "alerts" /\ conn.st[i] \in {"connecting", "open"}
      /\ page' = page /\ mounted' = mounted /\ isConnected' = FALSE
  BY DEF AlertStreamFails, tab
<1> DEFINE c == [conn EXCEPT !.st[i] = s]
<1>3. /\ c \in Connection
      /\ c.ref = conn.ref /\ c.timer = conn.timer /\ c.timers = conn.timers
      /\ c.attempts = conn.attempts
      /\ c.of = conn.of /\ c.current = conn.current /\ c.got = conn.got
      /\ c.st[i] = s /\ \A j \in Setup \ {i} : c.st[j] = conn.st[j]
  BY DEF Connection
<1>4. Becomes(c)
  BY <1>1
<1> HIDE DEF c
<1>5. NoneOpens(conn, c) /\ AliveIn(c) \subseteq AliveIn(conn) /\ TokensIn(c) = TokensIn(conn)
  BY <1>2, <1>3 DEF NoneOpens, AliveIn, TokensIn
<1>6. Lone(conn) => Lone(c)
  BY <1>2, <1>3, <1>5 DEF Lone
<1>7. Keeps(conn, c)
  BY <1>3, <1>5, <1>6 DEF Keeps, Touches
<1>8. Keeps(c, conn')
  BY <1>3, <1>4, BecomesKeeps
<1>9. Keeps(conn, conn')
  BY <1>7, <1>8, KeepsTwice
<1> QED BY <1>2, <1>9, KeepsAlone DEF Keeps

\* A message is delivered: it counts.
LEMMA DeliverKeeps ==
  ASSUME conn \in Connection, sent \in [Projects -> 0 .. MaxMessages],
         NEW i \in Setup, Deliver(i)
  PROVE  /\ conn' \in Connection /\ conn'.attempts = conn.attempts
         /\ conn'.of = conn.of /\ conn'.st = conn.st
         /\ conn.of[i] \in Projects /\ conn.got[i] \in Nat
         /\ conn'.got[i] = conn.got[i] + 1 /\ conn'.got[i] \in 1 .. MaxMessages
         /\ conn'.got[i] <= sent[conn.of[i]]
         /\ \A j \in Setup \ {i} : conn'.got[j] = conn.got[j]
         /\ Alone => Alone'
<1>1. /\ conn.got[i] < sent[conn.of[i]]
      /\ conn' = [conn EXCEPT !.got[i] = @ + 1]
      /\ page' = page /\ mounted' = mounted /\ isConnected' = isConnected
      /\ Barred' = Barred
  BY DEF Deliver, tab, Barred
<1>2. /\ conn.of[i] \in Projects /\ conn.got[i] \in Nat
      /\ conn.got[i] + 1 \in 1 .. MaxMessages /\ conn.got[i] + 1 <= sent[conn.of[i]]
      /\ conn.got[i] + 1 \in 0 .. MaxMessages
  BY <1>1, Limits DEF Connection
<1>3. /\ conn' \in Connection /\ conn'.attempts = conn.attempts
      /\ conn'.ref = conn.ref /\ conn'.timer = conn.timer /\ conn'.timers = conn.timers
      /\ conn'.connecting = conn.connecting /\ conn'.current = conn.current
      /\ conn'.of = conn.of /\ conn'.st = conn.st
      /\ conn'.got[i] = conn.got[i] + 1
      /\ \A j \in Setup \ {i} : conn'.got[j] = conn.got[j]
  BY <1>1, <1>2 DEF Connection
<1>4. Alone => Alone'
  BY <1>1, <1>3 DEF Alone, Lone, Connected, OpenRef, AliveIn, TokensIn
<1> QED BY <1>2, <1>3, <1>4

-----------------------------------------------------------------------------
(* What the operators on lists return                                      *)

\* Two lists with nothing in common, one after the other.
LEMMA ConcatFacts ==
  ASSUME NEW S, NEW s \in Seq(S), NEW t \in Seq(S)
  PROVE  /\ s \o t \in Seq(S)
         /\ ToSet(s \o t) = ToSet(s) \cup ToSet(t)
         /\ IsInjective(s) /\ IsInjective(t) /\ ToSet(s) \cap ToSet(t) = {}
              => IsInjective(s \o t)
<1> DEFINE u == s \o t
<1>1. /\ u \in Seq(S) /\ Len(u) = Len(s) + Len(t)
      /\ \A i \in 1 .. Len(s) + Len(t) : u[i] = IF i <= Len(s) THEN s[i] ELSE t[i - Len(s)]
  BY ConcatProperties
<1>2. /\ Len(s) \in Nat /\ Len(t) \in Nat
      /\ DOMAIN s = 1 .. Len(s) /\ DOMAIN t = 1 .. Len(t) /\ DOMAIN u = 1 .. Len(u)
  BY <1>1, LenProperties
<1> HIDE DEF u
<1>3. ToSet(u) = ToSet(s) \cup ToSet(t)
  <2>1. ToSet(u) \subseteq ToSet(s) \cup ToSet(t)
    <3> SUFFICES ASSUME NEW i \in 1 .. Len(u)
                 PROVE  u[i] \in ToSet(s) \cup ToSet(t)
      BY <1>2 DEF ToSet
    <3>1. CASE i <= Len(s)
      <4>1. i \in 1 .. Len(s) /\ u[i] = s[i]
        BY <1>1, <1>2, <3>1
      <4> QED BY <1>2, <4>1 DEF ToSet
    <3>2. CASE i > Len(s)
      <4>1. i - Len(s) \in 1 .. Len(t) /\ u[i] = t[i - Len(s)]
        BY <1>1, <1>2, <3>2
      <4> QED BY <1>2, <4>1 DEF ToSet
    <3> QED BY <1>1, <1>2, <3>1, <3>2
  <2>2. ToSet(s) \subseteq ToSet(u)
    <3> SUFFICES ASSUME NEW i \in 1 .. Len(s)
                 PROVE  s[i] \in ToSet(u)
      BY <1>2 DEF ToSet
    <3>1. i \in 1 .. Len(u) /\ u[i] = s[i]
      BY <1>1, <1>2
    <3> QED BY <1>2, <3>1 DEF ToSet
  <2>3. ToSet(t) \subseteq ToSet(u)
    <3> SUFFICES ASSUME NEW i \in 1 .. Len(t)
                 PROVE  t[i] \in ToSet(u)
      BY <1>2 DEF ToSet
    <3>1. i + Len(s) \in 1 .. Len(u) /\ u[i + Len(s)] = t[i]
      BY <1>1, <1>2
    <3> QED BY <1>2, <3>1 DEF ToSet
  <2> QED BY <2>1, <2>2, <2>3
<1>4. ASSUME IsInjective(s), IsInjective(t), ToSet(s) \cap ToSet(t) = {}
      PROVE  IsInjective(u)
  <2> SUFFICES ASSUME NEW i \in 1 .. Len(u), NEW j \in 1 .. Len(u), u[i] = u[j]
               PROVE  i = j
    BY <1>2 DEF IsInjective
  <2>1. \A k \in 1 .. Len(s) : s[k] \in ToSet(s)
    BY <1>2 DEF ToSet
  <2>2. \A k \in 1 .. Len(t) : t[k] \in ToSet(t)
    BY <1>2 DEF ToSet
  <2>3. CASE i <= Len(s) /\ j <= Len(s)
    BY <1>1, <1>2, <1>4, <2>3 DEF IsInjective
  <2>4. CASE i > Len(s) /\ j > Len(s)
    <3>1. i - Len(s) \in 1 .. Len(t) /\ j - Len(s) \in 1 .. Len(t)
          /\ t[i - Len(s)] = t[j - Len(s)]
      BY <1>1, <1>2, <2>4
    <3>2. i - Len(s) = j - Len(s)
      BY <1>2, <1>4, <3>1 DEF IsInjective
    <3> QED BY <1>2, <3>2
  <2>5. CASE i <= Len(s) /\ j > Len(s)
    <3>1. u[i] \in ToSet(s) /\ u[j] \in ToSet(t)
      BY <1>1, <1>2, <2>1, <2>2, <2>5
    <3> QED BY <1>4, <3>1
  <2>6. CASE i > Len(s) /\ j <= Len(s)
    <3>1. u[j] \in ToSet(s) /\ u[i] \in ToSet(t)
      BY <1>1, <1>2, <2>1, <2>2, <2>6
    <3> QED BY <1>4, <3>1
  <2> QED BY <1>1, <1>2, <2>3, <2>4, <2>5, <2>6
<1> QED BY <1>1, <1>3, <1>4 DEF u

\* A list with a new element in front.
LEMMA InFront ==
  ASSUME NEW S, NEW list \in Seq(S), NEW m \in S
  PROVE  /\ <<m>> \o list \in Seq(S)
         /\ ToSet(<<m>> \o list) = {m} \cup ToSet(list)
         /\ IsInjective(list) /\ m \notin ToSet(list) => IsInjective(<<m>> \o list)
<1> DEFINE one == <<m>>
<1>1. one \in Seq(S) /\ ToSet(one) = {m} /\ IsInjective(one)
  BY DEF ToSet, IsInjective
<1> HIDE DEF one
<1>2. /\ one \o list \in Seq(S)
      /\ ToSet(one \o list) = ToSet(one) \cup ToSet(list)
      /\ IsInjective(one) /\ IsInjective(list) /\ ToSet(one) \cap ToSet(list) = {}
           => IsInjective(one \o list)
  BY <1>1, ConcatFacts
<1>3. /\ one \o list \in Seq(S)
      /\ ToSet(one \o list) = {m} \cup ToSet(list)
      /\ IsInjective(list) /\ m \notin ToSet(list) => IsInjective(one \o list)
  BY <1>1, <1>2
<1> QED BY <1>3 DEF one

\* A list with a new element at its end.
LEMMA AppendFacts ==
  ASSUME NEW S, NEW list \in Seq(S), NEW m \in S
  PROVE  /\ Append(list, m) \in Seq(S)
         /\ ToSet(Append(list, m)) = ToSet(list) \cup {m}
         /\ IsInjective(list) /\ m \notin ToSet(list) => IsInjective(Append(list, m))
<1> DEFINE one == <<m>>
<1>1. one \in Seq(S) /\ ToSet(one) = {m} /\ IsInjective(one)
  BY DEF ToSet, IsInjective
<1>2. Append(list, m) = list \o one
  BY AppendIsConcat
<1> HIDE DEF one
<1>3. /\ list \o one \in Seq(S)
      /\ ToSet(list \o one) = ToSet(list) \cup ToSet(one)
      /\ IsInjective(list) /\ IsInjective(one) /\ ToSet(list) \cap ToSet(one) = {}
           => IsInjective(list \o one)
  BY <1>1, ConcatFacts
<1> QED BY <1>1, <1>2, <1>3

\* A stretch of a list, and what is left after its first n elements.
LEMMA SubSeqFacts ==
  ASSUME NEW S, NEW s \in Seq(S), NEW n \in 0 .. Len(s)
  PROVE  LET a == SubSeq(s, 1, n)
             b == SubSeq(s, n + 1, Len(s))
         IN  /\ a \in Seq(S) /\ b \in Seq(S) /\ Len(a) = n /\ Len(b) = Len(s) - n
             /\ ToSet(a) \subseteq ToSet(s) /\ ToSet(b) \subseteq ToSet(s)
             /\ IsInjective(s) => IsInjective(a) /\ IsInjective(b) /\ ToSet(a) \cap ToSet(b) = {}
<1> DEFINE a == SubSeq(s, 1, n)
           b == SubSeq(s, n + 1, Len(s))
<1>1. Len(s) \in Nat /\ n \in Nat /\ n <= Len(s) /\ DOMAIN s = 1 .. Len(s)
      /\ \A i \in 1 .. Len(s) : s[i] \in S
  BY LenProperties
<1>2. /\ a \in Seq(S) /\ Len(a) = n
      /\ \A i \in 1 .. n : a[i] = s[i]
  <2>1. \A i \in 1 .. n : s[i] \in S
    BY <1>1
  <2>2. /\ a \in Seq(S) /\ Len(a) = IF 1 <= n THEN n - 1 + 1 ELSE 0
        /\ \A i \in 1 .. n - 1 + 1 : a[i] = s[1 + i - 1]
    BY <1>1, <2>1, SubSeqProperties
  <2> HIDE DEF a
  <2> QED BY <1>1, <2>2
<1>3. /\ b \in Seq(S) /\ Len(b) = Len(s) - n
      /\ \A i \in 1 .. Len(s) - n : b[i] = s[n + i]
  <2>1. \A i \in n + 1 .. Len(s) : s[i] \in S
    BY <1>1
  <2>2. /\ b \in Seq(S) /\ Len(b) = IF n + 1 <= Len(s) THEN Len(s) - (n + 1) + 1 ELSE 0
        /\ \A i \in 1 .. Len(s) - (n + 1) + 1 : b[i] = s[n + 1 + i - 1]
    BY <1>1, <2>1, SubSeqProperties
  <2> HIDE DEF b
  <2>3. Len(b) = Len(s) - n
    <3>1. CASE n + 1 <= Len(s)
      <4>1. Len(s) - (n + 1) + 1 = Len(s) - n
        BY <1>1
      <4> QED BY <2>2, <3>1, <4>1
    <3>2. CASE n = Len(s)
      <4>1. Len(s) - n = 0 /\ ~ (n + 1 <= Len(s))
        BY <1>1, <3>2
      <4> QED BY <2>2, <4>1
    <3>3. n + 1 <= Len(s) \/ n = Len(s)
      <4> DEFINE l == Len(s)
      <4>1. l \in Nat /\ n \in Nat /\ n <= l
        BY <1>1
      <4> HIDE DEF l
      <4>2. n + 1 <= l \/ n = l
        BY <4>1
      <4> QED BY <4>2 DEF l
    <3> QED BY <3>1, <3>2, <3>3
  <2>4. ASSUME NEW i \in 1 .. Len(s) - n
        PROVE  b[i] = s[n + i]
    <3>1. i \in 1 .. Len(s) - (n + 1) + 1 /\ n + 1 + i - 1 = n + i
      BY <1>1
    <3> QED BY <2>2, <3>1
  <2> QED BY <2>2, <2>3, <2>4
<1>4. DOMAIN a = 1 .. n /\ DOMAIN b = 1 .. Len(s) - n
  BY <1>2, <1>3, LenProperties
<1> HIDE DEF a, b
<1>5. ToSet(a) \subseteq ToSet(s) /\ ToSet(b) \subseteq ToSet(s)
  <2>1. \A i \in 1 .. n : i \in DOMAIN s /\ a[i] = s[i]
    BY <1>1, <1>2
  <2>2. \A i \in 1 .. Len(s) - n : n + i \in DOMAIN s /\ b[i] = s[n + i]
    BY <1>1, <1>3
  <2> QED BY <1>4, <2>1, <2>2 DEF ToSet
<1>6. ASSUME IsInjective(s)
      PROVE  IsInjective(a) /\ IsInjective(b) /\ ToSet(a) \cap ToSet(b) = {}
  <2>1. IsInjective(a)
    BY <1>1, <1>2, <1>4, <1>6 DEF IsInjective
  <2>2. IsInjective(b)
    <3> SUFFICES ASSUME NEW i \in 1 .. Len(s) - n, NEW j \in 1 .. Len(s) - n, b[i] = b[j]
                 PROVE  i = j
      BY <1>4 DEF IsInjective
    <3>1. n + i \in DOMAIN s /\ n + j \in DOMAIN s /\ s[n + i] = s[n + j]
      BY <1>1, <1>3
    <3>2. n + i = n + j
      BY <1>6, <3>1 DEF IsInjective
    <3> QED BY <1>1, <3>2
  <2>3. ASSUME NEW i \in 1 .. n, NEW j \in 1 .. Len(s) - n
        PROVE  a[i] # b[j]
    <3>1. i \in DOMAIN s /\ n + j \in DOMAIN s /\ i # n + j
      BY <1>1
    <3>2. s[i] # s[n + j]
      BY <1>6, <3>1 DEF IsInjective
    <3> QED BY <1>2, <1>3, <3>2
  <2>4. ToSet(a) \cap ToSet(b) = {}
    BY <1>4, <2>3 DEF ToSet
  <2> QED BY <2>1, <2>2, <2>4
<1> QED BY <1>2, <1>3, <1>5, <1>6 DEF a, b

\* Trimming a list keeps its newest elements, no more than there may be.
LEMMA TrimFacts ==
  ASSUME NEW S, NEW s \in Seq(S)
  PROVE  /\ Trim(s) \in Seq(S) /\ Len(Trim(s)) <= MaxShown
         /\ ToSet(Trim(s)) \subseteq ToSet(s)
         /\ IsInjective(s) => IsInjective(Trim(s))
<1> DEFINE n == IF Len(s) < MaxShown THEN Len(s) ELSE MaxShown
<1>1. n \in 0 .. Len(s) /\ n <= MaxShown
  BY LenProperties, Limits
<1>2. Trim(s) = SubSeq(s, 1, n)
  BY DEF Trim
<1> HIDE DEF n
<1> QED BY <1>1, <1>2, SubSeqFacts

\* Filtering a list keeps what is in R, each element as often as before.
LEMMA FilteredFacts ==
  ASSUME NEW S, NEW s \in Seq(S), NEW R, NEW t \in Filtered(s, R)
  PROVE  /\ t \in Seq(S)
         /\ ToSet(t) = ToSet(s) \cap R
         /\ IsInjective(s) => IsInjective(t)
<1> DEFINE kept == {i \in DOMAIN s : s[i] \in R}
           n == Cardinality(kept)
<1>1. DOMAIN s = 1 .. Len(s) /\ Len(s) \in Nat /\ \A i \in 1 .. Len(s) : s[i] \in S
  BY LenProperties
<1>2. n \in Nat
  <2>1. IsFiniteSet(1 .. Len(s))
    BY <1>1, FS_Interval
  <2>2. kept \in SUBSET (1 .. Len(s))
    BY <1>1
  <2> HIDE DEF kept
  <2> QED BY <2>1, <2>2, FS_Subset, FS_CardinalityType
<1>3. PICK f \in Bijection(1 .. n, kept) : t = [j \in DOMAIN f |-> s[f[j]]]
  BY DEF Filtered
<1> HIDE DEF n
<1>4. /\ f \in [1 .. n -> kept]
      /\ \A i, j \in 1 .. n : f[i] = f[j] => i = j
      /\ \A k \in kept : \E j \in 1 .. n : f[j] = k
  BY DEF Bijection, Injection, Surjection, IsInjective
<1>5. /\ DOMAIN t = 1 .. n
      /\ \A j \in 1 .. n : t[j] = s[f[j]] /\ f[j] \in DOMAIN s /\ s[f[j]] \in R
  BY <1>3, <1>4
<1>6. t \in Seq(S)
  <2>1. t \in [1 .. n -> S]
    BY <1>1, <1>3, <1>4
  <2> QED BY <1>2, <2>1
<1>7. ToSet(t) = ToSet(s) \cap R
  BY <1>4, <1>5 DEF ToSet
<1>8. IsInjective(s) => IsInjective(t)
  BY <1>4, <1>5 DEF IsInjective
<1> QED BY <1>6, <1>7, <1>8

\* The first n messages of a project, the newest first.
LEMMA StoredFacts ==
  ASSUME NEW p \in Projects, NEW n \in 0 .. MaxMessages
  PROVE  Stored(p, n) \in Seq(Message) /\ IsInjective(Stored(p, n))
<1> DEFINE s == [k \in 1 .. n |-> <<p, n + 1 - k>>]
<1>1. n \in Nat /\ \A k \in 1 .. n : n + 1 - k \in 1 .. MaxMessages
  BY Limits
<1>2. s \in [1 .. n -> Message]
  BY <1>1 DEF Message
<1>3. s \in Seq(Message)
  <2> HIDE DEF s
  <2> QED BY <1>1, <1>2
<1>4. ASSUME NEW i \in 1 .. n, NEW j \in 1 .. n, s[i] = s[j]
      PROVE  i = j
  <2>1. n + 1 - i = n + 1 - j
    BY <1>4
  <2> QED BY <1>1, <2>1
<1> QED BY <1>3, <1>4 DEF Stored, IsInjective

\* A list of alerts gets the one without an id, if it has not got one.
LEMMA AddAlertFacts ==
  ASSUME NEW S, NEW list \in Seq(S), NoId \in S
  PROVE  /\ AddAlert(list) \in Seq(S)
         /\ ToSet(list) \subseteq ToSet(AddAlert(list))
         /\ IsInjective(list) => IsInjective(AddAlert(list))
<1>1. Contains(list, NoId) <=> NoId \in ToSet(list)
  BY LenProperties DEF Contains, ToSet
<1>2. CASE NoId \in ToSet(list)
  BY <1>1, <1>2 DEF AddAlert
<1>3. CASE NoId \notin ToSet(list)
  <2>1. AddAlert(list) = <<NoId>> \o list
    BY <1>1, <1>3 DEF AddAlert
  <2> QED BY <1>3, <2>1, InFront
<1> QED BY <1>2, <1>3

\* A list of samples gets the new one, unless it is equal to the newest.
LEMMA AddMetricFacts ==
  ASSUME NEW S, NEW list \in Seq(S), Len(list) <= MaxShown, NEW m \in S
  PROVE  /\ AddMetric(list, m) \in Seq(S) /\ Len(AddMetric(list, m)) <= MaxShown
         /\ ToSet(AddMetric(list, m)) \subseteq ToSet(list) \cup {m}
         /\ IsInjective(list) /\ m \notin ToSet(list) => IsInjective(AddMetric(list, m))
<1>1. CASE AddMetric(list, m) = list
  BY <1>1
<1>2. CASE AddMetric(list, m) = Trim(<<m>> \o list)
  <2>1. /\ <<m>> \o list \in Seq(S)
        /\ ToSet(<<m>> \o list) = {m} \cup ToSet(list)
        /\ IsInjective(list) /\ m \notin ToSet(list) => IsInjective(<<m>> \o list)
    BY InFront
  <2> QED BY <1>2, <2>1, TrimFacts
<1> QED BY <1>1, <1>2 DEF AddMetric

\* While fewer messages were broadcast than there may be, each project has
\* had fewer.
LEMMA BroadcastBound ==
  ASSUME sent \in [Projects -> 0 .. MaxMessages], NEW p \in Projects,
         Cardinality({m \in Message : m[2] <= sent[m[1]]}) < MaxMessages
  PROVE  sent[p] < MaxMessages
<1> DEFINE M == {m \in Message : m[2] <= sent[m[1]]}
           n == sent[p]
           f == [k \in 1 .. n |-> <<p, k>>]
<1>1. n \in Nat /\ n <= MaxMessages /\ MaxMessages \in Nat
  BY Limits
<1>2. IsFiniteSet(M) /\ Cardinality(M) \in Nat
  <2>1. IsFiniteSet(1 .. MaxMessages)
    BY Limits, FS_Interval
  <2>2. IsFiniteSet(Message)
    BY <2>1, FS_Product, LimitsAssumption DEF Message
  <2>3. M \in SUBSET Message
    OBVIOUS
  <2> HIDE DEF M
  <2> QED BY <2>2, <2>3, FS_Subset, FS_CardinalityType
<1>3. f \in Injection(1 .. n, M)
  <2>1. \A k \in 1 .. n : <<p, k>> \in M
    BY <1>1 DEF Message
  <2>2. f \in [1 .. n -> M]
    BY <2>1
  <2> QED BY <2>2 DEF Injection, IsInjective
<1>4. Cardinality(1 .. n) = n
  <2> HIDE DEF n
  <2>1. 1 \in Int /\ n \in Int
    BY <1>1
  <2>2. Cardinality(1 .. n) = IF 1 > n THEN 0 ELSE n - 1 + 1
    BY ONLY <2>1, FS_Interval
  <2> QED BY <1>1, <2>2
<1> HIDE DEF M, n, f
<1>5. Cardinality(1 .. n) <= Cardinality(M)
  BY <1>2, <1>3, FS_Injection
<1>6. Cardinality(M) < MaxMessages
  BY DEF M
<1>7. n < MaxMessages
  BY <1>1, <1>2, <1>4, <1>5, <1>6
<1> QED BY <1>7 DEF n

-----------------------------------------------------------------------------
(* Every step of the connection                                            *)

\* Every step keeps the connection to its type, the attempts within the
\* failures, and a page that was not overtaken alone.
LEMMA NextAlone ==
  TypeOK /\ conn.attempts <= faults /\ (~ overlap => Alone) /\ [Next]_vars
    => conn' \in Connection /\ conn'.attempts <= faults' /\ (~ overlap' => Alone')
<1> SUFFICES ASSUME TypeOK, conn.attempts <= faults, ~ overlap => Alone, [Next]_vars
             PROVE  conn' \in Connection /\ conn'.attempts <= faults' /\ (~ overlap' => Alone')
  OBVIOUS
<1> DEFINE Goal == conn' \in Connection /\ conn'.attempts <= faults' /\ (~ overlap' => Alone')
<1>t. /\ conn \in Connection /\ project \in Projects /\ overlap \in BOOLEAN
      /\ sent \in [Projects -> 0 .. MaxMessages]
      /\ faults \in 0 .. MaxFaults /\ faults \in Nat
  BY Limits DEF TypeOK
<1>a. ASSUME Touches(conn, conn'), faults' \in {faults, faults + 1}, overlap' = overlap,
             Alone => Alone'
      PROVE  Goal
  <2>1. conn' \in Connection /\ conn'.attempts \in {0, conn.attempts} /\ conn.attempts \in Nat
    BY <1>t, <1>a, Limits DEF Touches, Connection
  <2> QED BY <1>t, <1>a, <2>1
<1>r. ASSUME NEW p \in Projects, NEW barred \in BOOLEAN, Rerun(p, barred), barred => Barred',
             page' = page, mounted' = mounted,
             faults' \in {faults, faults + 1}, overlap' = overlap
      PROVE  Goal
  <2>a. conn \in Connection /\ p \in Projects /\ Rerun(p, barred)
    BY <1>t, <1>r
  <2>1. Keeps(conn, conn') /\ (barred = FALSE => isConnected' = FALSE)
    BY <2>a, RerunKeeps
  <2> QED BY <1>a, <1>r, <2>1, KeepsAlone DEF Keeps
<1>u. CASE UNCHANGED <<page, mounted, conn, isConnected, faults, overlap, Barred>>
  BY <1>t, <1>u DEF Alone, Lone, Connected, OpenRef, AliveIn, TokensIn
<1>1. CASE ProjectLoaded
  <2>1. CASE loading
    BY <1>t, <1>r, <1>1, <2>1 DEF ProjectLoaded
  <2>2. CASE ~ loading
    BY <1>u, <1>1, <2>2 DEF ProjectLoaded, Barred
  <2> QED BY <2>1, <2>2
<1>0. CASE ProjectFails
  <2>1. Barred'
    BY <1>0 DEF ProjectFails, Barred
  <2> QED BY <1>t, <1>r, <1>0, <2>1 DEF ProjectFails, Fault
<1>2. CASE Unmount
  BY <1>t, <1>a, <1>2, UnmountKeeps DEF Unmount
<1>3. CASE Hide
  BY <1>t, <1>a, <1>3, HideKeeps DEF Hide
<1>4. CASE Show
  BY <1>t, <1>a, <1>4, ShowKeeps DEF Show
<1>5. ASSUME NEW p \in Projects, Navigate(p)
      PROVE  Goal
  <2>1. loading' \in BOOLEAN /\ (loading' => Barred')
    BY <1>5 DEF Navigate, TypeOK, Barred
  <2> QED BY <1>r, <1>5, <2>1 DEF Navigate
<1>6. ASSUME NEW i \in Setup, TokenArrives(i)
      PROVE  Goal
  <2>1. Touches(conn, conn') /\ (Alone /\ ~ Overtaken(i) => Alone')
    BY <1>t, <1>6, TokenArrivesKeeps
  <2>2. faults' = faults /\ (~ overlap' => ~ overlap /\ ~ Overtaken(i))
    BY <1>6 DEF TokenArrives
  <2>3. conn' \in Connection /\ conn'.attempts <= faults'
    BY <1>t, <2>1, <2>2 DEF Touches
  <2> QED BY <2>1, <2>2, <2>3
<1>7. ASSUME NEW i \in Setup, TokenFails(i)
      PROVE  Goal
  <2>1. /\ conn' \in Connection /\ conn'.attempts <= faults'
        /\ Alone /\ ~ Overtaken(i) => Alone'
    BY <1>t, <1>7, TokenFailsKeeps
  <2>2. ~ overlap' => ~ overlap /\ ~ Overtaken(i)
    BY <1>7 DEF TokenFails
  <2> QED BY <1>t, <2>1, <2>2
<1>8. ASSUME NEW i \in Setup, Opens(i)
      PROVE  Goal
  <2>1. conn' \in Connection /\ conn'.attempts \in {0, conn.attempts} /\ (Alone => Alone')
    BY <1>t, <1>8, OpensKeeps
  <2>2. faults' = faults /\ overlap' = overlap
    BY <1>8 DEF Opens
  <2> QED BY <1>t, <2>1, <2>2
<1>9. ASSUME NEW i \in Setup, StreamFails(i)
      PROVE  Goal
  BY <1>t, <1>9, StreamFailsKeeps DEF StreamFails
<1>10. ASSUME NEW i \in Setup, AlertStreamFails(i)
       PROVE  Goal
  <2>1. Touches(conn, conn') /\ (Alone => Alone')
    BY <1>t, <1>10, AlertStreamFailsKeeps
  <2>2. faults < MaxFaults /\ faults' = faults + 1 /\ overlap' = overlap
    BY <1>10 DEF AlertStreamFails, Fault
  <2> QED BY <1>t, <2>1, <2>2 DEF Touches, Connection
<1>11. ASSUME NEW i \in Setup, RetryTimer(i)
       PROVE  Goal
  BY <1>t, <1>a, <1>11, RetryTimerKeeps DEF RetryTimer
<1>12. ASSUME NEW i \in Setup, Deliver(i)
       PROVE  Goal
  BY <1>t, <1>12, DeliverKeeps DEF Deliver
<1>14. ASSUME NEW p \in Projects, Broadcast(p) \/ LoadAnswered(p)
       PROVE  Goal
  BY <1>u, <1>14 DEF Broadcast, LoadAnswered, tab, Barred
<1>15. CASE ProcessBatchedLogs
  BY <1>u, <1>15 DEF ProcessBatchedLogs, tab, Barred
<1>16. ASSUME NEW m \in Listed, MarkAlert(m) \/ DeleteAlert(m)
       PROVE  Goal
  BY <1>u, <1>16 DEF MarkAlert, DeleteAlert, tab, Barred
<1>17. CASE UNCHANGED vars
  BY <1>u, <1>17 DEF vars, tab, Barred
<1> QED BY <1>0, <1>1, <1>2, <1>3, <1>4, <1>5, <1>6, <1>7, <1>8, <1>9, <1>10, <1>11, <1>12, <1>14, <1>15,
           <1>16, <1>17
        DEF Next, Connect

-----------------------------------------------------------------------------
(* Types                                                                   *)

\* Only LiveWatch waits for its project and has a buffer with its timer, and
\* the monitoring of metrics requests no stored ones; a project that loads is
\* awaited, and what a page of metrics or alerts lists is of its kind.
Shape ==
  /\ page # "watch" => answer = "given" /\ batch = "null" /\ buffer = <<>>
  /\ loading => answer = "awaited"
  /\ page # "alerts" => shown \in Seq(Message)
  /\ page = "monitoring" => loads = {}

\* What a call of the setup function does to the batch timer: a setup of
\* LiveWatch that goes on clears it.
LEMMA SetupCalledBatch ==
  ASSUME NEW c, NEW p, NEW g, NEW barred, NEW b, NEW logs, NEW flag,
         SetupCalled(c, p, g, barred, b, logs, flag), stalled \in BOOLEAN
  PROVE  /\ stalled' \in BOOLEAN
         /\ \/ batch' = b /\ stalled' = stalled
               /\ (page = "watch" => barred \/ c.connecting)
            \/ page = "watch" /\ batch' = "null" /\ stalled' = (stalled \/ logs # <<>>)
BY DEF SetupCalled, ReturnsEarly

\* What a new run of the effect does to the buffer and its timer.
LEMMA RerunBatch ==
  ASSUME conn \in Connection, stalled \in BOOLEAN, NEW p, NEW barred, Rerun(p, barred)
  PROVE  /\ buffer' = <<>> /\ stalled' = stalled
         /\ batch' \in {"null", ClearedBatch}
         /\ ~ barred => batch' = IF page = "watch" THEN "null" ELSE ClearedBatch
<1> DEFINE c == NextRun(Cleaned(conn))
<1>1. Cleans(conn, c)
  BY CleanedFacts
<1>2. /\ SetupCalled(c, p, TRUE, barred, ClearedBatch, <<>>, isConnected /\ page = "watch")
      /\ buffer' = <<>>
  BY DEF Rerun
<1> HIDE DEF c
<1>3. page = "watch" => ~ c.connecting
  BY <1>1 DEF Cleans
<1>4. \/ batch' = ClearedBatch /\ stalled' = stalled /\ (page # "watch" \/ barred)
      \/ page = "watch" /\ batch' = "null" /\ stalled' = stalled
  BY <1>2, <1>3 DEF SetupCalled, ReturnsEarly
<1> QED BY <1>2, <1>4

\* Every step keeps the types of what is not in the connection.
LEMMA NextTypes ==
  TypeOK /\ Shape /\ [Next]_vars /\ conn' \in Connection => TypeOK' /\ Shape'
<1> SUFFICES ASSUME TypeOK, Shape, [Next]_vars, conn' \in Connection PROVE TypeOK' /\ Shape'
  OBVIOUS
<1> DEFINE Modes == {"null", "armed", "dead"}
           Goal == TypeOK' /\ Shape'
<1>t. /\ page \in {"watch", "monitoring", "alerts"} /\ project \in Projects
      /\ mounted \in BOOLEAN /\ visible \in BOOLEAN /\ loading \in BOOLEAN
      /\ answer \in {"awaited", "given", "failed"}
      /\ conn \in Connection /\ isConnected \in BOOLEAN
      /\ buffer \in Seq(Message) /\ batch \in Modes
      /\ shown \in Seq(Listed) /\ (page # "alerts" => Len(shown) <= MaxShown)
      /\ read \subseteq Listed /\ loads \subseteq Projects
      /\ sent \in [Projects -> 0 .. MaxMessages]
      /\ moves \in 0 .. MaxMoves /\ faults \in 0 .. MaxFaults
      /\ taken \subseteq Message /\ overlap \in BOOLEAN /\ stalled \in BOOLEAN
  BY DEF TypeOK
<1>e. <<>> \in Seq(Message) /\ <<>> \in Seq(Listed) /\ Len(<<>>) <= MaxShown
  BY EmptySeq, Limits
<1>l. /\ \A s \in Seq(Message) : s \in Seq(Listed)
      /\ page # "alerts" => shown \in Seq(Message)
  BY SeqMonotonic DEF Shape, Listed
<1>m. Move => moves' \in 0 .. MaxMoves
  BY <1>t, Limits DEF Move
<1>f. Fault => faults' \in 0 .. MaxFaults
  BY <1>t, Limits DEF Fault
<1>b. ClearedBatch \in Modes /\ (batch = "null" => ClearedBatch = "null")
  BY <1>t DEF ClearedBatch
<1>r. ASSUME NEW p \in Projects, NEW barred, Rerun(p, barred)
      PROVE  /\ isConnected' \in BOOLEAN /\ buffer' = <<>> /\ stalled' \in BOOLEAN
             /\ batch' \in Modes /\ (batch = "null" => batch' = "null")
  <2>1. isConnected' \in BOOLEAN
    BY <1>t, <1>r, RerunKeeps
  <2>2. buffer' = <<>> /\ stalled' = stalled /\ batch' \in {"null", ClearedBatch}
    BY <1>t, <1>r, RerunBatch
  <2> QED BY <1>t, <1>b, <2>1, <2>2
<1>s. ASSUME NEW c \in Connection, NEW p \in Projects, NEW g \in BOOLEAN, NEW l,
             SetupCalled(c, p, g, l, batch, buffer, isConnected)
      PROVE  /\ isConnected' \in BOOLEAN /\ stalled' \in BOOLEAN
             /\ batch' \in Modes /\ (batch = "null" => batch' = "null")
  <2>1. isConnected' = isConnected \/ isConnected' = FALSE
    BY <1>s, SetupCalledKeeps
  <2>2. stalled' \in BOOLEAN /\ batch' \in {batch, "null"}
    BY <1>t, <1>s, SetupCalledBatch
  <2> QED BY <1>t, <2>1, <2>2
<1>1. CASE ProjectLoaded
  <2>1. /\ UNCHANGED <<page, project, mounted, visible, shown, read, taken, sent,
                       moves, faults, overlap>>
        /\ loading' = FALSE /\ answer = "awaited" /\ answer' = "given"
        /\ \/ loads' = loads \cup {project} /\ Rerun(project, FALSE)
           \/ UNCHANGED <<conn, isConnected, buffer, batch, loads, stalled>>
    BY <1>1 DEF ProjectLoaded
  <2>2. page = "watch"
    BY <2>1 DEF Shape
  <2>3. /\ isConnected' \in BOOLEAN /\ stalled' \in BOOLEAN /\ batch' \in Modes
        /\ buffer' \in Seq(Message) /\ loads' \subseteq Projects
    BY <1>t, <1>e, <1>r, <2>1
  <2> QED BY <1>t, <1>l, <2>1, <2>2, <2>3 DEF TypeOK, Shape
<1>0. CASE ProjectFails
  <2>1. /\ UNCHANGED <<page, project, mounted, visible, shown, read, loads, taken, sent,
                       moves, overlap>>
        /\ loading' = FALSE /\ answer = "awaited" /\ answer' = "failed" /\ Fault
        /\ Rerun(project, TRUE)
    BY <1>0 DEF ProjectFails
  <2>2. page = "watch"
    BY <2>1 DEF Shape
  <2> QED BY <1>t, <1>e, <1>f, <1>l, <1>r, <2>1, <2>2 DEF TypeOK, Shape
<1>2. CASE Unmount
  <2>1. /\ UNCHANGED <<page, project, visible, loading, answer, sent, faults, taken, overlap, stalled>>
        /\ mounted' = FALSE /\ Move /\ isConnected' = FALSE /\ buffer' = <<>>
        /\ batch' = ClearedBatch /\ shown' = <<>> /\ read' = {} /\ loads' = {}
    BY <1>2 DEF Unmount
  <2> QED BY <1>t, <1>l, <1>e, <1>m, <1>b, <2>1 DEF TypeOK, Shape
<1>3. CASE Hide
  <2>1. /\ UNCHANGED <<page, project, mounted, loading, answer, buffer, batch, shown, read, loads,
                       taken, sent, faults, overlap, stalled>>
        /\ visible' = FALSE /\ Move /\ isConnected' \in BOOLEAN
    BY <1>3 DEF Hide, data, FlagAfter
  <2> QED BY <1>t, <1>l, <1>m, <2>1 DEF TypeOK, Shape
<1>4. CASE Show
  <2>1. /\ UNCHANGED <<page, project, mounted, loading, answer, buffer, shown, read, loads, taken,
                       sent, moves, faults, overlap>>
        /\ visible' = TRUE
    BY <1>4 DEF Show, data
  <2>2. \/ SetupCalled(conn, project, TRUE, Barred, batch, buffer, isConnected)
        \/ UNCHANGED <<isConnected, batch, stalled>>
    BY <1>4 DEF Show
  <2>3. /\ isConnected' \in BOOLEAN /\ stalled' \in BOOLEAN
        /\ batch' \in Modes /\ (batch = "null" => batch' = "null")
    BY <1>t, <1>l, <1>s, <2>2
  <2> QED BY <1>t, <1>l, <2>1, <2>3 DEF TypeOK, Shape
<1>5. ASSUME NEW p \in Projects, Navigate(p)
      PROVE  Goal
  <2>1. /\ UNCHANGED <<page, mounted, visible, shown, read, taken, sent, faults, overlap>>
        /\ project' = p /\ Move /\ Rerun(p, loading')
        /\ \/ answer' = "given" /\ loading' = FALSE
           \/ page = "watch" /\ answer' = "awaited" /\ loading' = loading
        /\ loads' = CASE page = "watch"      -> IF loading' THEN loads ELSE loads \cup {p}
                      [] page = "alerts"     -> {p}
                      [] page = "monitoring" -> {}
    BY <1>5 DEF Navigate
  <2>2. loads' \subseteq Projects /\ (page = "monitoring" => loads' = {})
    BY <1>t, <1>l, <2>1
  <2>3. /\ loading' \in BOOLEAN /\ answer' \in {"awaited", "given"}
        /\ loading' => answer' = "awaited"
        /\ page # "watch" => answer' = "given"
    BY <1>t, <2>1
  <2> QED BY <1>t, <1>l, <1>e, <1>m, <1>r, <2>1, <2>2, <2>3 DEF TypeOK, Shape
<1>6. ASSUME NEW i \in Setup, TokenArrives(i)
      PROVE  Goal
  <2>1. /\ UNCHANGED <<page, project, mounted, visible, loading, answer, isConnected, buffer, batch,
                       shown, read, loads, taken, sent, moves, faults, stalled>>
        /\ overlap' \in BOOLEAN
    BY <1>6 DEF TokenArrives, tab, data
  <2> QED BY <1>t, <1>l, <2>1 DEF TypeOK, Shape
<1>7. ASSUME NEW i \in Setup, TokenFails(i)
      PROVE  Goal
  <2>1. /\ UNCHANGED <<page, project, mounted, visible, loading, answer, buffer, batch,
                       shown, read, loads, taken, sent, moves, stalled>>
        /\ overlap' \in BOOLEAN /\ Fault /\ isConnected' = FALSE
    BY <1>7 DEF TokenFails, tab, data
  <2> QED BY <1>t, <1>l, <1>f, <2>1 DEF TypeOK, Shape
<1>8. ASSUME NEW i \in Setup, Opens(i)
      PROVE  Goal
  <2>1. /\ UNCHANGED <<page, project, mounted, visible, loading, answer, buffer, batch, shown, read,
                       loads, taken, sent, moves, faults, overlap, stalled>>
        /\ isConnected' = mounted
    BY <1>8 DEF Opens, tab, data
  <2> QED BY <1>t, <1>l, <2>1 DEF TypeOK, Shape
<1>9. ASSUME NEW i \in Setup, StreamFails(i) \/ AlertStreamFails(i)
      PROVE  Goal
  <2>1. /\ UNCHANGED <<page, project, mounted, visible, loading, answer, buffer, batch, shown, read,
                       loads, taken, sent, moves, overlap, stalled>>
        /\ Fault /\ isConnected' = FALSE
    BY <1>9 DEF StreamFails, AlertStreamFails, tab, data
  <2> QED BY <1>t, <1>l, <1>f, <2>1 DEF TypeOK, Shape
<1>10. ASSUME NEW i \in Setup, RetryTimer(i)
       PROVE  Goal
  <2> DEFINE c == [conn EXCEPT !.timers = @ \ {i}]
  <2>1. UNCHANGED <<page, project, mounted, visible, loading, answer, buffer, shown, read, loads,
                    taken, sent, moves, faults, overlap>>
    BY <1>10 DEF RetryTimer, tab, data
  <2>2. \/ SetupCalled(c, c.of[i], c.current[i], FALSE, batch, buffer, isConnected)
        \/ UNCHANGED <<isConnected, batch, stalled>>
    BY <1>10 DEF RetryTimer
  <2>3. c \in Connection /\ c.of[i] \in Projects /\ c.current[i] \in BOOLEAN
    BY <1>t DEF Connection
  <2> HIDE DEF c
  <2>4. /\ isConnected' \in BOOLEAN /\ stalled' \in BOOLEAN
        /\ batch' \in Modes /\ (batch = "null" => batch' = "null")
    BY <1>t, <1>l, <1>s, <2>2, <2>3
  <2> QED BY <1>t, <1>l, <2>1, <2>4 DEF TypeOK, Shape
<1>11. ASSUME NEW i \in Setup, Deliver(i)
       PROVE  Goal
  <2> DEFINE m == <<conn.of[i], conn'.got[i]>>
  <2>1. UNCHANGED <<page, project, mounted, visible, loading, answer, isConnected, read, loads,
                    taken, sent, moves, faults, overlap>>
    BY <1>11 DEF Deliver, tab
  <2>2. m \in Message
    BY <1>t, <1>l, <1>11, DeliverKeeps DEF Message
  <2>3. \/ /\ page = "watch"
           /\ buffer' = Append(buffer, m)
           /\ batch' = IF batch = "null" THEN "armed" ELSE batch
           /\ stalled' = (stalled /\ batch # "null")
           /\ UNCHANGED shown
        \/ /\ page # "watch"
           /\ shown' = CASE ~ mounted           -> shown
                         [] page = "monitoring" -> AddMetric(shown, m)
                         [] page = "alerts"     -> AddAlert(shown)
           /\ UNCHANGED <<buffer, batch, stalled>>
    BY <1>11 DEF Deliver
  <2> HIDE DEF m
  <2>4. CASE page = "watch"
    <3>a. /\ buffer' = Append(buffer, m)
          /\ batch' = IF batch = "null" THEN "armed" ELSE batch
          /\ stalled' = (stalled /\ batch # "null")
          /\ shown' = shown
      BY <2>3, <2>4
    <3>b. buffer' \in Seq(Message)
      BY <1>t, <2>2, <3>a, AppendFacts
    <3>c. batch' \in Modes
      BY <1>t, <3>a
    <3>1. buffer' \in Seq(Message) /\ batch' \in Modes /\ stalled' \in BOOLEAN /\ shown' = shown
      BY <1>t, <3>a, <3>b, <3>c
    <3> QED BY <1>t, <1>l, <2>1, <2>4, <3>1 DEF TypeOK, Shape
  <2>5. CASE page # "watch"
    <3>1. /\ AddAlert(shown) \in Seq(Listed)
          /\ page = "monitoring" =>
               AddMetric(shown, m) \in Seq(Message) /\ Len(AddMetric(shown, m)) <= MaxShown
      BY <1>t, <1>l, <2>2, AddAlertFacts, AddMetricFacts DEF Listed
    <3>2. /\ shown' \in Seq(Listed) /\ (page # "alerts" => Len(shown') <= MaxShown)
          /\ page # "alerts" => shown' \in Seq(Message)
      BY <1>t, <1>l, <2>3, <2>5, <3>1
    <3> QED BY <1>t, <1>l, <2>1, <2>3, <2>5, <3>2 DEF TypeOK, Shape
  <2> QED BY <2>4, <2>5
<1>12. ASSUME NEW p \in Projects, Broadcast(p)
       PROVE  Goal
  <2>1. /\ UNCHANGED <<page, project, mounted, visible, loading, answer, isConnected, buffer, batch,
                       shown, read, loads, taken, moves, faults, overlap, stalled>>
        /\ sent' = [sent EXCEPT ![p] = @ + 1]
    BY <1>12 DEF Broadcast, tab, data
  <2>2. sent[p] < MaxMessages
    BY <1>t, <1>l, <1>12, BroadcastBound DEF Broadcast
  <2>3. sent' \in [Projects -> 0 .. MaxMessages]
    BY <1>t, <1>l, <2>1, <2>2, Limits
  <2> QED BY <1>t, <1>l, <2>1, <2>3 DEF TypeOK, Shape
<1>13. CASE ProcessBatchedLogs
  <2> DEFINE n    == IF Len(buffer) < BatchSize THEN Len(buffer) ELSE BatchSize
             rest == SubSeq(buffer, n + 1, Len(buffer))
             front == SubSeq(buffer, 1, n)
  <2>1. /\ UNCHANGED <<page, project, mounted, visible, loading, answer, isConnected, read, loads,
                       sent, moves, faults, overlap, stalled>>
        /\ batch = "armed" /\ buffer' = rest
        /\ batch' = IF buffer = <<>> THEN "dead" ELSE ArmedAfter(rest)
        /\ shown' = IF mounted THEN Trim(front \o shown) ELSE shown
        /\ taken' = taken \cup ToSet(front)
    BY <1>13 DEF ProcessBatchedLogs, tab
  <2>0. page = "watch" /\ shown \in Seq(Message)
    BY <1>l, <2>1 DEF Shape
  <2>2. n \in 0 .. Len(buffer)
    BY <1>t, LenProperties, Limits
  <2>3. /\ front \in Seq(Message) /\ rest \in Seq(Message)
        /\ ToSet(front) \subseteq ToSet(buffer)
    BY <1>t, <1>l, <2>2, SubSeqFacts
  <2>4. ToSet(buffer) \subseteq Message
    BY <1>t, <1>l, LenProperties DEF ToSet
  <2> HIDE DEF n, rest, front
  <2>5. Trim(front \o shown) \in Seq(Message) /\ Len(Trim(front \o shown)) <= MaxShown
    BY <2>0, <2>3, ConcatFacts, TrimFacts
  <2>6. shown' \in Seq(Message) /\ Len(shown') <= MaxShown
    BY <1>t, <1>l, <2>0, <2>1, <2>5
  <2>7. batch' \in Modes /\ taken' \subseteq Message
    BY <1>t, <2>1, <2>3, <2>4 DEF ArmedAfter
  <2> QED BY <1>t, <1>l, <2>0, <2>1, <2>3, <2>6, <2>7 DEF TypeOK, Shape
<1>14. ASSUME NEW p \in Projects, LoadAnswered(p)
       PROVE  Goal
  <2>1. /\ UNCHANGED <<page, project, mounted, visible, loading, answer, isConnected, buffer, batch,
                       read, taken, sent, moves, faults, overlap, stalled>>
        /\ loads' = loads \ {p} /\ p \in loads
    BY <1>14 DEF LoadAnswered, tab
  <2> DEFINE Lists == /\ shown' \in Seq(Listed)
                      /\ page # "alerts" => shown' \in Seq(Message) /\ Len(shown') <= MaxShown
  <2>2. Lists
    <3>1. CASE UNCHANGED shown
      BY <1>t, <1>l, <3>1
    <3>2. ASSUME NEW n \in 0 .. sent[p], page = "watch", shown' = Trim(Stored(p, n))
          PROVE  Lists
      <4>1. n \in 0 .. MaxMessages
        BY <1>t, <1>l, Limits
      <4> QED BY <1>l, <3>2, <4>1, StoredFacts, TrimFacts
    <3>3. ASSUME NEW n \in 0 .. sent[p], page # "watch",
                 NEW new \in Filtered(Stored(p, n), Listed \ ToSet(shown)), shown' = shown \o new
          PROVE  Lists
      <4>1. n \in 0 .. MaxMessages
        BY <1>t, <1>l, Limits
      <4>2. new \in Seq(Listed)
        BY <1>l, <3>3, <4>1, StoredFacts, FilteredFacts
      <4>3. page = "alerts"
        BY <1>t, <1>l, <2>1, <3>3 DEF Shape
      <4> QED BY <1>t, <1>l, <3>3, <4>2, <4>3, ConcatFacts
    <3> QED BY <1>14, <3>1, <3>2, <3>3 DEF LoadAnswered
  <2> QED BY <1>t, <1>l, <2>1, <2>2 DEF TypeOK, Shape
<1>15. ASSUME NEW m \in Listed, MarkAlert(m)
       PROVE  Goal
  <2>1. /\ UNCHANGED <<page, project, mounted, visible, loading, answer, isConnected, buffer, batch,
                       shown, loads, taken, sent, moves, faults, overlap, stalled>>
        /\ read' = IF m \in read THEN read \ {m} ELSE read \cup {m}
    BY <1>15 DEF MarkAlert, tab
  <2> QED BY <1>t, <1>l, <2>1 DEF TypeOK, Shape
<1>16. ASSUME NEW m \in Listed, DeleteAlert(m)
       PROVE  Goal
  <2>1. /\ UNCHANGED <<page, project, mounted, visible, loading, answer, isConnected, buffer, batch,
                       loads, taken, sent, moves, faults, overlap, stalled>>
        /\ read' = read \ {m} /\ shown' \in Filtered(shown, Listed \ {m}) /\ page = "alerts"
    BY <1>16 DEF DeleteAlert, tab
  <2>2. shown' \in Seq(Listed)
    BY <1>t, <2>1, FilteredFacts
  <2> QED BY <1>t, <1>l, <2>1, <2>2 DEF TypeOK, Shape
<1>17. CASE UNCHANGED vars
  BY <1>t, <1>17 DEF vars, tab, data, TypeOK, Shape
<1> QED BY <1>0, <1>1, <1>2, <1>3, <1>4, <1>5, <1>6, <1>7, <1>8, <1>9, <1>10, <1>11, <1>12, <1>13,
           <1>14, <1>15, <1>16, <1>17
        DEF Next, Connect

-----------------------------------------------------------------------------
(* The buffer and its timer                                                *)

\* In a LiveWatch that is open for a project the batch timer's ref is never the handle of a
\* dead timer, which would keep new logs from setting it: the timer runs
\* exactly while there are logs to show, unless a setup has cleared it.
Batches ==
  page = "watch" /\ mounted /\ ~ Barred =>
    /\ batch # "dead"
    /\ batch = "armed" => buffer # <<>>
    /\ buffer # <<>> => batch = "armed" \/ stalled

\* Every step keeps that.
LEMMA NextBatches ==
  TypeOK /\ Batches /\ [Next]_vars => Batches'
<1> SUFFICES ASSUME TypeOK, Batches, [Next]_vars PROVE Batches'
  OBVIOUS
<1>t. conn \in Connection /\ stalled \in BOOLEAN /\ buffer \in Seq(Message)
      /\ batch \in {"null", "armed", "dead"}
  BY DEF TypeOK
<1>r. ASSUME NEW p \in Projects, NEW barred, Rerun(p, barred), barred => Barred', page' = page
      PROVE  Batches'
  <2>1. buffer' = <<>> /\ (page = "watch" /\ ~ barred => batch' = "null")
    BY <1>t, <1>r, RerunBatch
  <2> QED BY <1>r, <2>1 DEF Batches
<1>s. ASSUME NEW c, NEW p, NEW g, NEW l,
             SetupCalled(c, p, g, l, batch, buffer, isConnected),
             UNCHANGED <<page, mounted, buffer, Barred>>
      PROVE  Batches'
  <2>1. \/ batch' = batch /\ stalled' = stalled
        \/ page = "watch" /\ batch' = "null" /\ stalled' = (stalled \/ buffer # <<>>)
    BY <1>t, <1>s, SetupCalledBatch
  <2> QED BY <1>s, <2>1 DEF Batches
<1>u. CASE UNCHANGED <<page, mounted, buffer, batch, stalled, Barred>>
  BY <1>u DEF Batches
<1>1. CASE ProjectLoaded
  <2>1. CASE loading
    BY <1>r, <1>1, <2>1 DEF ProjectLoaded, TypeOK
  <2>2. CASE ~ loading
    BY <1>u, <1>1, <2>2 DEF ProjectLoaded, Barred
  <2> QED BY <2>1, <2>2
<1>0. CASE ProjectFails
  <2>1. Barred' /\ project \in Projects
    BY <1>0 DEF ProjectFails, Barred, TypeOK
  <2> QED BY <1>r, <1>0, <2>1 DEF ProjectFails
<1>2. CASE Unmount
  BY <1>2 DEF Unmount, Batches
<1>3. CASE Hide
  BY <1>u, <1>3 DEF Hide, Barred
<1>4. CASE Show
  <2>1. UNCHANGED <<page, mounted, buffer, Barred>>
    BY <1>4 DEF Show, Barred
  <2>2. \/ SetupCalled(conn, project, TRUE, Barred, batch, buffer, isConnected)
        \/ UNCHANGED <<batch, stalled>>
    BY <1>4 DEF Show
  <2> QED BY <1>s, <1>u, <2>1, <2>2
<1>5. ASSUME NEW p \in Projects, Navigate(p)
      PROVE  Batches'
  <2>1. loading' => Barred'
    BY DEF Barred
  <2> QED BY <1>r, <1>5, <2>1 DEF Navigate
<1>6. ASSUME NEW i \in Setup,
             TokenArrives(i) \/ TokenFails(i) \/ Opens(i) \/ StreamFails(i) \/ AlertStreamFails(i)
      PROVE  Batches'
  BY <1>u, <1>6 DEF TokenArrives, TokenFails, Opens, StreamFails, AlertStreamFails, tab, Barred
<1>7. ASSUME NEW i \in Setup, RetryTimer(i)
      PROVE  Batches'
  <2> DEFINE c == [conn EXCEPT !.timers = @ \ {i}]
  <2>1. UNCHANGED <<page, mounted, buffer, Barred>>
    BY <1>7 DEF RetryTimer, tab, Barred
  <2>2. \/ SetupCalled(c, c.of[i], c.current[i], FALSE, batch, buffer, isConnected)
        \/ UNCHANGED <<batch, stalled>>
    BY <1>7 DEF RetryTimer
  <2> HIDE DEF c
  <2> QED BY <1>s, <1>u, <2>1, <2>2
<1>8. ASSUME NEW i \in Setup, Deliver(i)
      PROVE  Batches'
  <2> DEFINE m == <<conn.of[i], conn'.got[i]>>
  <2>0. m \in Message
    BY <1>t, <1>8, DeliverKeeps DEF Message, TypeOK
  <2>1. /\ page' = page /\ mounted' = mounted /\ Barred' = Barred
        /\ \/ /\ buffer' = Append(buffer, m)
              /\ batch' = IF batch = "null" THEN "armed" ELSE batch
              /\ stalled' = (stalled /\ batch # "null")
           \/ page # "watch"
    BY <1>8 DEF Deliver, tab, Barred
  <2> HIDE DEF m
  <2>2. Append(buffer, m) # <<>>
    BY <1>t, <2>0, AppendProperties
  <2> QED BY <1>t, <2>1, <2>2 DEF Batches
<1>9. CASE ProcessBatchedLogs
  <2> DEFINE n    == IF Len(buffer) < BatchSize THEN Len(buffer) ELSE BatchSize
             rest == SubSeq(buffer, n + 1, Len(buffer))
  <2>1. /\ UNCHANGED <<page, mounted, stalled, Barred>>
        /\ batch = "armed" /\ buffer' = rest
        /\ batch' = IF buffer = <<>> THEN "dead" ELSE ArmedAfter(rest)
    BY <1>9 DEF ProcessBatchedLogs, tab, Barred
  <2> HIDE DEF rest
  <2> QED BY <2>1 DEF Batches, ArmedAfter
<1>10. ASSUME NEW p \in Projects, Broadcast(p) \/ LoadAnswered(p)
       PROVE  Batches'
  BY <1>u, <1>10 DEF Broadcast, LoadAnswered, tab, Barred
<1>11. ASSUME NEW m \in Listed, MarkAlert(m) \/ DeleteAlert(m)
       PROVE  Batches'
  BY <1>u, <1>11 DEF MarkAlert, DeleteAlert, tab, Barred
<1>12. CASE UNCHANGED vars
  BY <1>u, <1>12 DEF vars, tab, Barred
<1> QED BY <1>0, <1>1, <1>2, <1>3, <1>4, <1>5, <1>6, <1>7, <1>8, <1>9, <1>10, <1>11, <1>12
        DEF Next, Connect

-----------------------------------------------------------------------------
(* What is shown                                                           *)

\* The messages the page has taken from its streams, as far as it remembers.
Seen == IF page = "watch" THEN ToSet(buffer) \cup taken ELSE ToSet(shown)

\* The messages of S were broadcast, where f counts the messages of a project.
NumberedIn(S, f) == \A m \in S : m[2] <= f[m[1]]

\* What the open EventSources of c are yet to deliver is not in S.
FreshIn(S, c) ==
  \A i \in Setup : c.st[i] = "open" =>
    \A m \in S : m[1] = c.of[i] => m[2] <= c.got[i]

Numbered == page # "alerts" => NumberedIn(Seen, sent)
Fresh    == page # "alerts" /\ ~ overlap => FreshIn(Seen, conn)

\* Seen consists of messages.
LEMMA SeenType ==
  ASSUME TypeOK, Shape
  PROVE  /\ page # "alerts" => Seen \subseteq Message
         /\ \A m \in Message : m[1] \in Projects /\ m[2] \in Nat
<1>1. /\ ToSet(buffer) \subseteq Message /\ taken \subseteq Message
      /\ page # "alerts" => ToSet(shown) \subseteq Message
  BY LenProperties DEF TypeOK, Shape, ToSet
<1>2. \A m \in Message : m[1] \in Projects /\ m[2] \in Nat
  BY Limits DEF Message
<1> QED BY <1>1, <1>2 DEF Seen

\* A step that adds nothing to what is seen, and opens no stream, keeps both.
LEMMA SeenKept ==
  ASSUME Numbered, Fresh, page' = page, sent' = sent, ~ overlap' => ~ overlap,
         NoneOpens(conn, conn'), page # "alerts" => Seen' \subseteq Seen
  PROVE  Numbered' /\ Fresh'
<1>1. page # "alerts" => NumberedIn(Seen', sent')
  BY DEF Numbered, NumberedIn
<1>2. page # "alerts" /\ ~ overlap' => FreshIn(Seen', conn')
  BY DEF Fresh, FreshIn, NoneOpens
<1> QED BY <1>1, <1>2 DEF Numbered, NumberedIn, Fresh, FreshIn

\* Every step keeps the messages in their order and shows none twice.
LEMMA NextShown ==
  TypeOK /\ Shape /\ (~ overlap => Alone) /\ Numbered /\ Fresh /\ OnceById
    /\ conn.attempts <= faults /\ [Next]_vars
    => Numbered' /\ Fresh' /\ OnceById'
<1> SUFFICES ASSUME TypeOK, Shape, ~ overlap => Alone, Numbered, Fresh, OnceById,
                    conn.attempts <= faults, [Next]_vars
             PROVE  Numbered' /\ Fresh' /\ OnceById'
  OBVIOUS
<1> DEFINE Goal == Numbered' /\ Fresh' /\ OnceById'
<1>t. /\ conn \in Connection /\ project \in Projects /\ overlap \in BOOLEAN
      /\ page \in {"watch", "monitoring", "alerts"}
      /\ buffer \in Seq(Message) /\ shown \in Seq(Listed)
      /\ page # "alerts" => shown \in Seq(Message) /\ Len(shown) <= MaxShown
      /\ read \subseteq Listed /\ taken \subseteq Message
      /\ sent \in [Projects -> 0 .. MaxMessages] /\ faults \in 0 .. MaxFaults
  BY DEF TypeOK, Shape
<1>w. /\ page = "alerts" => IsInjective(shown) /\ read \subseteq ToSet(shown)
      /\ page = "monitoring" /\ ~ overlap => IsInjective(shown)
      /\ page = "watch" /\ ~ overlap => IsInjective(buffer) /\ ToSet(buffer) \cap taken = {}
  BY DEF OnceById
<1>e. ToSet(<<>>) = {} /\ IsInjective(<<>>)
  BY DEF ToSet, IsInjective
<1>n. \A c, d : Touches(c, d) => NoneOpens(c, d)
  BY DEF Touches
<1>u. ASSUME UNCHANGED <<page, buffer, shown, taken, sent, read>>, ~ overlap' => ~ overlap,
             NoneOpens(conn, conn')
      PROVE  Goal
  <2>1. Seen' = Seen
    BY <1>u DEF Seen
  <2>2. Numbered' /\ Fresh'
    BY <1>u, <2>1, SeenKept
  <2>3. OnceById'
    BY <1>u DEF OnceById
  <2> QED BY <2>2, <2>3
<1>r. ASSUME NEW p \in Projects, NEW barred, Rerun(p, barred),
             UNCHANGED <<page, shown, taken, sent, read, overlap>>
      PROVE  Goal
  <2>1. buffer' = <<>> /\ NoneOpens(conn, conn')
    BY <1>t, <1>r, RerunKeeps DEF Rerun, Keeps, Touches
  <2>2. Seen' \subseteq Seen
    BY <1>e, <1>r, <2>1 DEF Seen
  <2>3. Numbered' /\ Fresh'
    BY <1>r, <2>1, <2>2, SeenKept
  <2>4. OnceById'
    BY <1>e, <1>r, <1>w, <2>1 DEF OnceById
  <2> QED BY <2>3, <2>4
<1>1. CASE ProjectLoaded
  <2>1. CASE loading
    BY <1>t, <1>r, <1>1, <2>1 DEF ProjectLoaded
  <2>2. CASE ~ loading
    BY <1>u, <1>1, <2>2 DEF ProjectLoaded, NoneOpens
  <2> QED BY <2>1, <2>2
<1>0. CASE ProjectFails
  BY <1>t, <1>r, <1>0 DEF ProjectFails
<1>2. CASE Unmount
  <2>1. /\ UNCHANGED <<page, sent, taken, overlap>>
        /\ buffer' = <<>> /\ shown' = <<>> /\ read' = {}
    BY <1>2 DEF Unmount
  <2>2. NoneOpens(conn, conn')
    BY <1>t, <1>2, UnmountKeeps DEF Touches
  <2>3. Seen' \subseteq Seen
    BY <1>e, <2>1 DEF Seen
  <2>4. Numbered' /\ Fresh'
    BY <2>1, <2>2, <2>3, SeenKept
  <2>5. OnceById'
    BY <1>e, <2>1 DEF OnceById
  <2> QED BY <2>4, <2>5
<1>3. CASE Hide
  BY <1>t, <1>n, <1>u, <1>3, HideKeeps DEF Hide, data
<1>4. CASE Show
  BY <1>t, <1>n, <1>u, <1>4, ShowKeeps DEF Show, data
<1>5. ASSUME NEW p \in Projects, Navigate(p)
      PROVE  Goal
  BY <1>r, <1>5 DEF Navigate
<1>6. ASSUME NEW i \in Setup, TokenArrives(i)
      PROVE  Goal
  BY <1>t, <1>n, <1>u, <1>6, TokenArrivesKeeps DEF TokenArrives, tab, data
<1>7. ASSUME NEW i \in Setup, TokenFails(i)
      PROVE  Goal
  BY <1>t, <1>u, <1>7, TokenFailsKeeps DEF TokenFails, tab, data
<1>8. ASSUME NEW i \in Setup, Opens(i)
      PROVE  Goal
  <2>1. /\ conn'.of = conn.of /\ conn'.got[i] = sent[conn.of[i]]
        /\ \A j \in Setup \ {i} : conn'.st[j] = conn.st[j] /\ conn'.got[j] = conn.got[j]
    BY <1>t, <1>8, OpensKeeps
  <2>2. UNCHANGED <<page, buffer, shown, taken, sent, read, overlap>>
    BY <1>8 DEF Opens, tab, data
  <2>3. Seen' = Seen
    BY <2>2 DEF Seen
  <2>4. page # "alerts" /\ ~ overlap => FreshIn(Seen, conn')
    BY <2>1 DEF Numbered, NumberedIn, Fresh, FreshIn
  <2>5. Fresh'
    BY <2>2, <2>3, <2>4 DEF Fresh, FreshIn
  <2>6. Numbered'
    BY <2>2, <2>3 DEF Numbered, NumberedIn
  <2>7. OnceById'
    BY <2>2 DEF OnceById
  <2> QED BY <2>5, <2>6, <2>7
<1>9. ASSUME NEW i \in Setup, StreamFails(i)
      PROVE  Goal
  BY <1>t, <1>u, <1>9, StreamFailsKeeps DEF StreamFails, tab, data
<1>10. ASSUME NEW i \in Setup, AlertStreamFails(i)
       PROVE  Goal
  BY <1>t, <1>n, <1>u, <1>10, AlertStreamFailsKeeps DEF AlertStreamFails, tab, data
<1>11. ASSUME NEW i \in Setup, RetryTimer(i)
       PROVE  Goal
  BY <1>t, <1>n, <1>u, <1>11, RetryTimerKeeps DEF RetryTimer, tab, data
<1>12. ASSUME NEW i \in Setup, Deliver(i)
       PROVE  Goal
  <2> DEFINE m == <<conn.of[i], conn'.got[i]>>
  <2>1. /\ conn'.of = conn.of /\ conn'.st = conn.st
        /\ conn.of[i] \in Projects /\ conn.got[i] \in Nat
        /\ conn'.got[i] = conn.got[i] + 1 /\ conn'.got[i] \in 1 .. MaxMessages
        /\ conn'.got[i] <= sent[conn.of[i]]
        /\ \A j \in Setup \ {i} : conn'.got[j] = conn.got[j]
    BY <1>t, <1>12, DeliverKeeps
  <2>2. UNCHANGED <<page, mounted, read, taken, sent, overlap>> /\ conn.st[i] = "open"
    BY <1>12 DEF Deliver, tab
  <2>3. \/ /\ page = "watch"
           /\ buffer' = Append(buffer, m)
           /\ UNCHANGED shown
        \/ /\ page # "watch"
           /\ shown' = CASE ~ mounted           -> shown
                         [] page = "monitoring" -> AddMetric(shown, m)
                         [] page = "alerts"     -> AddAlert(shown)
           /\ UNCHANGED buffer
    BY <1>12 DEF Deliver
  <2>4. m \in Message /\ m[1] = conn.of[i] /\ m[2] = conn.got[i] + 1
        /\ m[2] <= sent[m[1]]
    BY <2>1 DEF Message
  <2> HIDE DEF m
  <2>5. page # "alerts" /\ ~ overlap => m \notin Seen
    BY <2>1, <2>2, <2>4 DEF Fresh, FreshIn
  <2>6. ~ overlap => \A j \in Setup : conn.st[j] = "open" => j = i
    BY <2>2 DEF Alone, Lone, AliveIn
  <2>7. /\ Append(buffer, m) \in Seq(Message)
        /\ ToSet(Append(buffer, m)) = ToSet(buffer) \cup {m}
        /\ IsInjective(buffer) /\ m \notin ToSet(buffer) => IsInjective(Append(buffer, m))
    BY <1>t, <2>4, AppendFacts
  <2>8. /\ ToSet(shown) \subseteq ToSet(AddAlert(shown))
        /\ IsInjective(shown) => IsInjective(AddAlert(shown))
    BY <1>t, AddAlertFacts DEF Listed
  <2>9. page = "monitoring" =>
          /\ ToSet(AddMetric(shown, m)) \subseteq ToSet(shown) \cup {m}
          /\ IsInjective(shown) /\ m \notin ToSet(shown) => IsInjective(AddMetric(shown, m))
    BY <1>t, <2>4, AddMetricFacts
  <2>10. page # "alerts" => Seen' \subseteq Seen \cup {m}
    BY <1>t, <2>2, <2>3, <2>7, <2>9 DEF Seen
  <2>11. Numbered'
    <3>1. page # "alerts" => NumberedIn(Seen', sent)
      BY <2>4, <2>10 DEF Numbered, NumberedIn
    <3> QED BY <2>2, <3>1 DEF Numbered, NumberedIn
  <2>12. Fresh'
    <3>1. ASSUME page # "alerts", ~ overlap
          PROVE  FreshIn(Seen', conn')
      <4>1. \A k \in Seen : k[1] = conn.of[i] => k[2] <= conn.got[i]
        BY <2>2, <3>1 DEF Fresh, FreshIn
      <4>2. \A k \in Seen : k[2] \in Nat
        BY <3>1, SeenType
      <4>3. \A k \in Seen' : k[1] = conn.of[i] => k[2] <= conn.got[i] + 1
        BY <2>1, <2>4, <2>10, <3>1, <4>1, <4>2
      <4> QED BY <2>1, <2>6, <3>1, <4>3 DEF FreshIn
    <3> QED BY <2>2, <3>1 DEF Fresh, FreshIn
  <2>13. OnceById'
    <3>1. page = "watch" => buffer' = Append(buffer, m)
      BY <2>3
    <3>2. page = "watch" /\ ~ overlap => m \notin ToSet(buffer) /\ m \notin taken
      BY <2>5 DEF Seen
    <3>3. page = "watch" /\ ~ overlap => IsInjective(buffer') /\ ToSet(buffer') \cap taken = {}
      BY <1>w, <2>7, <3>1, <3>2
    <3>4. page = "monitoring" /\ ~ overlap => IsInjective(shown')
      BY <1>w, <2>3, <2>5, <2>9 DEF Seen
    <3>5. page = "alerts" => IsInjective(shown') /\ read \subseteq ToSet(shown')
      BY <1>w, <2>3, <2>8
    <3> QED BY <2>2, <3>3, <3>4, <3>5 DEF OnceById
  <2> QED BY <2>11, <2>12, <2>13
<1>13. ASSUME NEW p \in Projects, Broadcast(p)
       PROVE  Goal
  <2>1. UNCHANGED <<page, conn, buffer, shown, taken, read, overlap>>
        /\ sent' = [sent EXCEPT ![p] = @ + 1]
    BY <1>13 DEF Broadcast, tab, data
  <2>2. \A q \in Projects : sent[q] \in Nat /\ sent'[q] \in Nat /\ sent[q] <= sent'[q]
    BY <1>t, <2>1, Limits
  <2>3. Seen' = Seen /\ (page # "alerts" => Seen \subseteq Message)
    BY <2>1, SeenType DEF Seen
  <2>4. page # "alerts" => NumberedIn(Seen, sent')
    BY <2>2, <2>3, SeenType DEF Numbered, NumberedIn
  <2> QED BY <2>1, <2>3, <2>4 DEF Numbered, NumberedIn, Fresh, FreshIn, OnceById
<1>14. CASE ProcessBatchedLogs
  <2> DEFINE n    == IF Len(buffer) < BatchSize THEN Len(buffer) ELSE BatchSize
             rest == SubSeq(buffer, n + 1, Len(buffer))
             front == SubSeq(buffer, 1, n)
  <2>1. /\ UNCHANGED <<page, conn, read, sent, overlap>>
        /\ batch = "armed" /\ buffer' = rest
        /\ taken' = taken \cup ToSet(front)
    BY <1>14 DEF ProcessBatchedLogs, tab
  <2>2. n \in 0 .. Len(buffer)
    BY <1>t, LenProperties, Limits
  <2>3. /\ ToSet(front) \subseteq ToSet(buffer) /\ ToSet(rest) \subseteq ToSet(buffer)
        /\ IsInjective(buffer) => IsInjective(rest) /\ ToSet(front) \cap ToSet(rest) = {}
    BY <1>t, <2>2, SubSeqFacts
  <2> HIDE DEF n, rest, front
  <2>4. page = "watch"
    BY <2>1 DEF Shape
  <2>5. Seen' \subseteq Seen
    BY <2>1, <2>3, <2>4 DEF Seen
  <2>6. NoneOpens(conn, conn')
    BY <2>1 DEF NoneOpens
  <2>7. Numbered' /\ Fresh'
    BY <2>1, <2>5, <2>6, SeenKept
  <2>8. ~ overlap => IsInjective(buffer') /\ ToSet(buffer') \cap taken' = {}
    BY <1>w, <2>1, <2>3, <2>4
  <2> QED BY <2>1, <2>4, <2>7, <2>8 DEF OnceById
<1>15. ASSUME NEW p \in Projects, LoadAnswered(p)
       PROVE  Goal
  <2>1. UNCHANGED <<page, conn, buffer, read, taken, sent, overlap>> /\ p \in loads
    BY <1>15 DEF LoadAnswered, tab
  <2>2. NoneOpens(conn, conn')
    BY <2>1 DEF NoneOpens
  <2>3. CASE UNCHANGED shown
    BY <1>u, <2>1, <2>2, <2>3
  <2>4. CASE page = "watch"
    <3>1. Seen' = Seen
      BY <2>1, <2>4 DEF Seen
    <3>2. Numbered' /\ Fresh'
      BY <2>1, <2>2, <3>1, SeenKept
    <3> QED BY <2>1, <2>4, <3>2 DEF OnceById
  <2>5. ASSUME NEW n \in 0 .. sent[p], page # "watch",
               NEW new \in Filtered(Stored(p, n), Listed \ ToSet(shown)), shown' = shown \o new
        PROVE  Goal
    <3>1. page = "alerts"
      BY <1>t, <2>1, <2>5 DEF Shape
    <3>2. n \in 0 .. MaxMessages
      BY <1>t, Limits
    <3>3. Stored(p, n) \in Seq(Listed) /\ IsInjective(Stored(p, n))
      BY <3>2, StoredFacts, SeqMonotonic DEF Listed
    <3>4. /\ new \in Seq(Listed) /\ IsInjective(new)
          /\ ToSet(new) = ToSet(Stored(p, n)) \cap (Listed \ ToSet(shown))
      BY <3>3, FilteredFacts
    <3>5. /\ ToSet(shown \o new) = ToSet(shown) \cup ToSet(new)
          /\ IsInjective(shown) /\ IsInjective(new) /\ ToSet(shown) \cap ToSet(new) = {}
               => IsInjective(shown \o new)
      BY <1>t, <3>4, ConcatFacts
    <3>6. IsInjective(shown') /\ read \subseteq ToSet(shown')
      BY <1>w, <2>5, <3>1, <3>4, <3>5
    <3> QED BY <2>1, <3>1, <3>6 DEF Numbered, Fresh, OnceById
  <2> QED BY <1>15, <2>3, <2>4, <2>5 DEF LoadAnswered
<1>16. ASSUME NEW m \in Listed, MarkAlert(m)
       PROVE  Goal
  <2>1. /\ UNCHANGED <<page, conn, buffer, shown, taken, sent, overlap>>
        /\ page = "alerts" /\ Contains(shown, m) /\ read' \subseteq read \cup {m}
    BY <1>16 DEF MarkAlert, tab
  <2>2. m \in ToSet(shown)
    BY <1>t, <2>1, LenProperties DEF Contains, ToSet
  <2> QED BY <1>w, <2>1, <2>2 DEF Numbered, Fresh, OnceById
<1>17. ASSUME NEW m \in Listed, DeleteAlert(m)
       PROVE  Goal
  <2>1. /\ UNCHANGED <<page, conn, buffer, taken, sent, overlap>>
        /\ page = "alerts" /\ read' = read \ {m} /\ shown' \in Filtered(shown, Listed \ {m})
    BY <1>17 DEF DeleteAlert, tab
  <2>2. /\ ToSet(shown') = ToSet(shown) \cap (Listed \ {m})
        /\ IsInjective(shown) => IsInjective(shown')
    BY <1>t, <2>1, FilteredFacts
  <2>3. IsInjective(shown') /\ read' \subseteq ToSet(shown')
    BY <1>t, <1>w, <2>1, <2>2
  <2> QED BY <2>1, <2>3 DEF Numbered, Fresh, OnceById
<1>18. CASE UNCHANGED vars
  BY <1>u, <1>18 DEF vars, tab, data, NoneOpens
<1> QED BY <1>0, <1>1, <1>2, <1>3, <1>4, <1>5, <1>6, <1>7, <1>8, <1>9, <1>10, <1>11, <1>12, <1>13,
           <1>14, <1>15, <1>16, <1>17, <1>18
        DEF Next, Connect

-----------------------------------------------------------------------------
(* The first answer of the project query                                   *)

\* Until it comes nothing has been set up.
Pristine ==
  loading => /\ UsedIn(conn) = {} /\ conn.timers = {}
             /\ isConnected = FALSE /\ batch = "null" /\ buffer = <<>>

\* Every step keeps that.
LEMMA NextPristine ==
  TypeOK /\ Shape /\ Pristine /\ [Next]_vars => Pristine'
<1> SUFFICES ASSUME TypeOK, Shape, Pristine, [Next]_vars, loading'
             PROVE  Pristine'
  BY DEF Pristine
<1>t. conn \in Connection /\ project \in Projects /\ loading \in BOOLEAN
  BY DEF TypeOK
<1>u. CASE UNCHANGED <<conn, isConnected, batch, buffer, loading>>
  BY <1>u DEF Pristine, UsedIn
<1>1. loading
  BY <1>t DEF Next, Connect, ProjectLoaded, ProjectFails, Unmount, Hide, Show, Navigate, Broadcast,
              LoadAnswered, TokenArrives, Opens, RetryTimer, TokenFails, StreamFails,
              AlertStreamFails, Deliver, ProcessBatchedLogs, MarkAlert, DeleteAlert, vars, tab
<1>2. /\ UsedIn(conn) = {} /\ conn.timers = {} /\ isConnected = FALSE
      /\ batch = "null" /\ buffer = <<>> /\ page = "watch"
      /\ \A i \in Setup : conn.st[i] = "none"
  BY <1>1 DEF Pristine, Shape, UsedIn
<1>f. ASSUME NEW c \in Connection, Frees(conn, c), Becomes(c)
      PROVE  UsedIn(conn)' = {} /\ conn'.timers = {}
  <2>1. UsedIn(c) = {} /\ c.timers = {}
    BY <1>2, <1>f DEF Frees
  <2>2. Frees(c, conn')
    BY <1>f, BecomesFrees
  <2>3. UsedIn(conn') = {} /\ conn'.timers = {}
    BY <2>1, <2>2 DEF Frees
  <2> QED BY <2>3 DEF UsedIn
<1>3. CASE ProjectLoaded \/ ProjectFails
  BY <1>3 DEF ProjectLoaded, ProjectFails
<1>4. CASE Unmount
  <2>1. Becomes(NextRun(Cleaned(conn))) /\ isConnected' = FALSE /\ buffer' = <<>>
        /\ batch' = ClearedBatch
    BY <1>4 DEF Unmount
  <2>2. Frees(conn, NextRun(Cleaned(conn)))
    BY <1>t, CleanedFrees
  <2>3. UsedIn(conn)' = {} /\ conn'.timers = {}
    BY <1>f, <2>1, <2>2 DEF Frees
  <2> QED BY <1>2, <2>1, <2>3 DEF Pristine, ClearedBatch
<1>5. CASE Hide
  <2>1. conn.ref # NoSetup => conn.st[conn.ref] = "none"
    BY <1>t, <1>2 DEF Connection
  <2> QED BY <1>u, <1>2, <1>5, <2>1 DEF Hide, FlagAfter
<1>6. CASE Show
  <2>1. ReturnsEarly(conn, Barred)
    BY <1>1, <1>2 DEF ReturnsEarly, Barred
  <2>2. /\ UNCHANGED buffer
        /\ \/ Becomes(conn) /\ UNCHANGED <<isConnected, batch>>
           \/ UNCHANGED <<conn, isConnected, batch>>
    BY <1>6, <2>1 DEF Show, SetupCalled
  <2>3. Frees(conn, conn)
    BY <1>t DEF Frees
  <2>4. UsedIn(conn)' = {} /\ conn'.timers = {}
    BY <1>t, <1>f, <1>2, <2>2, <2>3 DEF UsedIn
  <2> QED BY <1>2, <2>2, <2>4 DEF Pristine
<1>7. ASSUME NEW p \in Projects, Navigate(p)
      PROVE  Pristine'
  <2> DEFINE c == NextRun(Cleaned(conn))
  <2>1. Rerun(p, loading')
    BY <1>7 DEF Navigate
  <2>2. /\ SetupCalled(c, p, TRUE, loading', ClearedBatch, <<>>, isConnected /\ page = "watch")
        /\ buffer' = <<>>
    BY <2>1 DEF Rerun
  <2>3. Frees(conn, c)
    BY <1>t, CleanedFrees
  <2> HIDE DEF c
  <2>4. /\ Becomes(c) /\ batch' = ClearedBatch
        /\ isConnected' = (isConnected /\ page = "watch")
    BY <1>2, <2>2 DEF SetupCalled, ReturnsEarly
  <2>5. UsedIn(conn)' = {} /\ conn'.timers = {}
    BY <1>f, <2>3, <2>4 DEF Frees
  <2> QED BY <1>2, <2>2, <2>4, <2>5 DEF Pristine, ClearedBatch
<1>8. ASSUME NEW i \in Setup,
             \/ TokenArrives(i) \/ TokenFails(i) \/ Opens(i) \/ RetryTimer(i)
             \/ StreamFails(i) \/ AlertStreamFails(i) \/ Deliver(i)
      PROVE  FALSE
  BY <1>2, <1>8 DEF TokenArrives, TokenFails, Opens, RetryTimer, StreamFails, AlertStreamFails,
                    Deliver
<1>9. CASE ProcessBatchedLogs
  BY <1>2, <1>9 DEF ProcessBatchedLogs
<1>10. ASSUME NEW p \in Projects, Broadcast(p) \/ LoadAnswered(p)
       PROVE  Pristine'
  BY <1>u, <1>10 DEF Broadcast, LoadAnswered, tab
<1>11. ASSUME NEW m \in Listed, MarkAlert(m) \/ DeleteAlert(m)
       PROVE  Pristine'
  BY <1>u, <1>11 DEF MarkAlert, DeleteAlert, tab
<1>12. CASE UNCHANGED vars
  BY <1>u, <1>12 DEF vars, tab
<1> QED BY <1>3, <1>4, <1>5, <1>6, <1>7, <1>8, <1>9, <1>10, <1>11, <1>12 DEF Next, Connect

-----------------------------------------------------------------------------
(* The theorems                                                            *)

(***************************************************************************)
(* The inductive invariant.  What the page shows depends on the streams:   *)
(* no message comes twice because one EventSource only delivers, and that  *)
(* is so because at any time there is an EventSource, or a token that is   *)
(* awaited, or a timer, as long as no answer comes for a setup that was    *)
(* overtaken.                                                              *)
(***************************************************************************)
IInv ==
  /\ TypeOK
  /\ conn.attempts <= faults
  /\ Shape
  /\ ~ overlap => Alone
  /\ Batches
  /\ Pristine
  /\ Numbered
  /\ Fresh
  /\ OnceById

LEMMA InitIInv == Init => IInv
<1> SUFFICES ASSUME Init PROVE IInv
  OBVIOUS
<1> DEFINE empty == [ref |-> NoSetup, cleanup |-> NoSetup, timer |-> NoSetup,
                     timers |-> {}, connecting |-> FALSE, attempts |-> 0,
                     st |-> [i \in Setup |-> "none"],
                     of |-> [i \in Setup |-> SomeProject],
                     current |-> [i \in Setup |-> FALSE],
                     got |-> [i \in Setup |-> 0]]
<1>1. /\ page \in {"watch", "monitoring", "alerts"}
      /\ project = SomeProject
      /\ mounted = TRUE /\ visible = TRUE
      /\ loading \in BOOLEAN /\ (page # "watch" => ~ loading)
      /\ answer = IF loading THEN "awaited" ELSE "given"
      /\ conn = IF loading THEN empty ELSE SetupStarted(empty, project, TRUE)
      /\ isConnected = FALSE
      /\ buffer = <<>> /\ batch = "null" /\ shown = <<>> /\ read = {}
      /\ loads = IF loading \/ page = "monitoring" THEN {} ELSE {project}
      /\ sent = [p \in Projects |-> 0]
      /\ moves = 0 /\ faults = 0
      /\ taken = {} /\ overlap = FALSE /\ stalled = FALSE
  BY DEF Init
<1>2. /\ empty \in Connection /\ empty.attempts = 0 /\ empty.timers = {}
      /\ \A i \in Setup : empty.st[i] = "none"
  <2>1. 0 \in 0 .. MaxFaults /\ 0 \in 0 .. MaxMessages /\ SomeProject \in Projects
    BY Limits
  <2> QED BY <2>1 DEF Connection
<1> HIDE DEF empty
<1>3. AliveIn(empty) = {} /\ TokensIn(empty) = {} /\ Lone(empty)
  BY <1>2 DEF AliveIn, TokensIn, Lone
<1>4. project \in Projects
  BY <1>1, Limits
<1>5. /\ conn \in Connection /\ conn.attempts = 0 /\ AliveIn(conn) = {} /\ Lone(conn)
  <2>1. CASE loading
    BY <1>1, <1>2, <1>3, <2>1
  <2>2. CASE ~ loading
    <3>1. conn = SetupStarted(empty, project, TRUE)
      BY <1>1, <2>2
    <3>2. Starts(empty, conn)
      BY <1>2, <1>4, <3>1, SetupStartedFacts
    <3>3. Keeps(empty, conn)
      BY <1>2, <1>3, <3>2, SetupStartedKeeps
    <3> QED BY <1>2, <1>3, <3>2, <3>3 DEF Keeps, Starts
  <2> QED BY <1>1, <2>1, <2>2
<1>6. Alone
  BY <1>1, <1>5 DEF Alone, Connected
<1>7. <<>> \in Seq(Message) /\ <<>> \in Seq(Listed) /\ Len(<<>>) <= MaxShown /\ ToSet(<<>>) = {} /\ IsInjective(<<>>)
  BY EmptySeq, Limits DEF ToSet, IsInjective
<1>8. sent \in [Projects -> 0 .. MaxMessages] /\ 0 \in 0 .. MaxMoves /\ 0 \in 0 .. MaxFaults
  BY <1>1, Limits
<1>9. loads \subseteq Projects /\ (page = "monitoring" => loads = {})
  BY <1>1, <1>4
<1>10. TypeOK /\ Shape
  BY <1>1, <1>4, <1>5, <1>7, <1>8, <1>9 DEF TypeOK, Shape
<1>11. Seen = {}
  BY <1>1, <1>7 DEF Seen
<1>12. Numbered /\ Fresh /\ OnceById
  BY <1>1, <1>7, <1>11 DEF Numbered, NumberedIn, Fresh, FreshIn, OnceById
<1>13. Batches
  BY <1>1 DEF Batches
<1>15. Pristine
  <2>1. loading => conn = empty
    BY <1>1
  <2> QED BY <1>1, <1>2, <2>1 DEF Pristine, UsedIn
<1>14. conn.attempts <= faults
  <2>1. conn.attempts = 0 /\ faults = 0
    BY ONLY <1>1, <1>5
  <2> QED BY ONLY <2>1
<1> QED BY <1>6, <1>10, <1>12, <1>13, <1>14, <1>15 DEF IInv

LEMMA NextIInv == IInv /\ [Next]_vars => IInv'
<1> SUFFICES ASSUME IInv, [Next]_vars PROVE IInv'
  OBVIOUS
<1>0. /\ TypeOK /\ conn.attempts <= faults /\ Shape /\ (~ overlap => Alone)
      /\ Batches /\ Pristine /\ Numbered /\ Fresh /\ OnceById
  BY DEF IInv
<1>1. conn' \in Connection /\ conn'.attempts <= faults' /\ (~ overlap' => Alone')
  BY <1>0, NextAlone
<1>2. TypeOK' /\ Shape'
  BY <1>0, <1>1, NextTypes
<1>3. Batches'
  BY <1>0, NextBatches
<1>4. Numbered' /\ Fresh' /\ OnceById'
  BY <1>0, NextShown
<1>5. Pristine'
  BY <1>0, NextPristine
<1> QED BY <1>1, <1>2, <1>3, <1>4, <1>5 DEF IInv

\* The inductive invariant holds in every reachable state.
THEOREM Invariance == Spec => []IInv
BY InitIInv, NextIInv, PTL DEF Spec

\* The refs, timers, buffer and lists of a live page keep their types: no
\* list of logs or samples outgrows MAX_LOGS (Trim), and the counters stay in
\* their bounds.
THEOREM TypeCorrect == Spec => []TypeOK
<1>1. IInv => TypeOK
  BY DEF IInv
<1> QED BY <1>1, Invariance, PTL

\* A tab has no EventSource but the one its page refers to, and none once the
\* page is left, unless an answer came for a setup that had been overtaken
\* (setupSSEConnection, the cleanup of its effect, handleVisibilityChange).
THEOREM NoSourceLeaks == Spec => []NoLeakedSource
<1>1. IInv => NoLeakedSource
  BY DEF IInv, Alone, Lone, AliveIn, Alive, NoLeakedSource
<1> QED BY <1>1, Invariance, PTL

\* In LiveWatch the latest run of the effect has at most one setup under way,
\* from the await of setupSSEConnection to the end of its EventSource.
THEOREM SetupsDoNotRace == Spec => []OneSetupAtATime
<1>1. IInv => OneSetupAtATime
  <2> SUFFICES ASSUME IInv, page = "watch", ~ overlap, NEW i \in Setup, NEW j \in Setup,
                      {conn.st[i], conn.st[j]} \subseteq {"token", "connecting", "open"},
                      conn.current[i], conn.current[j]
               PROVE  i = j
    BY DEF OneSetupAtATime
  <2>1. Lone(conn)
    BY DEF IInv, Alone
  <2>2. i \in AliveIn(conn) \cup TokensIn(conn) /\ j \in AliveIn(conn) \cup TokensIn(conn)
    BY DEF AliveIn, TokensIn
  <2>3. CASE TokensIn(conn) # {}
    BY <2>1, <2>2, <2>3 DEF Lone
  <2>4. CASE TokensIn(conn) = {}
    BY <2>1, <2>2, <2>4 DEF Lone
  <2> QED BY <2>3, <2>4
<1> QED BY <1>1, Invariance, PTL

\* Logs in the buffer of LiveWatch wait for a timer that runs, unless a setup
\* has cleared it (processBatchedLogs, batchTimeoutRef).
THEOREM BufferIsTimed == Spec => []BufferDrains
<1>1. IInv => BufferDrains
  BY DEF IInv, Batches, Pristine, Barred, BufferDrains
<1> QED BY <1>1, Invariance, PTL

\* No two listed alerts have the same id, the one that has none included, and
\* the read ones are listed; no sample is listed twice and no log goes twice
\* through the buffer unless EventSources overlapped (the onmessage handlers,
\* the answers of stored alerts, deleteAlert, markAsRead).
THEOREM OneEntryPerId == Spec => []OnceById
<1>1. IInv => OnceById
  BY DEF IInv
<1> QED BY <1>1, Invariance, PTL

\* "Connected" is shown only while the page's own EventSource is open; not
\* counting a page that the failed query of its project has replaced.
THEOREM ConnectedIsMeant == Spec => []ConnectedIsTrue
<1>1. IInv => ConnectedIsTrue
  BY DEF IInv, Alone, Connected, Pristine, Barred, OpenRef, ConnectedIsTrue
<1> QED BY <1>1, Invariance, PTL

-----------------------------------------------------------------------------
(* The numbers of setups suffice                                           *)

\* The setups that c has or that its timers may start.
Demand(c) == Cardinality(UsedIn(c)) + Cardinality(c.timers)

\* There are finitely many setups.
LEMMA DemandType ==
  ASSUME NEW c \in Connection
  PROVE  /\ IsFiniteSet(UsedIn(c)) /\ Cardinality(UsedIn(c)) \in Nat
         /\ IsFiniteSet(c.timers) /\ Cardinality(c.timers) \in Nat
         /\ Demand(c) \in Nat
<1>1. IsFiniteSet(Setup)
  <2>1. 1 \in Int /\ 2 + MaxMoves + MaxFaults \in Int
    BY Limits
  <2> QED BY <2>1, FS_Interval DEF Setup
<1>2. UsedIn(c) \in SUBSET Setup /\ c.timers \in SUBSET Setup
  BY DEF UsedIn, Connection
<1>3. /\ IsFiniteSet(UsedIn(c)) /\ Cardinality(UsedIn(c)) \in Nat
      /\ IsFiniteSet(c.timers) /\ Cardinality(c.timers) \in Nat
  BY <1>1, <1>2, FS_Subset, FS_CardinalityType
<1> QED BY <1>3 DEF Demand

\* One setup more at most, and no timer more.
LEMMA TakesDemand ==
  ASSUME NEW c \in Connection, NEW d \in Connection, NEW k,
         UsedIn(d) \subseteq UsedIn(c) \cup {k}, d.timers \subseteq c.timers
  PROVE  Demand(d) <= Demand(c) + 1
<1> DEFINE U == UsedIn(c) \cup {k}
<1>1. IsFiniteSet(U) /\ Cardinality(U) <= Cardinality(UsedIn(c)) + 1
  <2>1. IsFiniteSet(UsedIn(c)) /\ Cardinality(UsedIn(c)) \in Nat
    BY DemandType
  <2>2. /\ IsFiniteSet(U)
        /\ Cardinality(U) = IF k \in UsedIn(c) THEN Cardinality(UsedIn(c))
                            ELSE Cardinality(UsedIn(c)) + 1
    BY <2>1, FS_AddElement
  <2> HIDE DEF U
  <2> QED BY <2>1, <2>2
<1>2. UsedIn(d) \in SUBSET U /\ d.timers \in SUBSET c.timers
  OBVIOUS
<1> HIDE DEF U
<1>3. Cardinality(UsedIn(d)) <= Cardinality(U)
  BY <1>1, <1>2, FS_Subset
<1>4. Cardinality(d.timers) <= Cardinality(c.timers)
  BY <1>2, DemandType, FS_Subset
<1>5. Cardinality(U) \in Nat
  BY <1>1, FS_CardinalityType
<1> QED BY <1>1, <1>3, <1>4, <1>5, DemandType DEF Demand

\* No setup more and no timer more.
LEMMA FreesDemand ==
  ASSUME NEW c \in Connection, NEW d, Frees(c, d)
  PROVE  Demand(d) <= Demand(c)
<1>1. /\ d \in Connection
      /\ UsedIn(d) \in SUBSET UsedIn(c) /\ d.timers \in SUBSET c.timers
  BY DEF Frees
<1>2. Cardinality(UsedIn(d)) <= Cardinality(UsedIn(c))
  BY <1>1, DemandType, FS_Subset
<1>3. Cardinality(d.timers) <= Cardinality(c.timers)
  BY <1>1, DemandType, FS_Subset
<1> QED BY <1>1, <1>2, <1>3, DemandType DEF Demand

\* Starting a setup takes one number at most.
LEMMA SetupStartedDemand ==
  ASSUME NEW c \in Connection, NEW p \in Projects, NEW g \in BOOLEAN
  PROVE  /\ SetupStarted(c, p, g) \in Connection
         /\ Demand(SetupStarted(c, p, g)) <= Demand(c) + 1
<1>1. CASE page = "alerts"
  <2> DEFINE d == AwaitToken(c, p, g)
  <2>1. PICK k : /\ d \in Connection /\ d.timers = c.timers
                 /\ \A i \in Setup \ {k} : d.st[i] = c.st[i]
    BY AwaitTokenFacts
  <2>2. SetupStarted(c, p, g) = d
    BY <1>1 DEF SetupStarted
  <2> HIDE DEF d
  <2>3. UsedIn(d) \subseteq UsedIn(c) \cup {k}
    BY <2>1 DEF UsedIn
  <2> QED BY <2>1, <2>2, <2>3, TakesDemand
<1>2. CASE page # "alerts"
  <2> DEFINE r == Release(c)
             a == AwaitToken(r, p, g)
             d == [a EXCEPT !.timer = NoSetup, !.connecting = TRUE]
  <2>1. SetupStarted(c, p, g) = d
    BY <1>2 DEF SetupStarted
  <2>2. /\ r \in Connection /\ r.timers = c.timers \ {c.timer}
        /\ \A i \in Setup : r.st[i] = "none" \/ c.st[i] # "none"
    <3>1. /\ r \in Connection /\ r.timers = c.timers \ {c.timer}
          /\ \A i \in Setup : r.st[i] = IF i \in {c.ref, c.cleanup} /\ c.st[i] \in {"connecting", "open"}
                                        THEN "closed" ELSE c.st[i]
      BY ReleaseFacts
    <3> HIDE DEF r
    <3> QED BY <3>1
  <2> HIDE DEF r
  <2>3. /\ a \in Connection /\ a.timers = r.timers
        /\ \E k : /\ k \in Setup => a.st[k] = "token"
                  /\ \A i \in Setup \ {k} : /\ a.st[i] = r.st[i] /\ a.of[i] = r.of[i]
                                            /\ a.current[i] = r.current[i]
    BY <2>2, AwaitTokenFacts
  <2> HIDE DEF a
  <2>4. d \in Connection /\ d.timers = a.timers /\ d.st = a.st
    BY <2>3 DEF Connection
  <2> HIDE DEF d
  <2>5. PICK k : \A i \in Setup \ {k} : a.st[i] = r.st[i]
    BY <2>3
  <2>6. UsedIn(d) \subseteq UsedIn(c) \cup {k} /\ d.timers \subseteq c.timers
    BY <2>2, <2>3, <2>4, <2>5 DEF UsedIn
  <2> QED BY <2>1, <2>4, <2>6, TakesDemand
<1> QED BY <1>1, <1>2

\* A call of the setup function takes one number at most.
LEMMA SetupCalledDemand ==
  ASSUME NEW c \in Connection, NEW p \in Projects, NEW g \in BOOLEAN,
         NEW barred, NEW b, NEW logs, NEW flag,
         SetupCalled(c, p, g, barred, b, logs, flag)
  PROVE  conn' \in Connection /\ Demand(conn') <= Demand(c) + 1
<1>1. CASE Becomes(c)
  <2>1. Frees(c, conn')
    BY <1>1, BecomesFrees
  <2>2. conn' \in Connection /\ Demand(conn') <= Demand(c)
    BY <2>1, FreesDemand DEF Frees
  <2> QED BY <2>2, DemandType
<1>2. CASE Becomes(SetupStarted(c, p, g))
  <2> DEFINE d == SetupStarted(c, p, g)
  <2>1. d \in Connection /\ Demand(d) <= Demand(c) + 1
    BY SetupStartedDemand
  <2>2. Becomes(d)
    BY <1>2
  <2> HIDE DEF d
  <2>3. Frees(d, conn')
    BY <2>1, <2>2, BecomesFrees
  <2>4. conn' \in Connection /\ Demand(conn') <= Demand(d)
    BY <2>1, <2>3, FreesDemand DEF Frees
  <2> QED BY <2>1, <2>4, DemandType
<1> QED BY <1>1, <1>2 DEF SetupCalled

\* A new run of the effect takes one number at most.
LEMMA RerunDemand ==
  ASSUME conn \in Connection, NEW p \in Projects, NEW barred, Rerun(p, barred)
  PROVE  conn' \in Connection /\ Demand(conn') <= Demand(conn) + 1
<1> DEFINE c == NextRun(Cleaned(conn))
<1>1. SetupCalled(c, p, TRUE, barred, ClearedBatch, <<>>, isConnected /\ page = "watch")
  BY DEF Rerun
<1>2. Frees(conn, c)
  BY CleanedFrees
<1> HIDE DEF c
<1>3. c \in Connection /\ Demand(c) <= Demand(conn)
  BY <1>2, FreesDemand DEF Frees
<1>4. conn' \in Connection /\ Demand(conn') <= Demand(c) + 1
  BY <1>1, <1>3, SetupCalledDemand
<1> QED BY <1>3, <1>4, DemandType

\* A failed token or stream frees its setup or sets one timer for it.
LEMMA FailureDemand ==
  ASSUME conn \in Connection, NEW c \in Connection, NEW i \in Setup,
         c.timers = conn.timers, UsedIn(c) \subseteq UsedIn(conn),
         Becomes(c) \/ (conn' = Retry(c, i) /\ c.attempts < MaxFaults)
  PROVE  Demand(conn') <= Demand(conn) + 1
<1>1. Demand(c) <= Demand(conn)
  BY FreesDemand DEF Frees
<1>2. CASE Becomes(c)
  <2>1. Frees(c, conn')
    BY <1>2, BecomesFrees
  <2>2. conn' \in Connection /\ Demand(conn') <= Demand(c)
    BY <2>1, FreesDemand DEF Frees
  <2> QED BY <1>1, <2>2, DemandType
<1>3. CASE conn' = Retry(c, i) /\ c.attempts < MaxFaults
  <2>1. conn' \in Connection /\ conn'.timers = c.timers \cup {i} /\ conn'.st = c.st
    BY <1>3, RetryFacts
  <2>2. UsedIn(conn') = UsedIn(c)
    BY <2>1 DEF UsedIn
  <2>3. Cardinality(conn'.timers) <= Cardinality(c.timers) + 1
    <3>1. IsFiniteSet(c.timers) /\ Cardinality(c.timers) \in Nat
      BY DemandType
    <3>2. Cardinality(c.timers \cup {i}) = IF i \in c.timers THEN Cardinality(c.timers)
                                           ELSE Cardinality(c.timers) + 1
      BY <3>1, FS_AddElement
    <3> QED BY <2>1, <3>1, <3>2
  <2>4. Demand(conn') <= Demand(c) + 1
    <3>1. /\ Cardinality(UsedIn(c)) \in Nat /\ Cardinality(c.timers) \in Nat
          /\ Cardinality(conn'.timers) \in Nat
      BY <2>1, DemandType
    <3> QED BY <2>2, <2>3, <3>1 DEF Demand
  <2> QED BY <1>1, <2>1, <2>4, DemandType
<1> QED BY <1>2, <1>3

(***************************************************************************)
(* What the connection has and may still start without a move or failure:  *)
(* a timer, the end of the loading and the return to a hidden tab each     *)
(* start one setup.  The mount, every move and every failure pays for one. *)
(***************************************************************************)
Owed(c) == Demand(c) + (IF loading THEN 1 ELSE 0) + (IF visible THEN 0 ELSE 1)
Budget == Owed(conn) <= 1 + moves + faults

LEMMA InitBudget == Init => Budget
<1> SUFFICES ASSUME Init PROVE Budget
  OBVIOUS
<1> DEFINE empty == [ref |-> NoSetup, cleanup |-> NoSetup, timer |-> NoSetup,
                     timers |-> {}, connecting |-> FALSE, attempts |-> 0,
                     st |-> [i \in Setup |-> "none"],
                     of |-> [i \in Setup |-> SomeProject],
                     current |-> [i \in Setup |-> FALSE],
                     got |-> [i \in Setup |-> 0]]
<1>1. /\ project = SomeProject /\ visible = TRUE /\ loading \in BOOLEAN
      /\ conn = IF loading THEN empty ELSE SetupStarted(empty, project, TRUE)
      /\ moves = 0 /\ faults = 0
  BY DEF Init
<1>2. empty \in Connection /\ empty.timers = {} /\ UsedIn(empty) = {}
  <2>1. 0 \in 0 .. MaxFaults /\ 0 \in 0 .. MaxMessages /\ SomeProject \in Projects
    BY Limits
  <2> QED BY <2>1 DEF Connection, UsedIn
<1> HIDE DEF empty
<1>3. Demand(empty) = 0
  BY <1>2, FS_EmptySet DEF Demand
<1>4. CASE loading
  BY <1>1, <1>3, <1>4 DEF Budget, Owed
<1>5. CASE ~ loading
  <2>1. conn = SetupStarted(empty, project, TRUE) /\ project \in Projects
    BY <1>1, <1>5, Limits
  <2>2. conn \in Connection /\ Demand(conn) <= Demand(empty) + 1
    BY <1>2, <2>1, SetupStartedDemand
  <2>3. Demand(conn) \in Nat
    BY <2>2, DemandType
  <2>4. Demand(conn) <= 1
    BY ONLY <1>3, <2>2, <2>3
  <2>5. Owed(conn) = Demand(conn) + 0 + 0
    BY <1>1, <1>5 DEF Owed
  <2>6. moves = 0 /\ faults = 0
    BY <1>1
  <2> QED BY ONLY <2>3, <2>4, <2>5, <2>6 DEF Budget
<1> QED BY <1>1, <1>4, <1>5

\* Every step pays for the setups it starts or makes possible.
LEMMA NextBudget == IInv /\ Budget /\ [Next]_vars => Budget'
<1> SUFFICES ASSUME IInv, Budget, [Next]_vars PROVE Budget'
  OBVIOUS
<1> DEFINE D == Demand(conn)
           E == Demand(conn')
           l == IF loading THEN 1 ELSE 0
           m == IF loading' THEN 1 ELSE 0
           h == IF visible THEN 0 ELSE 1
           k == IF visible' THEN 0 ELSE 1
<1>t. /\ conn \in Connection /\ project \in Projects /\ conn.attempts <= faults
      /\ loading \in BOOLEAN /\ visible \in BOOLEAN
      /\ moves \in Nat /\ faults \in Nat /\ faults \in 0 .. MaxFaults
  BY Limits DEF IInv, TypeOK
<1>c. conn' \in Connection
  BY NextAlone DEF IInv
<1>d. D \in Nat /\ E \in Nat
  BY <1>t, <1>c, DemandType
<1>b. D + l + h <= 1 + moves + faults
  BY DEF Budget, Owed
<1>e. ASSUME E + m + k <= 1 + moves' + faults'
      PROVE  Budget'
  <2>1. Owed(conn)' = E + m + k
    BY DEF Owed, Demand, UsedIn
  <2> QED BY <1>e, <2>1 DEF Budget
<1>s. l \in {0, 1} /\ m \in {0, 1} /\ h \in {0, 1} /\ k \in {0, 1}
  OBVIOUS
<1> HIDE DEF D, E, l, m, h, k
\* A step that is paid for by a move or a failure.
<1>p. ASSUME E <= D + 1, m = l, k = h,
             \/ moves' = moves + 1 /\ faults' = faults
             \/ moves' = moves /\ faults' = faults + 1
      PROVE  Budget'
  BY <1>t, <1>d, <1>b, <1>e, <1>s, <1>p
\* A step that costs nothing.
<1>q. ASSUME E <= D, m = l, k = h, moves' = moves, faults' = faults
      PROVE  Budget'
  BY <1>t, <1>d, <1>b, <1>e, <1>s, <1>q
<1>1. CASE ProjectLoaded
  <2>1. /\ loading' = FALSE /\ visible' = visible /\ moves' = moves /\ faults' = faults
        /\ IF loading THEN Rerun(project, FALSE) ELSE UNCHANGED conn
    BY <1>1 DEF ProjectLoaded
  <2>2. m = 0 /\ k = h
    BY <2>1 DEF m, h, k
  <2>3. CASE loading
    <3>1. conn' \in Connection /\ E <= D + 1
      BY <1>t, <2>1, <2>3, RerunDemand DEF D, E
    <3>2. l = 1
      BY <2>3 DEF l
    <3> QED BY <1>t, <1>d, <1>b, <1>e, <1>s, <2>1, <2>2, <3>1, <3>2
  <2>4. CASE ~ loading
    <3>1. E = D
      BY <2>1, <2>4 DEF D, E
    <3>2. l = 0
      BY <2>4 DEF l
    <3> QED BY <1>d, <1>q, <2>1, <2>2, <3>1, <3>2
  <2> QED BY <2>3, <2>4
<1>0. CASE ProjectFails
  <2>1. /\ loading' = FALSE /\ visible' = visible /\ moves' = moves /\ faults' = faults + 1
        /\ Rerun(project, TRUE)
    BY <1>0 DEF ProjectFails, Fault
  <2>2. conn' \in Connection /\ E <= D + 1
    BY <1>t, <2>1, RerunDemand DEF D, E
  <2>3. m = 0 /\ k = h
    BY <2>1 DEF m, h, k
  <2> QED BY <1>t, <1>d, <1>b, <1>e, <1>s, <2>1, <2>2, <2>3
<1>2. CASE Unmount
  <2>1. /\ loading' = loading /\ visible' = visible
        /\ moves' = moves + 1 /\ faults' = faults /\ Becomes(NextRun(Cleaned(conn)))
    BY <1>2 DEF Unmount, Move
  <2> DEFINE c == NextRun(Cleaned(conn))
  <2>2. Frees(conn, c)
    BY <1>t, CleanedFrees
  <2>3. Becomes(c)
    BY <2>1
  <2> HIDE DEF c
  <2>4. Demand(c) <= D /\ c \in Connection
    BY <1>t, <2>2, FreesDemand DEF Frees, D
  <2>5. conn' \in Connection /\ E <= Demand(c)
    BY <2>3, <2>4, BecomesFrees, FreesDemand DEF Frees, E
  <2>6. Demand(c) \in Nat
    BY <2>4, DemandType
  <2>7. m = l /\ k = h
    BY <2>1 DEF l, m, h, k
  <2> QED BY <1>d, <1>p, <2>1, <2>4, <2>5, <2>6, <2>7
<1>3. CASE Hide
  <2>1. /\ loading' = loading /\ visible /\ ~ visible'
        /\ moves' = moves + 1 /\ faults' = faults
        /\ \/ Becomes([Close(conn, {conn.ref}) EXCEPT !.ref = NoSetup])
           \/ conn' = conn
    BY <1>3 DEF Hide, Move
  <2>2. conn' \in Connection /\ E <= D
    <3>1. CASE Becomes([Close(conn, {conn.ref}) EXCEPT !.ref = NoSetup])
      <4> DEFINE b == Close(conn, {conn.ref})
                 c == [b EXCEPT !.ref = NoSetup]
      <4>1. /\ b \in Connection /\ b.timers = conn.timers
            /\ \A j \in Setup : b.st[j] = conn.st[j] \/ conn.st[j] \in {"connecting", "open"}
        <5>1. /\ b \in Connection /\ b.timers = conn.timers
              /\ \A j \in Setup : b.st[j] = IF j \in {conn.ref} /\ conn.st[j] \in {"connecting", "open"}
                                            THEN "closed" ELSE conn.st[j]
          BY <1>t, CloseFacts
        <5> HIDE DEF b
        <5> QED BY <5>1
      <4> HIDE DEF b
      <4>2. c \in Connection /\ c.timers = b.timers /\ c.st = b.st
        BY <4>1 DEF Connection
      <4>3. Becomes(c)
        BY <3>1 DEF b
      <4> HIDE DEF c
      <4>4. Frees(conn, c)
        BY <4>1, <4>2 DEF Frees, UsedIn
      <4>5. Demand(c) <= D
        BY <1>t, <4>4, FreesDemand DEF D
      <4>6. conn' \in Connection /\ E <= Demand(c)
        BY <4>2, <4>3, BecomesFrees, FreesDemand DEF Frees, E
      <4>7. Demand(c) \in Nat
        BY <4>2, DemandType
      <4> QED BY <1>d, <4>5, <4>6, <4>7
    <3>2. CASE conn' = conn
      <4>1. E = D
        BY <3>2 DEF D, E
      <4> QED BY <1>t, <1>d, <3>2, <4>1
    <3> QED BY <2>1, <3>1, <3>2
  <2>3. m = l /\ h = 0 /\ k = 1
    BY <2>1 DEF l, m, h, k
  <2> QED BY <1>t, <1>d, <1>b, <1>e, <1>s, <2>1, <2>2, <2>3
<1>4. CASE Show
  <2>1. /\ loading' = loading /\ ~ visible /\ visible'
        /\ moves' = moves /\ faults' = faults
        /\ \/ SetupCalled(conn, project, TRUE, Barred, batch, buffer, isConnected)
           \/ conn' = conn
    BY <1>4 DEF Show
  <2>2. conn' \in Connection /\ E <= D + 1
    <3>1. CASE SetupCalled(conn, project, TRUE, Barred, batch, buffer, isConnected)
      BY <1>t, <3>1, SetupCalledDemand DEF D, E
    <3>2. CASE conn' = conn
      <4>1. E = D
        BY <3>2 DEF D, E
      <4> QED BY <1>t, <1>d, <3>2, <4>1
    <3> QED BY <2>1, <3>1, <3>2
  <2>3. m = l /\ h = 1 /\ k = 0
    BY <2>1 DEF l, m, h, k
  <2> QED BY <1>t, <1>d, <1>b, <1>e, <1>s, <2>1, <2>2, <2>3
<1>5. ASSUME NEW p \in Projects, Navigate(p)
      PROVE  Budget'
  <2>1. /\ loading' \in {loading, FALSE} /\ visible' = visible
        /\ moves' = moves + 1 /\ faults' = faults /\ Rerun(p, loading')
    BY <1>5 DEF Navigate, Move
  <2>2. conn' \in Connection /\ E <= D + 1
    BY <1>t, <2>1, RerunDemand DEF D, E
  <2>3. m <= l /\ k = h
    <3>1. CASE loading' = loading
      BY <2>1, <3>1 DEF l, m, h, k
    <3>2. CASE loading' = FALSE
      BY <2>1, <3>2 DEF l, m, h, k
    <3> QED BY <2>1, <3>1, <3>2
  <2> QED BY <1>t, <1>d, <1>b, <1>e, <1>s, <2>1, <2>2, <2>3
<1>6. ASSUME NEW i \in Setup, TokenArrives(i)
      PROVE  Budget'
  <2>1. /\ loading' = loading /\ visible' = visible
        /\ moves' = moves /\ faults' = faults
        /\ conn.st[i] = "token"
        /\ \/ Becomes([Close(conn, {conn.ref}) EXCEPT !.st[i] = "connecting", !.ref = i])
           \/ Becomes([conn EXCEPT !.st[i] = "connecting", !.ref = i, !.cleanup = i])
    BY <1>6 DEF TokenArrives, tab
  <2>2. ASSUME NEW b \in Connection, b.timers = conn.timers,
               \A j \in Setup : b.st[j] = conn.st[j] \/ conn.st[j] \in {"connecting", "open"},
               NEW c \in Connection, c.timers = b.timers,
               \A j \in Setup \ {i} : c.st[j] = b.st[j],
               Becomes(c)
        PROVE  conn' \in Connection /\ E <= D
    <3>1. Frees(conn, c)
      BY <2>1, <2>2 DEF Frees, UsedIn
    <3>2. Demand(c) <= D
      BY <1>t, <3>1, FreesDemand DEF D
    <3>3. conn' \in Connection /\ E <= Demand(c)
      BY <2>2, BecomesFrees, FreesDemand DEF Frees, E
    <3>4. Demand(c) \in Nat
      BY <2>2, DemandType
    <3> QED BY <1>d, <3>2, <3>3, <3>4
  <2>3. conn' \in Connection /\ E <= D
    <3>1. CASE Becomes([Close(conn, {conn.ref}) EXCEPT !.st[i] = "connecting", !.ref = i])
      <4> DEFINE b == Close(conn, {conn.ref})
                 c == [b EXCEPT !.st[i] = "connecting", !.ref = i]
      <4>1. /\ b \in Connection /\ b.timers = conn.timers
            /\ \A j \in Setup : b.st[j] = conn.st[j] \/ conn.st[j] \in {"connecting", "open"}
        <5>1. /\ b \in Connection /\ b.timers = conn.timers
              /\ \A j \in Setup : b.st[j] = IF j \in {conn.ref} /\ conn.st[j] \in {"connecting", "open"}
                                            THEN "closed" ELSE conn.st[j]
          BY <1>t, CloseFacts
        <5> HIDE DEF b
        <5> QED BY <5>1
      <4>2. Becomes(c)
        BY <3>1
      <4> HIDE DEF b
      <4>3. /\ c \in Connection /\ c.timers = b.timers
            /\ \A j \in Setup \ {i} : c.st[j] = b.st[j]
        BY <4>1 DEF Connection
      <4> HIDE DEF c
      <4> QED BY <2>2, <4>1, <4>2, <4>3
    <3>2. CASE Becomes([conn EXCEPT !.st[i] = "connecting", !.ref = i, !.cleanup = i])
      <4> DEFINE c == [conn EXCEPT !.st[i] = "connecting", !.ref = i, !.cleanup = i]
      <4>1. /\ c \in Connection /\ c.timers = conn.timers
            /\ \A j \in Setup \ {i} : c.st[j] = conn.st[j]
        BY <1>t DEF Connection
      <4>2. Becomes(c)
        BY <3>2
      <4> HIDE DEF c
      <4> QED BY <1>t, <2>2, <4>1, <4>2
    <3> QED BY <2>1, <3>1, <3>2
  <2>4. m = l /\ k = h
    BY <2>1 DEF l, m, h, k
  <2> QED BY <1>q, <2>1, <2>3, <2>4
<1>7. ASSUME NEW i \in Setup, TokenFails(i)
      PROVE  Budget'
  <2> DEFINE c == [conn EXCEPT !.st[i] = "failed", !.connecting = @ /\ page = "alerts"]
  <2>1. /\ loading' = loading /\ visible' = visible
        /\ moves' = moves /\ faults' = faults + 1 /\ faults < MaxFaults
        /\ conn.st[i] = "token"
        /\ conn' = Retry(c, i) \/ Becomes(c)
    BY <1>7 DEF TokenFails, Fault, tab
  <2>2. /\ c \in Connection /\ c.timers = conn.timers /\ c.attempts = conn.attempts
        /\ \A j \in Setup \ {i} : c.st[j] = conn.st[j]
    BY <1>t DEF Connection
  <2> HIDE DEF c
  <2>3. UsedIn(c) \subseteq UsedIn(conn)
    BY <2>1, <2>2 DEF UsedIn
  <2>4. c.attempts < MaxFaults
    BY <1>t, <2>1, <2>2, Limits DEF Connection
  <2>5. E <= D + 1
    BY <1>t, <2>1, <2>2, <2>3, <2>4, FailureDemand DEF D, E
  <2>6. m = l /\ k = h
    BY <2>1 DEF l, m, h, k
  <2> QED BY <1>c, <1>p, <2>1, <2>5, <2>6
<1>8. ASSUME NEW i \in Setup, StreamFails(i)
      PROVE  Budget'
  <2> DEFINE c == [conn EXCEPT !.st[i] = "closed", !.connecting = FALSE]
             d == [c EXCEPT !.attempts = @ + 1]
  <2>1. /\ loading' = loading /\ visible' = visible
        /\ moves' = moves /\ faults' = faults + 1 /\ faults < MaxFaults
        /\ conn.st[i] \in {"connecting", "open"}
        /\ conn' = Retry(c, i) \/ Becomes(c) \/ Becomes(d)
    BY <1>8 DEF StreamFails, Fault, tab
  <2>2. /\ c \in Connection /\ c.timers = conn.timers /\ c.attempts = conn.attempts
        /\ \A j \in Setup \ {i} : c.st[j] = conn.st[j]
    BY <1>t DEF Connection
  <2> HIDE DEF c
  <2>3. UsedIn(c) \subseteq UsedIn(conn)
    BY <2>1, <2>2 DEF UsedIn
  <2>4. c.attempts < MaxFaults /\ c.attempts + 1 \in 0 .. MaxFaults
    BY <1>t, <2>1, <2>2, Limits DEF Connection
  <2>5. d \in Connection /\ d.timers = c.timers /\ d.st = c.st
    BY <2>2, <2>4 DEF Connection
  <2> HIDE DEF d
  <2>6. UsedIn(d) = UsedIn(c)
    BY <2>5 DEF UsedIn
  <2>7. E <= D + 1
    <3>1. CASE conn' = Retry(c, i) \/ Becomes(c)
      BY <1>t, <2>2, <2>3, <2>4, <3>1, FailureDemand DEF D, E
    <3>2. CASE Becomes(d)
      BY <1>t, <2>2, <2>3, <2>5, <2>6, <3>2, FailureDemand DEF D, E
    <3> QED BY <2>1, <3>1, <3>2
  <2>8. m = l /\ k = h
    BY <2>1 DEF l, m, h, k
  <2> QED BY <1>c, <1>p, <2>1, <2>7, <2>8
<1>9. ASSUME NEW i \in Setup, AlertStreamFails(i)
      PROVE  Budget'
  <2>1. /\ loading' = loading /\ visible' = visible
        /\ moves' = moves /\ faults' = faults + 1
        /\ conn.st[i] \in {"connecting", "open"}
        /\ \E s \in {"connecting", "closed"} : Becomes([conn EXCEPT !.st[i] = s])
    BY <1>9 DEF AlertStreamFails, Fault, tab
  <2>2. PICK s \in {"connecting", "closed"} : Becomes([conn EXCEPT !.st[i] = s])
    BY <2>1
  <2> DEFINE c == [conn EXCEPT !.st[i] = s]
  <2>3. /\ c \in Connection /\ c.timers = conn.timers
        /\ \A j \in Setup \ {i} : c.st[j] = conn.st[j]
    BY <1>t DEF Connection
  <2>4. Becomes(c)
    BY <2>2
  <2> HIDE DEF c
  <2>5. UsedIn(c) \subseteq UsedIn(conn)
    BY <2>1, <2>3 DEF UsedIn
  <2>6. E <= D + 1
    BY <1>t, <2>3, <2>4, <2>5, FailureDemand DEF D, E
  <2>7. m = l /\ k = h
    BY <2>1 DEF l, m, h, k
  <2> QED BY <1>c, <1>p, <2>1, <2>6, <2>7
<1>10. ASSUME NEW i \in Setup, RetryTimer(i)
       PROVE  Budget'
  <2> DEFINE c == [conn EXCEPT !.timers = @ \ {i}]
  <2>1. /\ loading' = loading /\ visible' = visible
        /\ moves' = moves /\ faults' = faults /\ i \in conn.timers
        /\ \/ SetupCalled(c, c.of[i], c.current[i], FALSE, batch, buffer, isConnected)
           \/ Becomes(c)
    BY <1>10 DEF RetryTimer, tab
  <2>2. c \in Connection /\ c.timers = conn.timers \ {i} /\ c.st = conn.st
    BY <1>t DEF Connection
  <2> HIDE DEF c
  <2>3. c.of[i] \in Projects /\ c.current[i] \in BOOLEAN
    BY <2>2 DEF Connection
  <2>4. D = Demand(c) + 1 /\ Demand(c) \in Nat
    <3>1. UsedIn(c) = UsedIn(conn)
      BY <2>2 DEF UsedIn
    <3>2. IsFiniteSet(conn.timers)
      BY <1>t, DemandType
    <3>3. Cardinality(conn.timers \ {i}) = Cardinality(conn.timers) - 1
      BY <2>1, <3>2, FS_RemoveElement
    <3>4. /\ Cardinality(UsedIn(conn)) \in Nat /\ Cardinality(conn.timers) \in Nat
          /\ Demand(c) \in Nat
      BY <1>t, <2>2, DemandType
    <3> QED BY <2>2, <3>1, <3>3, <3>4 DEF D, Demand
  <2>5. E <= Demand(c) + 1
    <3>1. CASE SetupCalled(c, c.of[i], c.current[i], FALSE, batch, buffer, isConnected)
      BY <2>2, <2>3, <3>1, SetupCalledDemand DEF E
    <3>2. CASE Becomes(c)
      <4>1. E <= Demand(c)
        BY <2>2, <3>2, BecomesFrees, FreesDemand DEF E
      <4> QED BY <1>c, <1>d, <2>4, <4>1
    <3> QED BY <2>1, <3>1, <3>2
  <2>6. m = l /\ k = h
    BY <2>1 DEF l, m, h, k
  <2> QED BY <1>c, <1>q, <2>1, <2>4, <2>5, <2>6
\* A step that starts no setup and sets no timer.
<1>u. ASSUME UsedIn(conn') = UsedIn(conn), conn'.timers = conn.timers,
             UNCHANGED <<loading, visible, moves, faults>>
      PROVE  Budget'
  <2>1. E = D
    BY <1>u DEF D, E, Demand
  <2>2. m = l /\ k = h
    BY <1>u DEF l, m, h, k
  <2> QED BY <1>c, <1>d, <1>q, <1>u, <2>1, <2>2
<1>11. ASSUME NEW i \in Setup, Opens(i)
       PROVE  Budget'
  <2>1. UNCHANGED <<loading, visible, moves, faults>> /\ conn.st[i] = "connecting"
    BY <1>11 DEF Opens, tab
  <2> DEFINE c == [conn EXCEPT !.st[i] = "open", !.got[i] = sent[conn.of[i]]]
  <2>2. conn' = IF page = "alerts" THEN c ELSE [c EXCEPT !.connecting = FALSE, !.attempts = 0]
    BY <1>11 DEF Opens
  <2>3. conn'.timers = conn.timers /\ conn'.st = [conn.st EXCEPT ![i] = "open"]
    BY <1>t, <2>2 DEF Connection
  <2>4. UsedIn(conn') = UsedIn(conn)
    <3>1. conn.st \in [Setup -> {"none", "token", "failed", "connecting", "open", "closed"}]
      BY <1>t DEF Connection
    <3> QED BY <2>1, <2>3, <3>1 DEF UsedIn
  <2> QED BY <1>u, <2>1, <2>3, <2>4
<1>12. ASSUME NEW i \in Setup, Deliver(i)
       PROVE  Budget'
  <2>1. /\ UNCHANGED <<loading, visible, moves, faults>>
        /\ conn' = [conn EXCEPT !.got[i] = @ + 1]
    BY <1>12 DEF Deliver, tab
  <2>2. conn'.timers = conn.timers /\ conn'.st = conn.st
    BY <1>t, <2>1 DEF Connection
  <2> QED BY <1>u, <2>1, <2>2 DEF UsedIn
<1>13. CASE UNCHANGED <<conn, loading, visible, moves, faults>>
  BY <1>u, <1>13 DEF UsedIn
<1>14. ASSUME NEW p \in Projects, Broadcast(p) \/ LoadAnswered(p)
       PROVE  Budget'
  BY <1>13, <1>14 DEF Broadcast, LoadAnswered, tab
<1>15. CASE ProcessBatchedLogs
  BY <1>13, <1>15 DEF ProcessBatchedLogs, tab
<1>16. ASSUME NEW x \in Listed, MarkAlert(x) \/ DeleteAlert(x)
       PROVE  Budget'
  BY <1>13, <1>16 DEF MarkAlert, DeleteAlert, tab
<1>17. CASE UNCHANGED vars
  BY <1>13, <1>17 DEF vars, tab
<1> QED BY <1>0, <1>1, <1>2, <1>3, <1>4, <1>5, <1>6, <1>7, <1>8, <1>9, <1>10, <1>11, <1>12, <1>14,
           <1>15, <1>16, <1>17
        DEF Next, Connect

\* Some number of a setup is always left: setupSSEConnection finds one for
\* every call of it, so that the finite set Setup restricts no behaviour.
THEOREM SetupsSuffice == Spec => [](Unused(conn) # {})
<1>1. IInv /\ Budget => Unused(conn) # {}
  <2> SUFFICES ASSUME IInv, Budget, Unused(conn) = {} PROVE FALSE
    OBVIOUS
  <2>1. /\ conn \in Connection /\ moves \in Nat /\ moves <= MaxMoves
        /\ faults \in Nat /\ faults <= MaxFaults
    BY Limits DEF IInv, TypeOK
  <2>2. UsedIn(conn) = Setup
    BY DEF UsedIn, Unused
  <2>3. Cardinality(Setup) = 2 + MaxMoves + MaxFaults
    <3> DEFINE n == 2 + MaxMoves + MaxFaults
    <3>1. 1 \in Int /\ n \in Int /\ n > 1 /\ n - 1 + 1 = n
      BY Limits
    <3> HIDE DEF n
    <3>2. Cardinality(1 .. n) = IF 1 > n THEN 0 ELSE n - 1 + 1
      BY ONLY <3>1, FS_Interval
    <3>3. Cardinality(1 .. n) = n
      BY ONLY <3>1, <3>2
    <3> QED BY <3>3 DEF Setup, n
  <2>4. Demand(conn) >= 2 + MaxMoves + MaxFaults /\ Demand(conn) \in Nat
    <3>1. Cardinality(conn.timers) \in Nat
      BY <2>1, DemandType
    <3>2. Demand(conn) = 2 + MaxMoves + MaxFaults + Cardinality(conn.timers)
      BY <2>2, <2>3 DEF Demand
    <3> QED BY <3>1, <3>2, Limits
  <2>5. Demand(conn) <= Owed(conn) /\ Owed(conn) \in Nat
    BY <2>4 DEF Owed
  <2>6. Owed(conn) <= 1 + moves + faults
    BY DEF Budget
  <2> QED BY <2>1, <2>4, <2>5, <2>6, Limits
<1>2. Init => Budget
  BY InitBudget
<1>3. IInv /\ Budget /\ [Next]_vars => Budget'
  BY NextBudget
<1> QED BY <1>1, <1>2, <1>3, InitIInv, NextIInv, PTL DEF Spec
=============================================================================
