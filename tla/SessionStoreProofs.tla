--------------------------- MODULE SessionStoreProofs ---------------------------
(* Proofs about SessionStore for every set of keys, subagents, prompts and tools. *)
EXTENDS SessionStore, SessionMapLemmas, WellFoundedInduction

\* A call's effect on the map, as the invariants use it.
LEMMA HandleEventStep ==
    ASSUME NEW k \in Keys, NEW e \in EventsOf(k), HandleEvent(e)
    PROVE  /\ e.key = k
           /\ sessions' = Handled(sessions, e)
           /\ asked' = [asked EXCEPT ![k] = AskedAfter(e)]
           /\ dealt' = [dealt EXCEPT ![k] = DealtAfter(e)]
BY EventFields DEF HandleEvent

\* The types hold initially.
LEMMA InitTypeOK == Init => TypeOK
BY DEF Init, TypeOK, Folds

\* Every step keeps the types.
LEMMA NextTypeOK == TypeOK /\ [Next]_vars => TypeOK'
<1> SUFFICES ASSUME TypeOK, [Next]_vars PROVE TypeOK'
  OBVIOUS
<1>1. MapOK(sessions)
  BY DEF TypeOK, MapOK
<1>2. ASSUME NEW k \in Keys, NEW e \in EventsOf(k), HandleEvent(e) PROVE TypeOK'
  <2>1. MapOK(Handled(sessions, e))
    BY <1>1, <1>2, HandledOK
  <2>2. /\ DOMAIN sessions' \subseteq Keys
        /\ sessions' \in [DOMAIN sessions' -> Session]
    BY <1>2, <2>1 DEF HandleEvent, MapOK
  <2>3. e.actor \in Actors /\ e.kind \in Kinds /\ e.request \in Requests
    BY EventFields
  <2>4. AskedAfter(e) \subseteq Actors
    BY <1>2, <2>3, HandleEventStep DEF AskedAfter, TypeOK
  <2>5. \A j \in DOMAIN sessions : sessions[j].request.detail \in Prompts \cup {Empty}
    BY <1>1 DEF MapOK, Session, Requests
  <2>6. DealtAfter(e) \subseteq Prompts
    BY <1>2, <2>3, <2>5, HandleEventStep DEF DealtAfter, TypeOK, Kinds
  <2>7. QED
    BY <1>2, <2>2, <2>4, <2>6, HandleEventStep DEF TypeOK, HandleEvent
<1>3. CASE Retire
  <2>1. MapOK(EndMany(sessions, Expired(sessions)))
    BY <1>1, EndManyOK
  <2>2. QED
    BY <1>3, <2>1 DEF Retire, TypeOK, MapOK
<1>4. CASE Tick
  <2>1. ASSUME NEW s \in Session
        PROVE  [s EXCEPT !.silent = IF @ > WatchdogTimeout THEN @ ELSE @ + 1] \in Session
    BY TimeoutAssumption DEF Session
  <2>2. QED
    BY <1>4, <2>1 DEF Tick, TypeOK
<1>5. ASSUME NEW k \in Keys, Crash(k) PROVE TypeOK'
  BY <1>5 DEF Crash, TypeOK
<1>6. CASE UNCHANGED vars
  BY <1>6 DEF vars, TypeOK
<1>7. QED
  BY <1>2, <1>3, <1>4, <1>5, <1>6 DEF Next

\* The store's variables keep their types in every behaviour (state.py's dataclass fields
\* hold what set() and start() store in them).
THEOREM TypeCorrect == Spec => []TypeOK
<1>1. QED
  BY InitTypeOK, NextTypeOK, PTL DEF Spec

\* Retiring sessions and passing time leave the surviving sessions' words alone.
LEMMA QuietStep ==
    ASSUME TypeOK, Retire \/ Tick \/ (\E k \in Keys : Crash(k)) \/ UNCHANGED vars
    PROVE  /\ DOMAIN sessions' \subseteq DOMAIN sessions
           /\ \A k \in DOMAIN sessions' :
                 /\ sessions'[k].status = sessions[k].status
                 /\ sessions'[k].confirm_actor = sessions[k].confirm_actor
                 /\ sessions'[k].request = sessions[k].request
           /\ asked' = asked /\ dealt' = dealt
<1>1. CASE Retire
  BY <1>1 DEF Retire, EndMany
<1>2. CASE Tick
  <2>1. \A k \in DOMAIN sessions : sessions[k] \in Session
    BY DEF TypeOK
  <2>2. QED
    BY <1>2, <2>1 DEF Tick, Session
<1>3. CASE (\E k \in Keys : Crash(k)) \/ UNCHANGED vars
  BY <1>3 DEF Crash, vars
<1>4. QED
  BY <1>1, <1>2, <1>3

\* How one event changes the red sessions and who is still waiting for an answer.
LEMMA RedStep ==
    ASSUME TypeOK, NEW k \in Keys, NEW e \in EventsOf(k), HandleEvent(e),
           NEW j \in DOMAIN sessions', sessions'[j].status = "confirm"
    PROVE  \/ j = k /\ e.kind = "confirm" /\ sessions'[j].confirm_actor = e.actor
           \/ /\ j \in DOMAIN sessions
              /\ sessions[j].status = "confirm"
              /\ sessions'[j].confirm_actor = sessions[j].confirm_actor
              /\ j = k => e.kind \in Moving /\ e.actor \notin {Main, sessions[j].confirm_actor}
<1>1. MapOK(sessions) /\ sessions' = Handled(sessions, e)
  BY HandleEventStep DEF TypeOK, MapOK
<1>2. CASE j # k
  <2>1. /\ j \in DOMAIN Handled(sessions, e) <=> j \in DOMAIN sessions
        /\ j \in DOMAIN sessions => Handled(sessions, e)[j] = sessions[j]
    BY <1>1, <1>2, HandledOthers
  <2>2. QED
    BY <1>1, <1>2, <2>1
<1>3. CASE j = k
  <2>1. k \in DOMAIN sessions => sessions[k] \in Session
    BY DEF TypeOK
  <2>2. QED
    BY <1>1, <1>3, <2>1, HandledOwn DEF Fresh, Session
<1>4. QED
  BY <1>2, <1>3

\* A red session's recorded asker has said nothing since it asked: the confirm on the
\* lights always belongs to an actor that is still waiting.
THEOREM RedIsAnOpenQuestion == Spec => []RedHasAnAsker
<1>1. Init => RedHasAnAsker
  BY DEF Init, RedHasAnAsker
<1>2. TypeOK /\ RedHasAnAsker /\ [Next]_vars => RedHasAnAsker'
  <2> SUFFICES ASSUME TypeOK, RedHasAnAsker, [Next]_vars,
                      NEW j \in DOMAIN sessions', sessions'[j].status = "confirm"
               PROVE  sessions'[j].confirm_actor \in asked'[j]
    BY DEF RedHasAnAsker
  <2>1. ASSUME NEW k \in Keys, NEW e \in EventsOf(k), HandleEvent(e)
        PROVE  sessions'[j].confirm_actor \in asked'[j]
    <3>1. /\ e.key = k
          /\ asked' = [asked EXCEPT ![k] = AskedAfter(e)]
          /\ asked \in [Keys -> SUBSET Actors]
          /\ j \in DOMAIN sessions => j \in Keys
      BY <2>1, HandleEventStep DEF TypeOK
    <3>2. CASE j = k /\ e.kind = "confirm" /\ sessions'[j].confirm_actor = e.actor
      BY <3>1, <3>2 DEF AskedAfter
    <3>3. CASE /\ j \in DOMAIN sessions
               /\ sessions[j].status = "confirm"
               /\ sessions'[j].confirm_actor = sessions[j].confirm_actor
               /\ j = k => e.kind \in Moving /\ e.actor \notin {Main, sessions[j].confirm_actor}
      <4>1. sessions[j].confirm_actor \in asked[j]
        BY <3>3 DEF RedHasAnAsker
      <4>2. CASE j = k
        BY <3>1, <3>3, <4>1, <4>2 DEF AskedAfter, Moving
      <4>3. CASE j # k
        BY <3>1, <3>3, <4>1, <4>3
      <4>4. QED
        BY <4>2, <4>3
    <3>4. QED
      BY <2>1, <3>2, <3>3, RedStep
  <2>2. CASE Retire \/ Tick \/ (\E k \in Keys : Crash(k)) \/ UNCHANGED vars
    BY <2>2, QuietStep DEF RedHasAnAsker
  <2>3. QED
    BY <2>1, <2>2 DEF Next
<1>3. QED
  BY <1>1, <1>2, TypeCorrect, PTL DEF Spec

\* Nobody but the recorded asker and the main thread takes a question off the lights, in
\* any behaviour: StateStore.set's rule for background subagents.
THEOREM OnlyAnAnswerClearsRed == Spec => RedUntilAnswered
<1> DEFINE Step == \A k \in DOMAIN sessions \cap DOMAIN sessions' :
                      /\ sessions[k].status = "confirm"
                      /\ sessions[k].confirm_actor \in asked'[k]
                      => sessions'[k].status = "confirm"
<1>1. TypeOK /\ [Next]_vars => [Step]_vars
  <2> SUFFICES ASSUME TypeOK, [Next]_vars,
                      NEW j \in DOMAIN sessions \cap DOMAIN sessions',
                      sessions[j].status = "confirm",
                      sessions[j].confirm_actor \in asked'[j]
               PROVE  sessions'[j].status = "confirm"
    OBVIOUS
  <2>1. ASSUME NEW k \in Keys, NEW e \in EventsOf(k), HandleEvent(e)
        PROVE  sessions'[j].status = "confirm"
    <3>1. /\ MapOK(sessions) /\ sessions' = Handled(sessions, e) /\ e.key = k
          /\ asked' = [asked EXCEPT ![k] = AskedAfter(e)]
          /\ asked \in [Keys -> SUBSET Actors]
      BY <2>1, HandleEventStep DEF TypeOK, MapOK
    <3>2. CASE j # k
      BY <3>1, <3>2, HandledOthers
    <3>3. CASE j = k
      <4>1. sessions[k].confirm_actor \in AskedAfter(e) /\ sessions[k] \in Session
        BY <3>1, <3>3 DEF TypeOK
      <4>2. e.kind # "session-start"
        BY <3>1, <4>1 DEF AskedAfter
      <4>3. e.kind \in Moving => e.actor \notin {Main, sessions[k].confirm_actor}
        BY <3>1, <4>1 DEF AskedAfter, Moving
      <4>4. QED
        BY <3>1, <3>3, <4>1, <4>2, <4>3, HandledOwn DEF Session
    <3>4. QED
      BY <3>2, <3>3
  <2>2. CASE Retire \/ Tick \/ (\E k \in Keys : Crash(k)) \/ UNCHANGED vars
    BY <2>2, QuietStep
  <2>3. QED
    BY <2>1, <2>2 DEF Next
<1>2. QED
  BY <1>1, TypeCorrect, PTL DEF Spec, RedUntilAnswered

\* A settled prompt is never in the store again until it is asked again.
THEOREM SettledPromptsStayAway == Spec => []SettledStaysSettled
<1>1. Init => SettledStaysSettled
  BY DEF Init, SettledStaysSettled
<1>2. TypeOK /\ SettledStaysSettled /\ [Next]_vars => SettledStaysSettled'
  <2> SUFFICES ASSUME TypeOK, SettledStaysSettled, [Next]_vars, NEW j \in DOMAIN sessions'
               PROVE  sessions'[j].request.detail \notin dealt'[j]
    BY DEF SettledStaysSettled
  <2>1. ASSUME NEW k \in Keys, NEW e \in EventsOf(k), HandleEvent(e)
        PROVE  sessions'[j].request.detail \notin dealt'[j]
    <3>1. /\ MapOK(sessions) /\ sessions' = Handled(sessions, e) /\ e.key = k
          /\ dealt' = [dealt EXCEPT ![k] = DealtAfter(e)]
          /\ dealt \in [Keys -> SUBSET Prompts]
          /\ e.kind \in Kinds /\ e.request \in Requests
      BY <2>1, HandleEventStep, EventFields DEF TypeOK, MapOK
    <3>2. CASE j # k
      BY <3>1, <3>2, HandledOthers DEF SettledStaysSettled
    <3>3. CASE j = k
      <4> DEFINE old == IF k \in DOMAIN sessions THEN sessions[k] ELSE Fresh("idle")
                 heldOff == \E i \in {k} \cap DOMAIN sessions :
                               /\ sessions[i].status = "confirm"
                               /\ e.actor \notin {Main, sessions[i].confirm_actor}
      <4>1. old.request.detail \notin dealt[k] /\ Empty \notin Prompts
        BY <3>1, NamesAssumption DEF SettledStaysSettled, Fresh, NoRequest
      <4>2. NoRequest.detail = Empty /\ Fresh("idle").request.detail = Empty
        BY DEF NoRequest, Fresh
      <4>3. CASE e.kind = "session-start" /\ sessions'[k] = Fresh("idle")
        <5>1. DealtAfter(e) \subseteq Prompts
          BY <2>1, NextTypeOK, <3>1 DEF TypeOK, Next
        <5>2. QED
          BY <3>1, <3>3, <4>1, <4>2, <4>3, <5>1
      <4>4. CASE /\ e.kind = "confirm"
                 /\ sessions'[k].request.detail = IF e.request.detail # Empty
                                                  THEN e.request.detail ELSE old.request.detail
        BY <3>1, <3>3, <4>1, <4>4 DEF DealtAfter
      <4>5. CASE /\ e.kind \in Moving /\ heldOff
                 /\ sessions'[k] = [old EXCEPT !.silent = 0]
        <5>1. DealtAfter(e) = dealt[k]
          BY <3>1, <4>5 DEF DealtAfter, Moving
        <5>2. sessions[k] \in Session
          BY <4>5 DEF TypeOK
        <5>3. sessions'[k].request = old.request
          BY <4>5, <5>2 DEF Session
        <5>4. QED
          BY <3>1, <3>3, <4>1, <5>1, <5>3
      <4>6. CASE /\ e.kind \in Moving
                 /\ sessions'[k].request = IF e.kind = "working" THEN old.request ELSE NoRequest
        <5>1. CASE e.kind = "working"
          BY <3>1, <3>3, <4>1, <4>6, <5>1 DEF DealtAfter
        <5>2. CASE e.kind # "working"
          <6>1. DealtAfter(e) \subseteq Prompts
            BY <2>1, NextTypeOK, <3>1 DEF TypeOK, Next
          <6>2. QED
            BY <3>1, <3>3, <4>1, <4>2, <4>6, <5>2, <6>1
        <5>3. QED
          BY <5>1, <5>2
      <4>7. QED
        BY <3>1, <3>3, <4>3, <4>4, <4>5, <4>6, HandledOwn
    <3>4. QED
      BY <3>2, <3>3
  <2>2. CASE Retire \/ Tick \/ (\E k \in Keys : Crash(k)) \/ UNCHANGED vars
    BY <2>2, QuietStep DEF SettledStaysSettled
  <2>3. QED
    BY <2>1, <2>2 DEF Next
<1>3. QED
  BY <1>1, <1>2, TypeCorrect, PTL DEF Spec

\* Among the keys of sessions there is one of a lowest sid, and Lowest picks it.
LEMMA LowestIsOne ==
    ASSUME NEW ks \in SUBSET Keys, ks # {}
    PROVE  Lowest(ks) \in ks /\ \A j \in ks : Lowest(ks)[2] <= j[2]
<1> DEFINE Less == {p \in Nat \X Nat : p[1] < p[2]}
           sids == {j[2] : j \in ks}
<1>1. sids \in SUBSET Nat /\ sids # {}
  BY KeysAssumption
<1>2. IsWellFoundedOn(Less, Nat)
  BY NatLessThanWellFounded DEF OpToRel
<1>3. PICK i \in sids : \A n \in sids : <<n, i>> \notin Less
  <2> HIDE DEF Less, sids
  <2> QED
    BY <1>1, <1>2, WFMin
<1>4. ASSUME NEW n \in sids PROVE i <= n
  <2>1. i \in Nat /\ n \in Nat /\ <<n, i>> \notin Less
    BY <1>1, <1>3
  <2>2. ~(n < i)
    BY <2>1
  <2>3. QED
    BY <2>1, <2>2
<1>5. PICK k \in ks : k[2] = i
  BY <1>3
<1>6. \A j \in ks : k[2] <= j[2]
  BY <1>4, <1>5
<1>7. QED
  BY <1>5, <1>6 DEF Lowest

\* StateStore.headline_request: what is quoted for an agent is the request of one of its
\* waiting sessions, and nothing is quoted only when none of them has anything to say.
THEOREM QuotesAreWaiting == Spec => []QuotesAWaitingSession
<1>1. TypeOK => QuotesAWaitingSession
  <2> SUFFICES ASSUME TypeOK, NEW k \in Keys
               PROVE LET waiting == {j \in AgentKeys(sessions, k[1]) : sessions[j].status = "confirm"}
                         quoted  == HeadlineRequest(sessions, k[1])
                     IN  /\ quoted # NoRequest => \E j \in waiting : sessions[j].request = quoted
                         /\ quoted = NoRequest => \A j \in waiting : sessions[j].request = NoRequest
    BY DEF QuotesAWaitingSession
  <2> DEFINE mine    == AgentKeys(sessions, k[1])
             waiting == {j \in mine : sessions[j].status = "confirm"}
             asking  == {j \in mine : sessions[j].status = "confirm" /\ sessions[j].request # NoRequest}
  <2>1. asking \in SUBSET Keys /\ asking \subseteq waiting
    BY DEF AgentKeys, TypeOK
  <2>2. CASE asking = {}
    <3>1. HeadlineRequest(sessions, k[1]) = NoRequest
      BY <2>2 DEF HeadlineRequest
    <3>2. QED
      BY <3>1, <2>2
  <2>3. CASE asking # {}
    <3>1. Lowest(asking) \in asking
      <4> HIDE DEF asking
      <4> QED
        BY <2>1, <2>3, LowestIsOne
    <3>2. AgentEffective(sessions, k[1]) = "confirm"
      <4> DEFINE own == [j \in mine |-> sessions[j]]
      <4>1. DOMAIN own = mine /\ Lowest(asking) \in mine /\ own[Lowest(asking)].status = "confirm"
        BY <3>1
      <4>2. "confirm" \in StatusesIn(own)
        BY <4>1, Zenon DEF StatusesIn
      <4>3. Effective(own) = "confirm"
        BY <4>1, <4>2 DEF Effective
      <4>4. QED
        BY <4>3 DEF AgentEffective
    <3>3. HeadlineRequest(sessions, k[1]) = sessions[Lowest(asking)].request
      BY <2>3, <3>2 DEF HeadlineRequest
    <3>4. QED
      BY <2>1, <3>1, <3>3
  <2>4. QED
    BY <2>2, <2>3
<1>2. QED
  BY <1>1, TypeCorrect, PTL
================================================================================
