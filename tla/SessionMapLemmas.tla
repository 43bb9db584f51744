---------------------------- MODULE SessionMapLemmas ----------------------------
(* Lemmas about the operators of SessionMap, for every set of keys, subagents,    *)
(* prompts and tools; the proofs about the store and about the broker rest on     *)
(* them.                                                                          *)
EXTENDS SessionMap, TLAPS

MapOK(ss) == /\ DOMAIN ss \subseteq Keys
             /\ ss \in [DOMAIN ss -> Session]

Kinds == {"session-start", "session-end", "working", "idle", "confirm",
          "tool-start", "tool-end"}

\* Events that leave the session in a status other than confirm, unless held back.
Moving == {"working", "idle", "tool-start", "tool-end"}

\* The fields of an event, whatever its kind.
LEMMA EventFields ==
    ASSUME NEW k, NEW e \in EventsOf(k)
    PROVE  /\ e.key = k /\ e.kind \in Kinds /\ e.actor \in Actors
           /\ e.tool \in Tools \cup {Empty} /\ e.request \in Requests
<1>1. /\ NoRequest \in Requests
      /\ Payloads \subseteq Requests
  BY DEF NoRequest, Requests, Payloads
<1>2. CASE \E kind \in {"session-start", "session-end", "working", "idle", "tool-end"} :
             \E a \in Actors : e = Event(kind, k, a)
  BY <1>1, <1>2 DEF Event, Kinds
<1>3. CASE \E a \in Actors : \E t \in Tools \cup {Empty} :
             e = [Event("tool-start", k, a) EXCEPT !.tool = t]
  BY <1>1, <1>3 DEF Event, Kinds
<1>4. CASE \E a \in Actors : \E r \in Payloads :
             e = [Event("confirm", k, a) EXCEPT !.request = r]
  BY <1>1, <1>4 DEF Event, Kinds
<1>5. QED
  BY <1>2, <1>3, <1>4 DEF EventsOf

\* Storing a record for a key of Keys keeps the map well typed.
LEMMA PutOK ==
    ASSUME NEW ss, MapOK(ss), NEW k \in Keys, NEW s \in Session
    PROVE  MapOK(Put(ss, k, s))
BY DEF MapOK, Put

\* Dropping keys keeps the map well typed.
LEMMA EndManyOK ==
    ASSUME NEW ss, MapOK(ss), NEW ks
    PROVE  MapOK(EndMany(ss, ks))
BY DEF MapOK, EndMany

\* A fresh session is a session.
LEMMA FreshOK ==
    ASSUME NEW status \in Statuses
    PROVE  Fresh(status) \in Session
<1>1. 0 \in 0 .. WatchdogTimeout + 1
  BY TimeoutAssumption
<1>2. QED
  BY <1>1 DEF Fresh, Session, NoRequest, Requests, Actors, Main, Empty

\* The record set() leaves is a session.
LEMMA MovedOK ==
    ASSUME NEW s \in Session, NEW status \in Statuses, NEW tool \in Tools \cup {Empty, Keep},
           NEW request \in Requests, NEW actor \in Actors
    PROVE  Moved(s, status, tool, request, actor) \in Session
<1>1. 0 \in 0 .. WatchdogTimeout + 1
  BY TimeoutAssumption
<1>2. RequestAfter(s, status, tool, request) \in Requests
  BY DEF RequestAfter, Session, Requests, NoRequest
<1>3. (IF tool = Keep THEN s.tool ELSE tool) \in Tools \cup {Empty}
  BY DEF Session
<1>4. (IF status = "confirm" THEN actor ELSE s.confirm_actor) \in Actors
  BY DEF Session
<1>5. QED
  BY <1>1, <1>2, <1>3, <1>4 DEF Moved, Session

\* set() keeps the map well typed.
LEMMA SetStatusOK ==
    ASSUME NEW ss, MapOK(ss), NEW k \in Keys, NEW status \in Statuses,
           NEW tool \in Tools \cup {Empty, Keep}, NEW request \in Requests, NEW actor \in Actors
    PROVE  MapOK(SetStatus(ss, k, status, tool, request, actor))
<1> DEFINE s == IF k \in DOMAIN ss THEN ss[k] ELSE Fresh(status)
<1>1. s \in Session
  BY FreshOK DEF MapOK
<1>2. [s EXCEPT !.silent = 0] \in Session
  BY <1>1, TimeoutAssumption DEF Session
<1>3. Moved(s, status, tool, request, actor) \in Session
  BY <1>1, MovedOK
<1> HIDE DEF s
<1>4. /\ MapOK(Put(ss, k, [s EXCEPT !.silent = 0]))
      /\ MapOK(Put(ss, k, Moved(s, status, tool, request, actor)))
  BY <1>2, <1>3, PutOK
<1>5. QED
  BY <1>4 DEF SetStatus, s

\* Every event keeps the map well typed.
LEMMA HandledOK ==
    ASSUME NEW ss, MapOK(ss), NEW k \in Keys, NEW e \in EventsOf(k)
    PROVE  MapOK(Handled(ss, e))
<1>1. /\ e.key = k /\ e.kind \in Kinds /\ e.actor \in Actors
      /\ e.tool \in Tools \cup {Empty} /\ e.request \in Requests
  BY EventFields
<1>2. NoRequest \in Requests
  BY DEF NoRequest, Requests
<1>3. CASE e.kind = "session-start"
  BY <1>1, <1>3, PutOK, FreshOK DEF Handled, Statuses
<1>4. CASE e.kind = "session-end"
  BY <1>1, <1>4, EndManyOK DEF Handled
<1>5. CASE e.kind = "working"
  BY <1>1, <1>2, <1>5, SetStatusOK DEF Handled, Statuses
<1>6. CASE e.kind = "idle"
  BY <1>1, <1>2, <1>6, SetStatusOK DEF Handled, Statuses
<1>7. CASE e.kind = "confirm"
  BY <1>1, <1>7, SetStatusOK DEF Handled, Statuses
<1>8. CASE e.kind = "tool-start"
  BY <1>1, <1>2, <1>8, SetStatusOK DEF Handled, Statuses
<1>9. CASE e.kind = "tool-end"
  BY <1>1, <1>2, <1>9, SetStatusOK DEF Handled, Statuses
<1>10. QED
  BY <1>1, <1>3, <1>4, <1>5, <1>6, <1>7, <1>8, <1>9 DEF Kinds

\* An event touches no session but its own.
LEMMA HandledOthers ==
    ASSUME NEW ss, NEW k \in Keys, NEW e \in EventsOf(k), NEW j, j # k
    PROVE  /\ j \in DOMAIN Handled(ss, e) <=> j \in DOMAIN ss
           /\ j \in DOMAIN ss => Handled(ss, e)[j] = ss[j]
<1>1. e.key = k /\ e.kind \in Kinds
  BY EventFields
<1>2. ASSUME NEW s
      PROVE  /\ j \in DOMAIN Put(ss, k, s) <=> j \in DOMAIN ss
             /\ j \in DOMAIN ss => Put(ss, k, s)[j] = ss[j]
  BY DEF Put
<1>3. /\ j \in DOMAIN EndMany(ss, {k}) <=> j \in DOMAIN ss
      /\ j \in DOMAIN ss => EndMany(ss, {k})[j] = ss[j]
  BY DEF EndMany
<1>4. QED
  BY <1>1, <1>2, <1>3 DEF Handled, SetStatus, Kinds

\* What an event makes of its own session: gone, afresh, held on its confirm, or moved.
LEMMA HandledOwn ==
    ASSUME NEW ss, MapOK(ss), NEW k \in Keys, NEW e \in EventsOf(k),
           k \in DOMAIN Handled(ss, e)
    PROVE  LET old == IF k \in DOMAIN ss THEN ss[k] ELSE Fresh("idle")
               new == Handled(ss, e)[k]
           IN \/ e.kind = "session-start" /\ new = Fresh("idle")
              \/ /\ e.kind = "confirm"
                 /\ new.status = "confirm"
                 /\ new.confirm_actor = e.actor
                 /\ new.request.detail = IF e.request.detail # Empty
                                         THEN e.request.detail ELSE old.request.detail
              \/ /\ e.kind \in Moving
                 /\ k \in DOMAIN ss
                 /\ old.status = "confirm"
                 /\ e.actor \notin {Main, old.confirm_actor}
                 /\ new = [old EXCEPT !.silent = 0]
              \/ /\ e.kind \in Moving
                 /\ ~(k \in DOMAIN ss /\ old.status = "confirm"
                      /\ e.actor \notin {Main, old.confirm_actor})
                 /\ new.status # "confirm"
                 /\ new.request = IF e.kind = "working" THEN old.request ELSE NoRequest
<1> DEFINE new == Handled(ss, e)[k]
           was(status) == IF k \in DOMAIN ss THEN ss[k] ELSE Fresh(status)
<1>1. /\ e.key = k /\ e.kind \in Kinds /\ e.actor \in Actors
      /\ e.tool \in Tools \cup {Empty} /\ e.request \in Requests
  BY EventFields
<1>2. ASSUME NEW s PROVE Put(ss, k, s)[k] = s
  BY DEF Put
<1>3. k \notin DOMAIN EndMany(ss, {k})
  BY DEF EndMany
<1>4. e.kind # "session-end"
  BY <1>1, <1>3 DEF Handled
<1>5. CASE e.kind = "session-start"
  BY <1>1, <1>2, <1>5 DEF Handled
<1>6. CASE e.kind = "confirm"
  <2>1. new = Moved(was("confirm"), "confirm", Keep, e.request, e.actor)
    BY <1>1, <1>2, <1>6 DEF Handled, SetStatus, Held
  <2>2. was("confirm").request = was("idle").request
    BY DEF Fresh
  <2>3. QED
    BY <1>6, <2>1, <2>2 DEF Moved, RequestAfter
<1>7. CASE e.kind \in Moving
  <2>1. PICK status \in {"idle", "working"}, tool \in Tools \cup {Empty, Keep} :
          /\ Handled(ss, e) = SetStatus(ss, k, status, tool, NoRequest, e.actor)
          /\ (status = "working" /\ tool = Keep) <=> e.kind = "working"
    BY <1>1, <1>7, NamesAssumption DEF Handled, Moving, Empty, Keep
  <2>2. CASE k \in DOMAIN ss /\ Held(ss[k], status, e.actor)
    BY <1>2, <1>7, <2>1, <2>2 DEF SetStatus, Held, Moving
  <2>3. CASE ~(k \in DOMAIN ss /\ Held(ss[k], status, e.actor))
    <3>1. new = Moved(was(status), status, tool, NoRequest, e.actor)
      BY <1>2, <2>1, <2>3 DEF SetStatus
    <3>2. new.status = status /\ new.request = RequestAfter(was(status), status, tool, NoRequest)
      BY <3>1 DEF Moved
    <3>3. was(status).request = was("idle").request
      BY DEF Fresh
    <3>4. new.request = IF e.kind = "working" THEN was("idle").request ELSE NoRequest
      BY <2>1, <3>2, <3>3 DEF RequestAfter
    <3>5. ~(k \in DOMAIN ss /\ was("idle").status = "confirm"
            /\ e.actor \notin {Main, was("idle").confirm_actor})
      BY <2>3 DEF Held
    <3>6. QED
      BY <1>7, <3>2, <3>4, <3>5
  <2>4. QED
    BY <2>2, <2>3
<1>8. QED
  BY <1>1, <1>4, <1>5, <1>6, <1>7 DEF Kinds, Moving

\* What a fold can be.
LEMMA EffectiveInFolds == ASSUME NEW ss PROVE Effective(ss) \in Folds
BY DEF Effective, Folds, Statuses

\* The fold depends on the statuses alone.
LEMMA SameStatusesSameFold ==
    ASSUME NEW ss, NEW tt, DOMAIN ss = DOMAIN tt, \A k \in DOMAIN ss : ss[k].status = tt[k].status
    PROVE  Effective(ss) = Effective(tt)
BY DEF Effective, StatusesIn

\* A fold is never mistaken for "nothing changed".
LEMMA NoChangeIsNoFold == NoChange \notin Folds
BY DEF NoChange, Folds, Statuses
================================================================================
