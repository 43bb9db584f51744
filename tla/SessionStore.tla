------------------------------ MODULE SessionStore ------------------------------
(* TintaView's StateStore as its callers see it: hook events arrive in any order  *)
(* for any session, time passes, agents crash without a SessionEnd hook, and the  *)
(* watchdog retires what has gone silent.  One step is one call made under the    *)
(* store's lock; what a call returns, and the steps its caller takes with that,   *)
(* are in StatusBroker.tla.                                                       *)
EXTENDS SessionMap

VARIABLES
    sessions,   \* StateStore._sessions: the live keys and their records
    crashed,    \* keys whose agent was killed: no hook of theirs will ever fire again
    asked,      \* per key: the actors that raised a confirm and have not spoken since
    dealt       \* per key: the prompts whose confirm was answered or dropped

vars == <<sessions, crashed, asked, dealt>>

TypeOK ==
    /\ DOMAIN sessions \subseteq Keys
    /\ sessions \in [DOMAIN sessions -> Session]
    /\ crashed \subseteq Keys
    /\ asked \in [Keys -> SUBSET Actors]
    /\ dealt \in [Keys -> SUBSET Prompts]

Init ==
    /\ sessions = <<>>
    /\ crashed = {}
    /\ asked = [k \in Keys |-> {}]
    /\ dealt = [k \in Keys |-> {}]

(* The history the properties are about, kept from the events alone. *)

\* Who is still waiting for an answer after event e.  Everyone's question is over when
\* the main thread moves on, because a foreground subagent hands back to it.
AskedAfter(e) ==
    CASE e.kind \in {"session-start", "session-end"} -> {}
      [] e.kind = "confirm"                          -> asked[e.key] \cup {e.actor}
      [] OTHER -> IF e.actor = Main THEN {} ELSE asked[e.key] \ {e.actor}

\* A tool starting or ending, idle, or a new or ended session settles the stored prompt,
\* when its asker or the main thread says so; a confirm that brings a prompt reopens it.
DealtAfter(e) ==
    LET k == e.key
        stored == {sessions[j].request.detail : j \in {k} \cap DOMAIN sessions} \ {Empty}
        heldOff == \E j \in {k} \cap DOMAIN sessions :
                      /\ sessions[j].status = "confirm"
                      /\ e.actor \notin {Main, sessions[j].confirm_actor}
    IN CASE e.kind = "confirm" -> dealt[k] \ {e.request.detail}
         [] e.kind = "working" -> dealt[k]
         [] e.kind \in {"session-start", "session-end"} -> dealt[k] \cup stored
         [] OTHER -> IF heldOff THEN dealt[k] ELSE dealt[k] \cup stored

\* One hook event.  The stall detector's promotion (_on_stall) is the same store call as a
\* confirm of the main thread with nothing to quote, which is among the events.
HandleEvent(e) ==
    /\ e.key \notin crashed
    /\ sessions' = Handled(sessions, e)
    /\ asked' = [asked EXCEPT ![e.key] = AskedAfter(e)]
    /\ dealt' = [dealt EXCEPT ![e.key] = DealtAfter(e)]
    /\ UNCHANGED crashed

\* The watchdog: every session silent for longer than the timeout goes, in one call.
Retire ==
    /\ Expired(sessions) # {}
    /\ sessions' = EndMany(sessions, Expired(sessions))
    /\ UNCHANGED <<crashed, asked, dealt>>

\* Monotonic time passes for every session alike.
Tick ==
    /\ sessions' = [k \in DOMAIN sessions |->
                      [sessions[k] EXCEPT !.silent = IF @ > WatchdogTimeout THEN @ ELSE @ + 1]]
    /\ UNCHANGED <<crashed, asked, dealt>>

\* An agent is killed, or its machine-wide hook is removed: the session only goes silent.
Crash(k) ==
    /\ k \notin crashed
    /\ crashed' = crashed \cup {k}
    /\ UNCHANGED <<sessions, asked, dealt>>

Next ==
    \/ \E k \in Keys : \E e \in EventsOf(k) : HandleEvent(e)
    \/ \E k \in Keys : Crash(k)
    \/ Retire
    \/ Tick

Spec == Init /\ [][Next]_vars

\* Time passes, and the watchdog thread polls for as long as the server runs.
FairSpec == Spec /\ WF_vars(Tick) /\ WF_vars(Retire)

--------------------------------------------------------------------------------
(* Properties *)

\* Red is always somebody's open question: while a session waits, the actor recorded as
\* having asked has said nothing since.  (A finished subagent's own next event must clear
\* its prompt; a foreign one must not re-attribute it.)
RedHasAnAsker ==
    \A k \in DOMAIN sessions :
        sessions[k].status = "confirm" => sessions[k].confirm_actor \in asked[k]

\* A session stays red until the recorded asker or the main thread speaks, or the session
\* is started afresh, ended or retired: a background subagent still running tools cannot
\* take the question away before anyone saw it.
RedUntilAnswered ==
    [][\A k \in DOMAIN sessions \cap DOMAIN sessions' :
          /\ sessions[k].status = "confirm"
          /\ sessions[k].confirm_actor \in asked'[k]
          => sessions'[k].status = "confirm"]_vars

\* A prompt that was answered or dropped is never stored again by a later event, so a
\* reminder without a payload cannot bring an old question back to the tray or to a phone.
SettledStaysSettled ==
    \A k \in DOMAIN sessions : sessions[k].request.detail \notin dealt[k]

\* What /state quotes for an agent is what one of its waiting sessions asks, sentence and
\* command from the same session; and a waiting session that has something to say is
\* never passed over for an empty line.
QuotesAWaitingSession ==
    \A k \in Keys :
        LET waiting == {j \in AgentKeys(sessions, k[1]) : sessions[j].status = "confirm"}
            quoted  == HeadlineRequest(sessions, k[1])
        IN  /\ quoted # NoRequest => \E j \in waiting : sessions[j].request = quoted
            /\ quoted = NoRequest => \A j \in waiting : sessions[j].request = NoRequest

\* The watchdog's reason to exist: an agent that died without a SessionEnd hook is
\* released in the end, however chatty the other sessions are.
CrashedIsReleased == \A k \in Keys : (k \in crashed) ~> (k \notin DOMAIN sessions)

\* What StateStore.set's docstring promises of the main thread's question: a subagent does
\* not move the session off it, so while the main thread has asked and not spoken since,
\* its live session is red.
MainQuestionStaysOpen ==
    \A k \in DOMAIN sessions : Main \in asked[k] => sessions[k].status = "confirm"
================================================================================
