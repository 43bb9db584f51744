------------------------------- MODULE SessionMap -------------------------------
(* The session map of TintaView (tintaview/core/state.py) and what each hook      *)
(* event does to it (StatusServer.handle_event in tintaview/core/server.py).      *)
(*                                                                                *)
(* Every mutator of StateStore runs under one re-entrant lock, so one action here *)
(* is one call: it replaces the map, and it reports the new fold to its caller    *)
(* when, and only when, that call changed the fold.                               *)
(*                                                                                *)
(* Time.  A session's `seen` stamp is kept as `silent`, the number of Ticks since *)
(* the stamp was set.  It saturates one above WatchdogTimeout, where more silence *)
(* changes nothing that the code tests (now - seen > timeout).                    *)
(*                                                                                *)
(* Data.  A posted request is its identity: a prompt that came with the payload   *)
(* (question, detail, request_tool and cwd are always stored or cleared together, *)
(* so one `detail` stands for the last three), or a bare sentence.                *)
EXTENDS Integers, FiniteSets

CONSTANTS
    Keys,             \* the (agent, sid) pairs that may speak; a sid is a number
    Subagents,        \* ids of subagents, which report under their parent's sid
    Prompts,          \* requests an agent can be waiting on
    Sentences,        \* what a Notification says with no request behind it
    Tools,            \* tool names, for display only
    WatchdogTimeout   \* ticks of silence after which the watchdog may retire

Empty    == ""           \* Python's "", in every descriptive field
Main     == ""           \* the actor of a session's main thread
Keep     == "keep"       \* tool=None: leave the tool name alone

ASSUME KeysAssumption     == \A k \in Keys : k = <<k[1], k[2]>> /\ k[2] \in Nat
ASSUME NamesAssumption    == /\ Empty \notin Subagents \cup Prompts \cup Sentences \cup Tools
                             /\ Keep \notin Tools
ASSUME TimeoutAssumption  == WatchdogTimeout \in Nat

--------------------------------------------------------------------------------
(* Values *)

Statuses  == {"idle", "working", "confirm"}     \* VALID_STATUSES
Folds     == Statuses \cup {"none"}
Actors    == Subagents \cup {Main}

NoRequest == [question |-> Empty, detail |-> Empty]
Requests  == [question : Prompts \cup Sentences \cup {Empty}, detail : Prompts \cup {Empty}]

Session   == [status : Statuses, tool : Tools \cup {Empty}, request : Requests,
              confirm_actor : Actors, silent : 0 .. WatchdogTimeout + 1]

Fresh(status) == [status |-> status, tool |-> Empty, request |-> NoRequest,
                  confirm_actor |-> Main, silent |-> 0]

\* What a confirm can bring: the whole request (a posted PermissionRequest), a sentence
\* alone (a Notification, or an old shim's ?question=), or nothing (the stall detector,
\* the agent-less alias, an unreadable body).
Payloads == [question : Sentences \cup {Empty}, detail : {Empty}]
              \cup {[question |-> p, detail |-> p] : p \in Prompts}

(* The effective status *)

StatusesIn(ss) == {ss[k].status : k \in DOMAIN ss}

\* Confirm beats working beats idle; an empty store folds to none.
Effective(ss) ==
    IF DOMAIN ss = {} THEN "none"
    ELSE IF "confirm" \in StatusesIn(ss) THEN "confirm"
    ELSE IF "working" \in StatusesIn(ss) THEN "working"
    ELSE "idle"

(* The mutators, as functions of the map they are called on *)

Put(ss, k, s) == [j \in DOMAIN ss \cup {k} |-> IF j = k THEN s ELSE ss[j]]

EndMany(ss, ks) == [j \in DOMAIN ss \ ks |-> ss[j]]

\* Mutants: no rule about subagents at all (the bug reported on 2026-09-29), and one that
\* holds back the asker itself.
HeldByNobody(s, status, actor) == FALSE

HeldFromEverySubagent(s, status, actor) ==
    /\ actor # Main
    /\ status # "confirm"
    /\ s.status = "confirm"

\* A subagent may not move a session off a confirm that the recorded asker raised.
Held(s, status, actor) ==
    /\ actor # Main
    /\ status # "confirm"
    /\ s.status = "confirm"
    /\ s.confirm_actor # actor

\* Mutant: every working event, not only a plain ping, keeps the stored request.
RequestKeptByTools(s, status, tool, request) ==
    CASE status = "confirm" -> IF request.detail # Empty \/ s.request.detail = Empty
                               THEN request ELSE s.request
      [] status = "working" -> s.request
      [] OTHER              -> NoRequest

\* A confirm without a detail does not replace a stored one; a plain working ping keeps
\* the stored request, hidden; everything else clears it.
RequestAfter(s, status, tool, request) ==
    CASE status = "confirm"                  -> IF request.detail # Empty \/ s.request.detail = Empty
                                                THEN request ELSE s.request
      [] status = "working" /\ tool = Keep   -> s.request
      [] OTHER                               -> NoRequest

\* Mutant: tool=None is stored instead of meaning "unchanged".
MovedStoringKeep(s, status, tool, request, actor) ==
    [status        |-> status,
     tool          |-> tool,
     request       |-> RequestAfter(s, status, tool, request),
     confirm_actor |-> IF status = "confirm" THEN actor ELSE s.confirm_actor,
     silent        |-> 0]

\* The record set() leaves behind when it is not held back.
Moved(s, status, tool, request, actor) ==
    [status        |-> status,
     tool          |-> IF tool = Keep THEN s.tool ELSE tool,
     request       |-> RequestAfter(s, status, tool, request),
     confirm_actor |-> IF status = "confirm" THEN actor ELSE s.confirm_actor,
     silent        |-> 0]

\* Mutant: one clock for the whole store, so any session's event vouches for all of them.
SetStatusGlobalClock(ss, k, status, tool, request, actor) ==
    LET s == IF k \in DOMAIN ss THEN ss[k] ELSE Fresh(status)
        t == IF k \in DOMAIN ss /\ Held(s, status, actor)
             THEN s ELSE Moved(s, status, tool, request, actor)
    IN  [j \in DOMAIN ss \cup {k} |-> [(IF j = k THEN t ELSE ss[j]) EXCEPT !.silent = 0]]

SetStatus(ss, k, status, tool, request, actor) ==
    LET s == IF k \in DOMAIN ss THEN ss[k] ELSE Fresh(status)
    IN  IF k \in DOMAIN ss /\ Held(s, status, actor)
        THEN Put(ss, k, [s EXCEPT !.silent = 0])
        ELSE Put(ss, k, Moved(s, status, tool, request, actor))

Expired(ss) == {k \in DOMAIN ss : ss[k].silent > WatchdogTimeout}

(* Events *)

Event(kind, k, actor) == [kind |-> kind, key |-> k, actor |-> actor,
                          tool |-> Empty, request |-> NoRequest]

EventsOf(k) ==
    {Event(kind, k, a) : kind \in {"session-start", "session-end", "working", "idle", "tool-end"},
                         a \in Actors}
      \cup {[Event("tool-start", k, a) EXCEPT !.tool = t] : a \in Actors, t \in Tools \cup {Empty}}
      \cup {[Event("confirm", k, a) EXCEPT !.request = r] : a \in Actors, r \in Payloads}

\* The store call handle_event makes for each event of the hook vocabulary.
Handled(ss, e) ==
    CASE e.kind = "session-start" -> Put(ss, e.key, Fresh("idle"))
      [] e.kind = "session-end"   -> EndMany(ss, {e.key})
      [] e.kind = "working"       -> SetStatus(ss, e.key, "working", Keep, NoRequest, e.actor)
      [] e.kind = "idle"          -> SetStatus(ss, e.key, "idle", Keep, NoRequest, e.actor)
      [] e.kind = "confirm"       -> SetStatus(ss, e.key, "confirm", Keep, e.request, e.actor)
      [] e.kind = "tool-start"    -> SetStatus(ss, e.key, "working", e.tool, NoRequest, e.actor)
      [] e.kind = "tool-end"      -> SetStatus(ss, e.key, "working", Empty, NoRequest, e.actor)

\* What a mutator returns: the fold it produced, or NoChange (Python's None).
NoChange == "no change"

\* Mutant: a call that empties the store says nothing, as if "none" were falsy.
ReturnedUnlessEmptied(before, after) ==
    IF Effective(after) \notin {Effective(before), "none"} THEN Effective(after) ELSE NoChange

Returned(before, after) == IF Effective(after) # Effective(before) THEN Effective(after)
                                                                   ELSE NoChange

(* What /state quotes for an agent: one waiting session's request, lowest sid first *)

AgentKeys(ss, agent) == {k \in DOMAIN ss : k[1] = agent}

AgentEffective(ss, agent) == Effective([k \in AgentKeys(ss, agent) |-> ss[k]])

Lowest(ks) == CHOOSE k \in ks : \A j \in ks : k[2] <= j[2]

\* Mutant: the lowest waiting session is quoted even when it has nothing to say.
HeadlineOfTheLowest(ss, agent) ==
    LET asking == {k \in AgentKeys(ss, agent) : ss[k].status = "confirm"}
    IN  IF asking # {} THEN ss[Lowest(asking)].request ELSE NoRequest

HeadlineRequest(ss, agent) ==
    LET asking == {k \in AgentKeys(ss, agent) : ss[k].status = "confirm"
                                                /\ ss[k].request # NoRequest}
    IN  IF AgentEffective(ss, agent) = "confirm" /\ asking # {}
        THEN ss[Lowest(asking)].request ELSE NoRequest

HeadlineTool(ss, agent) ==
    LET busy == {k \in AgentKeys(ss, agent) : ss[k].status = "working" /\ ss[k].tool # Empty}
    IN  IF AgentEffective(ss, agent) = "working" /\ busy # {}
        THEN ss[Lowest(busy)].tool ELSE Empty
================================================================================
