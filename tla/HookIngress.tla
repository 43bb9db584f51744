------------------------------- MODULE HookIngress ------------------------------
(* From what an agent does to what the session map says: the hooks each adapter     *)
(* binds (tintaview/agents), the hook script that takes the session's id out of the *)
(* agent's payload, or posts all of it when a question is asked (hooks/tv-hook.sh,  *)
(* tv-hook.cmd), and the daemon's handlers, a thread each, which acknowledge the    *)
(* request before they do what it says (core/request.py, _Handler in core/server.py)*)
EXTENDS Integers, FiniteSets, Sequences

CONSTANTS
    Hosts,         \* the agents followed: adapters' keys
    Inputs,        \* what is varied of the system and the payloads
    MaxCalls,      \* bound: hooks that an agent fires
    MaxAtOnce      \* bound: of them, not handled yet

VARIABLES
    host, os,  \* the agent, and the system whose hook script it runs
    spaced,        \* its payloads have spaces around the colons
    input,         \* what a tool's input has under a key of its own: nothing, a session's
                   \* id, or an agent's
    phase,         \* what the session is really doing
    helper,        \* a subagent of it: none, busy, waiting, answered
    calls,         \* requests that have not been handled yet
    store,         \* the daemon's session map
    count,         \* counter: the requests that were sent
    last,          \* history: the number of the request handled last
    said, heard,   \* history: the last request that each actor sent, that was handled for it
    crossed        \* history: a subagent's question was repeated in the agent's own name, or
                   \* was still on its way when the agent asked (see MainQuestion.cfg)

ingressVars == <<host, os, spaced, input, phase, helper, calls, store, count, last,
                 said, heard, crossed>>
shape == <<host, os, spaced, input>>

Main  == ""
Sub   == "sub"
Own   == "own"                 \* the session's id
Other == "other"               \* an id in the input of a tool
Default == "default"           \* DEFAULT_SID

Sessions == INSTANCE SessionMap WITH
    Keys <- {}, Subagents <- {Sub}, Prompts <- {"ask"}, Sentences <- {"note"}, Tools <- {},
    WatchdogTimeout <- 0

\* Assumed in Install.tla.
IngressAssumption ==
    /\ Hosts \subseteq {"claude", "codex", "copilot", "cursor", "junie"}
    /\ Inputs \subseteq [system : {"posix", "windows"}, spaced : BOOLEAN,
                           input : {"plain", "session", "agent"}]
    /\ MaxCalls \in Nat /\ MaxAtOnce \in Nat

--------------------------------------------------------------------------------
(* What each agent's hooks file binds.  Events have Claude's names; `of` are the    *)
(* matches of an event that the binding is for.                                     *)

Tools == {"tool", "question"}
Every == Tools \cup {"", "permission", "idle"}
On(event, of, does) == [event |-> event, of |-> of, does |-> does, async |-> FALSE]
Begins == {On("SessionStart", Every, "session-start"), On("SessionEnd", Every, "session-end"),
           On("UserPromptSubmit", Every, "working"), On("Stop", Every, "idle")}
Brackets == {On("PreToolUse", Every, "tool-start"), On("PostToolUse", Every, "tool-end")}
Asks == On("PermissionRequest", Every, "confirm")

HookBindings(h) ==
    Begins \cup
    CASE h = "claude"  -> Brackets \cup {Asks, On("Notification", {"permission"}, "confirm"),
                                         On("Notification", {"idle"}, "idle")}
      [] h = "codex"   -> Brackets \cup {Asks}
      [] h = "copilot" -> Brackets \cup {On("Notification", {"permission"}, "confirm")}
      [] h = "cursor"  -> Brackets
      [] h = "junie"   -> {On("PreToolUse", Every \ {"question"}, "working"),
                           On("PreToolUse", {"question"}, "confirm"),
                           [Asks EXCEPT !.async = TRUE], On("StopFailure", Every, "idle")}

\* The event an agent has for a question, "" for Cursor, whose questions no hook reports.
QuestionEvent(h) ==
    IF h \in {"claude", "codex", "junie"} THEN "PermissionRequest"
    ELSE IF h = "copilot" THEN "Notification" ELSE ""

\* What the payload names the session with.
SidField(h, event) ==
    IF h = "cursor" THEN "conversation_id"
    ELSE IF h = "copilot" /\ event = "Notification" THEN "sessionId" ELSE "session_id"

--------------------------------------------------------------------------------
(* What the daemon reads out of a hook's payload.                                  *)

InTool(event) == event \in {"PreToolUse", "PostToolUse", "PermissionRequest"}
ScriptField   == IF host = "cursor" THEN "conversation_id" ELSE "session_id"

\* The sed of tv-hook.sh takes the last match of its line, tv-hook.cmd the first of the
\* one spelling it looks for; both fall back to the default.
ScrapedSid(event) ==
    IF SidField(host, event) # ScriptField THEN Default
    ELSE IF os = "windows" THEN IF spaced THEN Default ELSE Own
    ELSE IF InTool(event) /\ input = "session" THEN Other ELSE Own

\* Only what comes before the event's name is looked at, where a subagent's id is.
ScrapedActor(actor) == IF os = "windows" /\ spaced THEN Main ELSE actor

\* parse: a JSON parser's own fields.
ReadSid(event) ==
    IF SidField(host, event) \in {"session_id", "conversation_id", "sessionId"} THEN Own ELSE Default
ReadRequest(event) ==
    IF event = "Notification" THEN [question |-> "note", detail |-> ""]
    ELSE [question |-> "ask", detail |-> "ask"]

\* The request a hook makes: posted whole for a confirm, otherwise scraped.
Scrape(event, does, actor) ==
    IF does = "confirm"
    THEN [kind |-> does, key |-> ReadSid(event), actor |-> actor, tool |-> "",
          request |-> ReadRequest(event)]
    ELSE [kind |-> does, key |-> ScrapedSid(event), actor |-> ScrapedActor(actor),
          tool |-> "", request |-> Sessions!NoRequest]

--------------------------------------------------------------------------------
(* The agent.                                                                      *)

Init ==
    /\ host \in Hosts
    /\ \E p \in Inputs : os = p.system /\ spaced = p.spaced /\ input = p.input
    /\ phase = "off" /\ helper = "none" /\ calls = {} /\ store = <<>>
    /\ count = 0 /\ last = 0 /\ crossed = FALSE
    /\ said = [a \in {Main, Sub} |-> 0] /\ heard = said

\* An agent waits for its hooks, unless they are asynchronous.
Waits(actor) == \E c \in calls : c.by = actor /\ c.at = "sent" /\ ~c.async

Fire(event, match, actor, by) ==
    LET bound == {b \in HookBindings(host) : b.event = event /\ match \in b.of}
    IN  /\ ~Waits(by) /\ count < MaxCalls /\ Cardinality(calls) < MaxAtOnce
        /\ count' = IF bound = {} THEN count ELSE count + 1
        /\ calls' = calls \cup {[n |-> count', by |-> by, at |-> "sent", async |-> b.async,
                                 says |-> Scrape(event, b.does, actor)] : b \in bound}
        /\ said' = [said EXCEPT ![by] = IF bound = {} THEN @ ELSE count']
        /\ UNCHANGED <<shape, store, last, heard>>

MainFires(event, match) == Fire(event, match, Main, Main) /\ UNCHANGED helper
SubFires(event) == Fire(event, "tool", IF host = "claude" THEN Sub ELSE Main, Sub) /\ UNCHANGED <<phase, crossed>>

Opens   == phase = "off" /\ phase' = "idle" /\ MainFires("SessionStart", "") /\ UNCHANGED crossed
Prompts == phase = "idle" /\ phase' = "working" /\ MainFires("UserPromptSubmit", "") /\ UNCHANGED crossed
Uses(kind) ==
    /\ phase \in {"working", "answered"}
    /\ phase' = IF host = "junie" /\ kind = "question" THEN "waiting" ELSE "tool"
    /\ MainFires("PreToolUse", kind) /\ UNCHANGED crossed
\* The agent asks: only an agent that has an event for it.
Questions ==
    /\ phase = "tool" /\ helper # "waiting" /\ QuestionEvent(host) # "" /\ phase' = "waiting"
    /\ MainFires(QuestionEvent(host), "permission")
    /\ crossed' = (crossed \/ \E c \in calls : c.by = Sub /\ c.says.kind = "confirm")
\* Claude says again what is asked, and does not say for whom.
Reminds ==
    /\ host = "claude" /\ "waiting" \in {phase, helper}
    /\ Fire("Notification", "permission", Main, Main)
    /\ crossed' = (crossed \/ helper = "waiting")
    /\ UNCHANGED <<phase, helper>>
\* No hook fires for the answer itself.
Answers ==
    /\ phase = "waiting" /\ phase' = "answered"
    /\ UNCHANGED <<shape, helper, calls, store, count, last, said, heard, crossed>>
\* A tool that was refused has no end; after the answer to one of Junie's nothing comes.
Ends ==
    /\ phase \in {"tool", "answered"} /\ helper # "waiting"
    /\ phase' = IF phase = "answered" /\ host = "junie" THEN "answered" ELSE "working"
    /\ MainFires("PostToolUse", "tool") /\ UNCHANGED crossed
Stops ==
    /\ phase \in {"working", "answered"} /\ phase' = "idle"
    /\ \E event \in {"Stop"} \cup (IF host = "junie" THEN {"StopFailure"} ELSE {}) : MainFires(event, "")
    /\ UNCHANGED crossed
Idles ==
    host = "claude" /\ phase = "idle" /\ UNCHANGED <<phase, crossed>> /\ MainFires("Notification", "idle")
Leaves ==
    /\ phase # "off" /\ phase' = "off"
    /\ Fire("SessionEnd", "", Main, Main) /\ helper' = "none" /\ UNCHANGED crossed

\* A subagent, in the background or with the main thread waiting for it.
Spawns ==
    /\ host = "claude" /\ phase = "tool" /\ helper = "none" /\ helper' = "busy"
    /\ UNCHANGED <<shape, phase, calls, store, count, last, said, heard, crossed>>
SubUses    == helper = "busy" /\ helper' = "busy" /\ SubFires("PreToolUse")
SubAsks    == helper = "busy" /\ phase = "tool" /\ helper' = "waiting" /\ SubFires("PermissionRequest")
SubAnswers ==
    /\ helper = "waiting" /\ helper' = "answered"
    /\ UNCHANGED <<shape, phase, calls, store, count, last, said, heard, crossed>>
SubEnds    == helper \in {"busy", "answered"} /\ helper' = "busy" /\ SubFires("PostToolUse")

--------------------------------------------------------------------------------
(* The hook script and the daemon.                                                 *)

\* The script's curl gives up after a second, and the agent goes on; the daemon may
\* still take the request.
GivesUp(c) ==
    /\ c.at = "sent" /\ calls' = (calls \ {c}) \cup {[c EXCEPT !.at = "late"]}
    /\ UNCHANGED <<shape, phase, helper, store, count, last, said, heard, crossed>>
\* No daemon takes it.
Loses(c) ==
    /\ c.at = "late" /\ calls' = calls \ {c}
    /\ UNCHANGED <<shape, phase, helper, store, count, last, said, heard, crossed>>
\* _route, _route_post: acknowledged first,
Acknowledges(c) ==
    /\ c.at \in {"sent", "late"} /\ calls' = (calls \ {c}) \cup {[c EXCEPT !.at = "taken"]}
    /\ UNCHANGED <<shape, phase, helper, store, count, last, said, heard, crossed>>
\* and then handed to handle_event.
Handles(c) ==
    /\ c.at = "taken" /\ calls' = calls \ {c}
    /\ store' = Sessions!Handled(store, c.says)
    /\ last' = c.n /\ heard' = [heard EXCEPT ![c.by] = c.n]
    /\ UNCHANGED <<shape, phase, helper, count, said, crossed>>

Acts == Opens \/ Prompts \/ (\E k \in Tools : Uses(k)) \/ Questions \/ Reminds \/ Answers
          \/ Ends \/ Stops \/ Idles \/ Leaves
Helps == Spawns \/ SubUses \/ SubAsks \/ SubAnswers \/ SubEnds
Daemon == \E c \in calls : GivesUp(c) \/ Loses(c) \/ Acknowledges(c) \/ Handles(c)
Next == Acts \/ Helps \/ Daemon

--------------------------------------------------------------------------------
(* The property's parts.                                                           *)

\* Every hook that counts was heard, in the order the actor fired them.  tv-hook.cmd says
\* of itself that it cannot read spaced payloads; tv-hook.sh takes a tool's session_id
\* for the session's.
Told == calls = {} /\ heard = said
Scrapable == (os = "windows" => ~spaced) /\ (os = "posix" => input # "session")

\* The map has the agent's session and no other, and it is red exactly while the agent
\* waits for the user, whatever was lost or overtaken earlier; between an answer and the
\* next hook it may be red for longer.
StatusIsTold ==
    (Told /\ Scrapable) =>
        IF phase = "off" THEN last = count => store = <<>>
        ELSE /\ DOMAIN store = {Own}
             /\ (phase = "waiting" /\ ~crossed) \/ (helper = "waiting" /\ last = count) => store[Own].status = "confirm"
             /\ phase \in {"idle", "working"} /\ last = said[Main] => store[Own].status = phase
             /\ phase \in {"idle", "working"} /\ helper = "busy" /\ last = count /\ ~crossed
                  => store[Own].status # "confirm"
================================================================================
