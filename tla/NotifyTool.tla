------------------------------- MODULE NotifyTool -------------------------------
(* The notify_user tool (tintaview/core/mcp.py): a process per agent session that   *)
(* answers JSON-RPC lines one after the other, posts each call to the daemon, and   *)
(* tells the agent whether anything showed the message; StatusServer._route_notify  *)
(* and request_notify; and the tray that shows it, on its own thread.               *)
EXTENDS Integers, Sequences, FiniteSets, Functions

CONSTANTS
    DaemonPorts,   \* server.port
    Batches,       \* lines an agent may send, each a sequence of message kinds
    MaxItems       \* bound: messages sent

VARIABLES
    inbox, outbox, \* stdin, as a queue of lines of [n, kind]; stdout
    mcp,           \* the process: its line, its replies to it, its call, its cached base_url
    posts,         \* calls the daemon's threads are at
    wanted,        \* server.port in config.toml
    daemon,        \* [port, at]
    emitted,       \* notify_requested signals, queued for the GUI thread
    shown,         \* history: the messages that the tray showed
    items,         \* counter: messages sent
    slow, unlucky  \* history: calls that timed out, calls that a quitting tray accepted

notifyVars == <<inbox, outbox, mcp, posts, wanted, daemon, emitted, shown, items, slow, unlucky>>

None == 0
Silent == "silent"             \* a JSON-RPC notification has no reply
Kinds == {"notify", "blank", "empty", "ping", "unknown", Silent, "garbage"}

\* Assumed in Tray.tla.
NotifyAssumption ==
    /\ DaemonPorts \subseteq Nat \ {None} /\ DaemonPorts # {} /\ MaxItems \in Nat
    /\ Batches \subseteq UNION {[1 .. k -> Kinds] : k \in 1 .. 2}

NotCalling == [n |-> None, port |-> None]

Init ==
    /\ inbox = <<>> /\ outbox = <<>> /\ posts = {} /\ emitted = <<>> /\ shown = <<>>
    /\ mcp = [line |-> <<>>, replies |-> <<>>, call |-> NotCalling, url |-> None]
    /\ wanted = CHOOSE p \in DaemonPorts : TRUE
    /\ daemon = [port |-> wanted, at |-> "off"]
    /\ items = 0 /\ slow = {} /\ unlucky = {}

--------------------------------------------------------------------------------
(* The agent and the tool's process.                                               *)

Sends(batch) ==
    /\ items + Len(batch) <= MaxItems /\ items' = items + Len(batch)
    /\ inbox' = Append(inbox, [i \in DOMAIN batch |-> [n |-> items + i, kind |-> batch[i]]])
    /\ UNCHANGED <<outbox, mcp, posts, wanted, daemon, emitted, shown, slow, unlucky>>

\* serve: the next line, once the last one is answered.
Reads ==
    /\ mcp.line = <<>> /\ inbox # <<>>
    /\ mcp' = [mcp EXCEPT !.line = Head(inbox), !.replies = <<>>] /\ inbox' = Tail(inbox)
    /\ UNCHANGED <<outbox, posts, wanted, daemon, emitted, shown, items, slow, unlucky>>

\* The message at the head of the line has its reply; the whole line's are written at once.
Replies(what, m) ==
    LET rest == Tail(m.line)
        all  == IF what = Silent THEN m.replies ELSE Append(m.replies, [n |-> Head(m.line).n, says |-> what])
    IN  /\ mcp' = [m EXCEPT !.line = rest, !.call = NotCalling,
                            !.replies = IF rest = <<>> THEN <<>> ELSE all]
        /\ outbox' = IF rest = <<>> THEN outbox \o all ELSE outbox

\* handle: everything but a call with a message is answered on the spot.
Handles ==
    /\ mcp.line # <<>> /\ mcp.call = NotCalling
    /\ LET kind == Head(mcp.line).kind
       IN  /\ kind \notin {"notify", "blank"}
           /\ Replies(IF kind = Silent THEN Silent ELSE IF kind = "ping" THEN "result" ELSE "error", mcp)
    /\ UNCHANGED <<inbox, posts, wanted, daemon, emitted, shown, items, slow, unlucky>>

\* _notify: the configured port is read once, and nobody may listen there.
Calls ==
    /\ mcp.line # <<>> /\ mcp.call = NotCalling /\ Head(mcp.line).kind \in {"notify", "blank"}
    /\ LET port == IF mcp.url = None THEN wanted ELSE mcp.url
           item == Head(mcp.line)
       IN  IF daemon.at # "off" /\ daemon.port = port
           THEN /\ mcp' = [mcp EXCEPT !.url = port, !.call = [n |-> item.n, port |-> port]]
                /\ posts' = posts \cup {item} /\ UNCHANGED outbox
           ELSE Replies("not running", [mcp EXCEPT !.url = port]) /\ UNCHANGED posts
    /\ UNCHANGED <<inbox, wanted, daemon, emitted, shown, items, slow, unlucky>>

\* urlopen's timeout: the daemon's thread knows nothing of it.
TimesOut ==
    /\ mcp.call # NotCalling /\ Replies("not running", mcp) /\ slow' = slow \cup {mcp.call.n}
    /\ UNCHANGED <<inbox, posts, wanted, daemon, emitted, shown, items, unlucky>>

--------------------------------------------------------------------------------
(* The daemon.                                                                     *)

\* request_notify: a callback is set once the tray is there, and stays set.
Notified(p) == p.kind # "blank" /\ daemon.at \in {"tray", "quitting"}

\* _route_notify: a message of which cleaning leaves nothing is refused.
Answers(p) ==
    LET says == IF p.kind = "blank" THEN "refused"
                ELSE IF Notified(p) THEN "delivered" ELSE "no tray"
    IN  /\ daemon.at # "off" /\ posts' = posts \ {p}
        /\ emitted' = IF Notified(p) THEN Append(emitted, p.n) ELSE emitted
        /\ unlucky' = IF Notified(p) /\ daemon.at = "quitting" THEN unlucky \cup {p.n} ELSE unlucky
        /\ IF mcp.call.n = p.n THEN Replies(says, mcp) ELSE UNCHANGED <<mcp, outbox>>
    /\ UNCHANGED <<inbox, wanted, daemon, shown, items, slow>>

\* _on_notify_requested.
Shows ==
    /\ daemon.at = "tray" /\ emitted # <<>>
    /\ shown' = Append(shown, Head(emitted)) /\ emitted' = Tail(emitted)
    /\ UNCHANGED <<inbox, outbox, mcp, posts, wanted, daemon, items, slow, unlucky>>

\* The server listens before the tray has set its callback, a headless one for good.
Starts ==
    /\ daemon.at = "off" /\ daemon' = [port |-> wanted, at |-> "headless"]
    /\ UNCHANGED <<inbox, outbox, mcp, posts, wanted, emitted, shown, items, slow, unlucky>>
TrayComes ==
    /\ daemon.at = "headless" /\ daemon' = [daemon EXCEPT !.at = "tray"]
    /\ UNCHANGED <<inbox, outbox, mcp, posts, wanted, emitted, shown, items, slow, unlucky>>
\* The event loop ends, and the server's stop follows; the process's threads end with it.
Quits ==
    /\ daemon.at = "tray" /\ daemon' = [daemon EXCEPT !.at = "quitting"]
    /\ unlucky' = unlucky \cup Range(emitted)
    /\ UNCHANGED <<inbox, outbox, mcp, posts, wanted, emitted, shown, items, slow>>
Exits ==
    /\ daemon.at \in {"headless", "quitting"} /\ daemon' = [daemon EXCEPT !.at = "off"]
    /\ posts' = {} /\ emitted' = <<>>
    /\ IF mcp.call # NotCalling THEN Replies("not running", mcp) ELSE UNCHANGED <<mcp, outbox>>
    /\ UNCHANGED <<inbox, wanted, shown, items, slow, unlucky>>

\* Settings takes another port, for the next start.
Moves(p) ==
    /\ p # wanted /\ wanted' = p
    /\ UNCHANGED <<inbox, outbox, mcp, posts, daemon, emitted, shown, items, slow, unlucky>>

Next ==
    \/ \E b \in Batches : Sends(b)
    \/ Reads \/ Handles \/ Calls \/ TimesOut
    \/ \E p \in posts : Answers(p)
    \/ Shows \/ Starts \/ TrayComes \/ Quits \/ Exits
    \/ \E p \in DaemonPorts : Moves(p)

--------------------------------------------------------------------------------
TypeOK ==
    /\ mcp.line # <<>> \/ (mcp.call = NotCalling /\ mcp.replies = <<>>)
    /\ mcp.url \in DaemonPorts \cup {None} /\ wanted \in DaemonPorts
    /\ daemon \in [port : DaemonPorts, at : {"off", "headless", "tray", "quitting"}]
    /\ \A p \in posts : p.n \in 1 .. items /\ p.kind \in Kinds

Told(what) == {outbox[i].n : i \in {j \in DOMAIN outbox : outbox[j].says = what}}

\* What the agent is told is so: a message called delivered is on its way to the user or
\* was shown, unless the tray quit with it; one called an error never reaches the user,
\* unless the daemon was too slow to say so; and messages show once, in their order.
MessagesAreHonest ==
    /\ Told("delivered") \subseteq Range(shown) \cup Range(emitted) \cup unlucky
    /\ \A n \in Range(shown) \cup Range(emitted) :
         (n \in Told("no tray") \cup Told("not running") \cup Told("refused")) => n \in slow \cup unlucky
    /\ \A i, j \in DOMAIN (shown \o emitted) :
         LET all == shown \o emitted
         IN  i < j => all[i] # all[j] /\ (all[i] < all[j] \/ all[j] \in slow)

\* Every line is answered in its order, one reply to each message that has an id.
RepliesInOrder == \A i, j \in DOMAIN outbox : i < j => outbox[i].n < outbox[j].n
================================================================================
