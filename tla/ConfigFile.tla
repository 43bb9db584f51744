------------------------------- MODULE ConfigFile ------------------------------
(* config.toml as tintaview/core/config.py reads and writes it: a file of raw      *)
(* values, what load() makes of each, what dumps() writes, and the order of the    *)
(* lighting engines brought up to date.  One field stands for every field load()   *)
(* treats like it.                                                                 *)
EXTENDS Integers, Sequences, FiniteSets, Filters, TomlStrings

CONSTANTS
    Adapters,       \* the agents' own confirm detection, [agent -> "event" or "stall"]
    Latest          \* CONFIG_VERSION

\* Assumed in Tray.tla.
ConfigAssumption ==
    /\ \A a \in DOMAIN Adapters : Adapters[a] \in {"event", "stall"}
    /\ "claude" \in DOMAIN Adapters /\ Latest \in Nat

Junk == "junk"      \* a value of the wrong type, or a colour that is no hex colour
NoTable == "none"   \* an agent without an [agents.X] table
Inherit == ""       \* a device colour that follows the icon's

\* Config(): the fields' defaults.
Defaults ==
    [version |-> Latest, order |-> <<"chroma", "ghub", "steelseries", "openrgb">>, mode |-> "auto",
     icon |-> "stock", device |-> "stock", chime |-> FALSE, awake |-> FALSE, collapsed |-> {},
     command |-> <<>>, enabled |-> {"claude"}, tables |-> [a \in DOMAIN Adapters |-> NoTable]]

--------------------------------------------------------------------------------
(* load(), dumps() and save().                                                     *)

\* _migrate_engine_order: each engine that is missing goes after its neighbour, or first.
Inserted(order, engine, after) ==
    LET place == CHOOSE i \in DOMAIN order : order[i] = after
    IN  IF engine \in Range(order) THEN order
        ELSE IF after \in Range(order)
             THEN SubSeq(order, 1, place) \o <<engine>> \o SubSeq(order, place + 1, Len(order))
             ELSE <<engine>> \o order
Migrated(order, version) ==
    IF version >= Latest THEN order
    ELSE Inserted(Inserted(order, "ghub", "chroma"), "steelseries", "ghub")

\* _build, _validate_colors: a value no consumer could use is the default instead.
Coerced(value, default) == IF value = Junk THEN default ELSE value

\* load() ends in an exception over bytes that are no UTF-8, and over an `engine`, an
\* `agents` or a `ui` that is no table: the program does not start.
Raises(file) == file.kind = "raises"

\* A file that is missing, or that tomllib refuses for one string of it, is a fresh
\* install's.
Unreadable(file) == file.kind # "toml" \/ ~Readable(file.raw.command)
Load(file) ==
    IF Unreadable(file) THEN Defaults
    ELSE LET raw == file.raw
             order == Migrated(raw.order, raw.version)
         IN  [raw EXCEPT
                !.order = order,
                !.version = IF order # raw.order THEN Latest ELSE raw.version,
                !.mode = Coerced(raw.mode, Defaults.mode),
                !.icon = Coerced(raw.icon, Defaults.icon),
                !.device = Coerced(raw.device, Defaults.device),
                !.enabled = IF raw.enabled = {} THEN Defaults.enabled ELSE raw.enabled,
                !.command = Parsed(raw.command)]

\* dumps() asks cfg.agent() for every enabled agent's table, which makes the missing ones.
WithTables(cfg) ==
    [cfg EXCEPT !.tables = [a \in DOMAIN Adapters |->
        IF a \in cfg.enabled /\ cfg.tables[a] = NoTable THEN "event" ELSE cfg.tables[a]]]
Dumps(cfg) == [kind |-> "toml", raw |-> [WithTables(cfg) EXCEPT !.command = TomlString(cfg.command)]]

\* save(): a temporary file beside it replaces it, so a crash leaves one or the other.
LeftByACrash(old, cfg) == {old, Dumps(cfg)}
================================================================================
