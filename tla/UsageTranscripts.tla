---------------------------- MODULE UsageTranscripts ----------------------------
(* Usage rebuilt from the agents' own transcripts (tintaview/stats/_scan.py and    *)
(* the local halves of stats/providers/claude.py and codex.py): files an agent     *)
(* appends to while a poll reads them, parsed once and kept by (mtime, size).      *)
EXTENDS Integers, Sequences, FiniteSets, Functions, FiniteSetsExt

CONSTANTS
    Messages,       \* message ids of a Claude transcript
    Tokens,         \* tokens one line may report
    Window, Week,   \* "last 5 hours", and the age at which a file is left unread
    Span,           \* _WINDOW_5H_SPAN_S: the window and five minutes more
    Chunks,         \* the lines in each tail of a Codex file, the largest _MAX_TAIL_BYTES
    MaxLines, MaxClock

VARIABLES
    agent,          \* whose transcript it is, "claude" or "codex"
    clock,
    lines,          \* the records appended so far
    mtime,
    memo,           \* FileMemo's entry: its key and the value parsed
    scan,           \* the poll under way: its stat, the lines it has read, its now
    tally           \* the last poll's figure, its cutoff and the file at its start

transcriptVars == <<agent, clock, lines, mtime, memo, scan, tally>>

NoId == "none"      \* a line of an older transcript, with neither id

\* Assumed in Tray.tla.
TranscriptAssumption ==
    /\ NoId \notin Messages
    /\ Tokens \subseteq Nat
    /\ Chunks \subseteq Nat /\ IsFiniteSet(Chunks) /\ Chunks # {}
    /\ Window \in Nat /\ Week \in Nat /\ Span \in Nat /\ Span > Window /\ Week >= Window
    /\ MaxLines \in Nat /\ MaxClock \in Nat

NoScan == [phase |-> "idle", key |-> <<>>, read |-> <<>>, now |-> 0]
NoMemo == [key |-> <<>>, value |-> <<>>]
Line(at, id, tokens) == [at |-> at, id |-> id, tokens |-> tokens]
Last(ls) == ls[Len(ls)]
TokensOf(ls, positions) == SumFunctionOnSet([i \in DOMAIN ls |-> ls[i].tokens], positions)

Init ==
    /\ agent \in {"claude", "codex"}
    /\ clock = 0 /\ lines = <<>> /\ mtime = 0
    /\ memo = NoMemo /\ scan = NoScan
    /\ tally = [figure |-> 0, cutoff |-> 0, from |-> 0]

--------------------------------------------------------------------------------
(* What a parse makes of a file.                                                  *)

\* _parse_transcript: the lines of a message are one record, with its first line's time
\* and the largest counts seen.
Same(records, l) == {i \in DOMAIN records : l.id # NoId /\ records[i].id = l.id}
Merged(records, l) ==
    IF Same(records, l) = {} THEN Append(records, l)
    ELSE LET i == CHOOSE j \in Same(records, l) : TRUE
         IN  [records EXCEPT ![i].tokens = Max({@, l.tokens})]
Collapsed(ls) ==
    LET records[n \in 0 .. Len(ls)] == IF n = 0 THEN <<>> ELSE Merged(records[n - 1], ls[n])
    IN  records[Len(ls)]

\* _scan_tail: the last lines, by growing chunks, until they span the window with some to
\* spare, are the whole file, or are as many bytes as a poll will read.
Tail_(ls, n) == IF n >= Len(ls) THEN ls ELSE SubSeq(ls, Len(ls) - n + 1, Len(ls))
Spans(ls) == ls # <<>> /\ Last(ls).at - ls[1].at >= Span
ScanTail(ls) ==
    Tail_(ls, Min({n \in Chunks : Spans(Tail_(ls, n)) \/ n >= Len(ls)} \cup {Max(Chunks)}))

Parse(ls) == IF agent = "claude" THEN Collapsed(ls) ELSE ScanTail(ls)

\* _reconstruct_from_jsonl, and _window_totals with _subtract_totals: a Codex line's count
\* is the session's so far, so the newest one from before the window is taken off.
Figure(value, cutoff) ==
    LET before == {i \in DOMAIN value : value[i].at < cutoff}
    IN  IF agent = "claude" THEN TokensOf(value, DOMAIN value \ before)
        ELSE IF value = <<>> \/ Last(value).at < cutoff THEN 0
        ELSE IF before = {} THEN Last(value).tokens
        ELSE Max({Last(value).tokens - value[Max(before)].tokens, 0})

--------------------------------------------------------------------------------
(* The agent.                                                                     *)

\* A poll is over before the spare time of Span has passed.
Tick ==
    /\ clock < MaxClock /\ clock' = clock + 1
    /\ scan.phase = "idle" \/ clock' - scan.now < Span - Window
    /\ UNCHANGED <<agent, lines, mtime, memo, scan, tally>>

\* Claude writes a streamed message as several lines, its counts growing; Codex writes the
\* running total of the session, which a resumed session may start again.
Grows(id, tokens) ==
    IF agent = "codex" THEN id = NoId
    ELSE \A i \in DOMAIN lines : lines[i].id = id => lines[i].tokens <= tokens
AppendLine ==
    /\ Len(lines) < MaxLines
    /\ \E id \in Messages \cup {NoId}, tokens \in Tokens :
          /\ id # NoId \/ agent = "codex" \/ lines = <<>>
          /\ Grows(id, tokens)
          /\ lines' = Append(lines, Line(clock, id, tokens))
    /\ mtime' = clock
    /\ UNCHANGED <<agent, clock, memo, scan, tally>>

--------------------------------------------------------------------------------
(* A poll: recent_files, then FileMemo.get, whose stat comes before its parse.    *)

Tallied(value, now, from) ==
    tally' = [figure |-> Figure(value, now - Window), cutoff |-> now - Window, from |-> from]

\* A file untouched for a week is not looked at, and the memo forgets it.
PollStats ==
    /\ scan.phase = "idle" /\ lines # <<>>
    /\ IF mtime < clock - Week
       THEN memo' = NoMemo /\ Tallied(<<>>, clock, Len(lines)) /\ UNCHANGED scan
       ELSE IF memo.key = <<mtime, Len(lines)>>
       THEN Tallied(memo.value, clock, Len(lines)) /\ UNCHANGED <<memo, scan>>
       ELSE /\ scan' = [phase |-> "statted", key |-> <<mtime, Len(lines)>>, read |-> <<>>, now |-> clock]
            /\ UNCHANGED <<memo, tally>>
    /\ UNCHANGED <<agent, clock, lines, mtime>>

PollReads ==
    /\ scan.phase = "statted"
    /\ scan' = [scan EXCEPT !.phase = "read", !.read = lines]
    /\ UNCHANGED <<agent, clock, lines, mtime, memo, tally>>

Entry(key, value) == [key |-> key, value |-> value]
PollStores ==
    /\ scan.phase = "read" /\ scan' = NoScan
    /\ memo' = Entry(scan.key, Parse(scan.read))
    /\ Tallied(memo'.value, scan.now, scan.key[2])
    /\ UNCHANGED <<agent, clock, lines, mtime>>

Next == Tick \/ AppendLine \/ PollStats \/ PollReads \/ PollStores
Spec == Init /\ [][Next]_transcriptVars

--------------------------------------------------------------------------------
TypeOK ==
    /\ agent \in {"claude", "codex"} /\ clock \in 0..MaxClock /\ mtime \in 0..MaxClock
    /\ Len(lines) <= MaxLines /\ scan.phase \in {"idle", "statted", "read"}

\* What was really used inside the window: for Claude each message's last figure, for
\* Codex what the total grew by with each line, both over the whole file.
Lines(ls, id) == {i \in DOMAIN ls : ls[i].id = id}
Base(ls, i) == IF i = 1 \/ ls[i].tokens < ls[i - 1].tokens THEN 0 ELSE ls[i - 1].tokens
Used(ls, cutoff) ==
    IF agent = "claude"
    THEN LET seen == {id \in Messages : Lines(ls, id) # {}}
             inside == {id \in seen : ls[Min(Lines(ls, id))].at >= cutoff}
         IN  SumFunction([id \in inside |-> ls[Max(Lines(ls, id))].tokens])
             + TokensOf(ls, {i \in Lines(ls, NoId) : ls[i].at >= cutoff})
    ELSE SumFunctionOnSet([i \in DOMAIN ls |-> ls[i].tokens - Base(ls, i)],
                          {i \in DOMAIN ls : ls[i].at >= cutoff})

\* A Codex total went back inside the window; more lines of it than a tail may hold.
Restarted(ls, cutoff) ==
    \E i \in DOMAIN ls : i > 1 /\ ls[i].at >= cutoff /\ ls[i].tokens < ls[i - 1].tokens
Crowded(ls) == Len(ls) > Max(Chunks) /\ ~Spans(Tail_(ls, Max(Chunks)))

\* What the code counts of a file: every token of the window once. A Codex total that went
\* back is floored, so too little is counted, and a tail that does not reach before the
\* window charges it with the whole total, as _window_totals says.
Counts(figure, ls, cutoff) ==
    \/ figure = Used(ls, cutoff)
    \/ agent = "codex" /\ Restarted(ls, cutoff) /\ figure \in 0..Used(ls, cutoff)
    \/ agent = "codex" /\ Crowded(ls) /\ figure = IF Max(Chunks) = 0 THEN 0 ELSE Last(ls).tokens

\* A poll counts the file as it stood at some moment of the poll: never from a parse older
\* than the file's last line, however the agent's writing falls between the stat and the
\* read, and however long a parse is kept.
EstimateIsCurrent ==
    \E n \in tally.from..Len(lines) : Counts(tally.figure, SubSeq(lines, 1, n), tally.cutoff)
================================================================================
