------------------------------ MODULE UsageService ------------------------------
(* The usage service (tintaview/stats/service.py) with the files it keeps: the     *)
(* last good answer of every provider (cache.py) and the readings a forecast is    *)
(* drawn from (trend.py).  The tray keeps one service; the doctor, a window of the *)
(* tray or a process of its own, builds another from the same files and writes     *)
(* them too.  An answer is known by when it was given: the window it describes     *)
(* closes at the next multiple of the window's length.                             *)
EXTENDS Integers, Sequences, FiniteSets, FiniteSetsExt

CONSTANTS
    Asked,          \* the agents whose usage is shown
    Windows,        \* [agent -> lengths of its dated windows], none for undated rows
    FreshFor,       \* AUTH_CACHE_GRACE_POLLS poll intervals
    KeptFor,        \* MAX_CACHE_GRACE_S
    SampleLife,     \* SAMPLE_TTL_S
    LastHour,       \* bound on the clock
    MaxPasses       \* bound on the passes of both services

VARIABLES
    hour,
    mind,           \* each service's copy of the answers and of the samples
    files,          \* usage_cache.json and usage_trend.json
    pass,           \* fetch_all under way: what each provider answered it
    passes,
    given,          \* history: the hours of the answers the tray, and anybody, has got
    apart,          \* history: services whose copy the files have left behind
    amiss           \* history: why the files may lack an answer, "failed" and "overwritten"

usageVars == <<hour, mind, files, pass, passes, given, apart, amiss>>

\* Assumed in Tray.tla.
UsageAssumption ==
    /\ IsFiniteSet(Asked) /\ Windows \in [Asked -> SUBSET (Nat \ {0})]
    /\ FreshFor \in Nat /\ KeptFor \in Nat /\ SampleLife \in Nat /\ LastHour \in Nat \ {0} /\ MaxPasses \in Nat

Services == {"tray", "doctor"}
Never == -1         \* no answer kept
Undated == 0        \* an entry of a file from before fetched_at
Empty == [of |-> [a \in Asked |-> Never], samples |-> [a \in Asked |-> {}]]
Result(kind, at, cached, notice) == [kind |-> kind, at |-> at, cached |-> cached, notice |-> notice]
NoPass == [a \in {} |-> "none"]
NoHours == [a \in Asked |-> {}]

\* A file of the version before holds answers without their age.
Init ==
    /\ hour = 1 /\ passes = 0
    /\ \E old \in SUBSET Asked :
          files = [Empty EXCEPT !.of = [a \in Asked |-> IF a \in old THEN Undated ELSE Never]]
    /\ mind = [s \in Services |-> IF s = "tray" THEN files ELSE Empty]
    /\ pass = [s \in Services |-> NoPass]
    /\ given = [tray |-> Empty.of, any |-> NoHours] /\ apart = {} /\ amiss = {}

--------------------------------------------------------------------------------
(* The cache policy.                                                              *)

\* When the dated windows of an answer close; an undated answer has none to go by.
Closes(a, at) == IF at = Undated THEN {} ELSE {(at \div w + 1) * w : w \in Windows[a]}
StillFresh(at) == at # Undated /\ hour - at <= FreshFor

\* _cached_rows_may_stand_in.
MayStandIn(a, at, kind) ==
    IF at = Undated THEN kind # "auth"
    ELSE /\ \A end \in Closes(a, at) : end > hour
         /\ \/ Closes(a, at) # {}
            \/ hour - at <= KeptFor /\ (kind # "auth" \/ StillFresh(at))

\* _apply_cache_policy, over what the service remembers.
Policy(a, outcome, kept) ==
    IF outcome = "ok" THEN Result("rows", hour, FALSE, FALSE)
    ELSE IF kept[a] = Never \/ ~MayStandIn(a, kept[a], outcome)
    THEN Result(outcome, Never, FALSE, FALSE)
    ELSE Result("rows", kept[a], TRUE, kept[a] # Undated /\ ~StillFresh(kept[a]))

--------------------------------------------------------------------------------
(* A pass of fetch_all.                                                           *)

\* Each provider answers in a thread of its own, and the policy is applied there.
AskThemAll(s, kept, failures) ==
    \E outcome \in [Asked -> {"ok"} \cup failures] :
        /\ passes < MaxPasses /\ passes' = passes + 1
        /\ pass' = [pass EXCEPT ![s] = [a \in Asked |-> Policy(a, outcome[a], kept)]]

\* The tray's service is built once, before its first pass; the doctor's for every run,
\* which only prints what it was answered.
TrayAsks ==
    /\ pass["tray"] = NoPass
    /\ AskThemAll("tray", mind["tray"].of, {"transient", "auth"})
    /\ UNCHANGED <<hour, mind, files, given, apart, amiss>>
DoctorAsks ==
    /\ pass["doctor"] = NoPass
    /\ mind' = [mind EXCEPT !["doctor"] = files]
    /\ apart' = apart \ {"doctor"}
    /\ AskThemAll("doctor", Empty.of, {"transient"})
    /\ UNCHANGED <<hour, files, given, amiss>>

\* update_many: the pass's own answers, never the substitutes.
IsNew(result) == result.kind = "rows" /\ ~result.cached
Fresh(s) == {a \in Asked : IsNew(pass[s][a])}
Remembered(s) == [a \in Asked |-> IF a \in Fresh(s) THEN pass[s][a].at ELSE mind[s].of[a]]

\* TrendStore.record: a reading of every fresh limit row, the old ones dropped.
Recorded(s) ==
    [a \in Asked |-> {h \in mind[s].samples[a] \cup (IF a \in Fresh(s) THEN {hour} ELSE {}) :
                         hour - h <= SampleLife}]

PassOver(s) ==
    /\ pass[s] # NoPass /\ pass' = [pass EXCEPT ![s] = NoPass]
    /\ given' = [tray |-> [a \in Asked |-> IF s = "tray" /\ a \in Fresh(s) THEN hour ELSE given.tray[a]],
                 any |-> [a \in Asked |-> given.any[a] \cup (IF a \in Fresh(s) THEN {hour} ELSE {})]]
    /\ UNCHANGED <<hour, passes>>

Kept(s, memory) == mind' = [mind EXCEPT ![s] = IF s = "tray" THEN memory ELSE Empty]

\* Nothing new, nothing written.
EndIdle(s) ==
    /\ PassOver(s) /\ Fresh(s) = {} /\ Kept(s, mind[s])
    /\ UNCHANGED <<files, apart, amiss>>

\* Both files are this service's copies, whoever else has written them meanwhile.
UpToDate == \A a \in Asked : given'.any[a] # {} => files'.of[a] = Max(given'.any[a])
EndSaved(s) ==
    /\ PassOver(s) /\ Fresh(s) # {}
    /\ files' = [of |-> Remembered(s), samples |-> Recorded(s)]
    /\ Kept(s, files')
    /\ apart' = Services \ {s}
    /\ amiss' = IF UpToDate THEN {} ELSE amiss \cup (IF s \in apart THEN {"overwritten"} ELSE {})

\* The cache cannot be written: the pass fails, its answers remembered but not returned.
EndUnsaved(s) ==
    /\ PassOver(s) /\ Fresh(s) # {}
    /\ Kept(s, [mind[s] EXCEPT !.of = Remembered(s)])
    /\ amiss' = amiss \cup {"failed"}
    /\ UNCHANGED <<files, apart>>

\* A pass is shorter than an hour.
HourPasses ==
    /\ hour < LastHour /\ hour' = hour + 1
    /\ \A s \in Services : pass[s] = NoPass
    /\ UNCHANGED <<mind, files, pass, passes, given, apart, amiss>>

\* The tray ends, in the middle of a pass or not, and is started again.
TrayRestarts ==
    /\ pass' = [pass EXCEPT !["tray"] = NoPass]
    /\ mind' = [mind EXCEPT !["tray"] = files]
    /\ given' = [given EXCEPT !.tray = Empty.of]
    /\ apart' = apart \ {"tray"}
    /\ UNCHANGED <<hour, files, passes, amiss>>

Next == \/ TrayAsks \/ DoctorAsks \/ HourPasses \/ TrayRestarts
        \/ \E s \in Services : EndIdle(s) \/ EndSaved(s) \/ EndUnsaved(s)
Spec == Init /\ [][Next]_usageVars

--------------------------------------------------------------------------------
TypeOK ==
    /\ hour \in 1..LastHour /\ apart \subseteq Services /\ amiss \subseteq {"failed", "overwritten"}
    /\ \A k \in {files, mind["tray"], mind["doctor"]} :
          k.of \in [Asked -> Never..LastHour] /\ k.samples \in [Asked -> SUBSET (1..LastHour)]

\* Rows that stand in for an answer are the newest the provider ever gave this tray, its
\* windows all open when they were shown; a failure is only shown in their place when
\* they have nothing left to say; and no forecast rests on a reading taken in an outage.
StandInsAreTheLatest ==
    \A a \in DOMAIN pass["tray"] :
        LET result == pass["tray"][a]
            newest == given.tray[a]
        IN  /\ result.cached => \A w \in Windows[a] : result.at = Undated \/ result.at \div w = hour \div w
            /\ result.cached /\ newest # Never => result.at = newest
            /\ result.kind = "transient" /\ newest # Never =>
                  IF Windows[a] = {} THEN hour - newest > KeptFor
                  ELSE \E w \in Windows[a] : newest \div w # hour \div w
ReadingsAreAnswers ==
    \A a \in Asked, k \in {files, mind["tray"]} : k.samples[a] \subseteq given.any[a]

\* And a restart loses none of it, as long as the file could be written and no other
\* service had written it in between.
RestartKeepsTheAnswers ==
    amiss = {} => \A a \in Asked : given.any[a] # {} => files.of[a] = Max(given.any[a])
================================================================================
