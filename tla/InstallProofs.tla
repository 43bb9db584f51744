------------------------------ MODULE InstallProofs -----------------------------
(* Theorems about the installation (Install): each part that is proved about has an  *)
(* inductive invariant of its own, kept while that part is the one that is followed. *)
EXTENDS Install, DataLemmas, TLAPS

--------------------------------------------------------------------------------
(* Which instance runs.                                                            *)

Places == {"unborn", "loaded", "serving", "quitting", "releasing", "gone"}
Phases == {"idle", "asked", "probe", "quit", "wait", "term", "grace", "kill", "launch",
           "check", "checking", "end"}
Listening(p) == procs[p].at \in {"serving", "quitting"}

RunTypes ==
    /\ procs \in [Pids -> [at : Places, config : Nat, by : {"user", "unit"}]]
    /\ port \in Pids \cup {Running!Nobody, Running!Check}
    /\ wizard \in [phase : Phases, found : Pids \cup {Running!Nobody},
                   launched : Pids \cup {Running!Nobody}, spared : Pids \cup {Running!Nobody}]
    /\ stored \in Nat /\ excuse \in BOOLEAN /\ due \in BOOLEAN

\* Who listens has the port, and the live check only while it runs.
OneListener ==
    /\ \A p \in Pids : Listening(p) <=> port = p
    /\ port = Running!Check => wizard.phase = "checking"

\* The wizard ends whom it found, and nobody else is left with the old settings but who
\* was starting when they were saved.
OldIsFound ==
    wizard.phase \notin {"idle", "asked"} =>
        \A p \in Pids \ early :
            procs[p].at \in {"loaded", "serving", "quitting"} /\ procs[p].config # stored =>
                /\ procs[p].at # "loaded"
                /\ \/ wizard.phase = "probe" \/ p = wizard.spared
                   \/ p = wizard.found /\ wizard.phase \in {"quit", "wait", "term", "grace", "kill"}

\* A tray is launched after the one that was found is gone or spared, and once at most;
\* nobody is spared before.
FoundIsGone ==
    /\ wizard.phase \in {"quit", "wait", "term", "grace", "kill", "launch"} => wizard.found \in Pids
    /\ wizard.phase = "launch" \/ wizard.launched # Running!Nobody =>
          /\ wizard.found \in Pids
          /\ procs[wizard.found].at = "gone" \/ wizard.spared = wizard.found
    /\ wizard.phase \in {"idle", "asked", "probe", "quit", "wait", "term", "grace", "kill"} =>
          wizard.spared = Running!Nobody
    /\ wizard.launched # Running!Nobody => wizard.phase \in {"check", "checking", "end"}

\* The tray that was launched is still starting, or it or another one serves.
OneIsThere ==
    wizard.launched # Running!Nobody /\ ~excuse =>
        procs[wizard.launched].at = "loaded" \/ \E p \in Pids : procs[p].at = "serving"

RunInv == RunTypes /\ OneListener /\ OldIsFound /\ FoundIsGone /\ OneIsThere

LEMMA PidsAreNotNobody ==
    ASSUME Running!InstanceAssumption
    PROVE  /\ Running!Nobody \notin Pids /\ Running!Check \notin Pids
           /\ Running!Nobody # Running!Check
BY DEF Running!InstanceAssumption, Running!Nobody, Running!Check

LEMMA RunBegins == ASSUME Running!InstanceAssumption, Running!Init PROVE RunInv
<1>1. RunTypes
  BY DEF Running!Init, RunTypes, Running!Unborn, Running!Idle, Places, Phases
<1>2. \A p \in Pids : procs[p].at = "unborn" /\ port # p
  BY PidsAreNotNobody DEF Running!Init, Running!Unborn
<1>3. QED
  BY <1>1, <1>2, PidsAreNotNobody
     DEF Running!Init, Running!Idle, RunInv, OneListener, OldIsFound, FoundIsGone, OneIsThere, Listening

\* What any step may do to a process: nobody comes back, and who is new has read what is
\* stored; only who was starting comes to serve, and only who served is quitting.
Tame ==
    \A p \in Pids :
        /\ procs[p].at = "gone" => procs'[p].at = "gone"
        /\ procs'[p].at = "loaded" =>
              procs'[p] = procs[p] \/ (procs[p].at = "unborn" /\ procs'[p].config = stored)
        /\ procs'[p].at = "serving" =>
              procs[p].at \in {"loaded", "serving"} /\ procs'[p].config = procs[p].config
        /\ procs'[p].at = "quitting" =>
              procs[p].at \in {"serving", "quitting"} /\ procs'[p].config = procs[p].config

\* The old ones are no more than they were.
LEMMA OldStay ==
    ASSUME RunInv, Tame, UNCHANGED <<stored, early>>, wizard.phase \notin {"idle", "asked"},
           NEW p \in Pids \ early, procs'[p].at \in {"loaded", "serving", "quitting"},
           procs'[p].config # stored
    PROVE  /\ procs'[p].at # "loaded" /\ procs[p].at \in {"serving", "quitting"}
           /\ \/ wizard.phase = "probe" \/ p = wizard.spared
              \/ p = wizard.found /\ wizard.phase \in {"quit", "wait", "term", "grace", "kill"}
BY DEF RunInv, OldIsFound, Tame

LEMMA WizardStays ==
    ASSUME RunInv, Tame, UNCHANGED <<wizard, stored, early>>, RunTypes', OneListener', OneIsThere'
    PROVE  RunInv'
<1>1. OldIsFound'
  <2> SUFFICES ASSUME wizard.phase \notin {"idle", "asked"}, NEW p \in Pids \ early,
                      procs'[p].at \in {"loaded", "serving", "quitting"}, procs'[p].config # stored
               PROVE  /\ procs'[p].at # "loaded"
                      /\ \/ wizard.phase = "probe" \/ p = wizard.spared
                         \/ /\ p = wizard.found
                            /\ wizard.phase \in {"quit", "wait", "term", "grace", "kill"}
    BY DEF OldIsFound
  <2>1. QED
    BY OldStay
<1>2. FoundIsGone'
  BY DEF RunInv, FoundIsGone, Tame
<1>3. QED
  BY <1>1, <1>2 DEF RunInv

--------------------------------------------------------------------------------
(* Everybody but the wizard.                                                       *)

LEMMA NewIsLoaded ==
    ASSUME RunInv, NEW p \in Pids, NEW by \in {"user", "unit"}, Running!NextPid(p),
           procs' = Running!Started(p, by)
    PROVE  /\ Tame /\ procs' \in [Pids -> [at : Places, config : Nat, by : {"user", "unit"}]]
           /\ \A q \in Pids : q # p => procs'[q] = procs[q]
           /\ procs[p].at = "unborn" /\ procs'[p].at = "loaded"
BY DEF RunInv, RunTypes, Running!NextPid, Running!Started, Running!New, Tame, Places

LEMMA ProcessKeeps == ASSUME Running!InstanceAssumption, RunInv, Running!ProcessStep PROVE RunInv'
<1>1. PICK p \in Pids : Running!Binds(p) \/ Running!Defers(p) \/ Running!Releases(p) \/ Running!Exits(p)
  BY DEF Running!ProcessStep
<1>2. UNCHANGED <<wizard, stored, early, due>>
  BY DEF Running!ProcessStep
<1>3. CASE Running!Binds(p)
  <2>1. /\ procs[p].at = "loaded" /\ port = Running!Nobody /\ port' = p /\ excuse' = excuse
        /\ procs' = [procs EXCEPT ![p].at = "serving"]
    BY <1>3 DEF Running!Binds
  <2>2. /\ procs'[p].at = "serving" /\ procs'[p].config = procs[p].config
        /\ \A q \in Pids : q # p => procs'[q] = procs[q]
        /\ RunTypes'
    BY <1>2, <2>1 DEF RunInv, RunTypes, Places
  <2>3. Tame
    BY <2>1, <2>2 DEF Tame
  <2>4. OneListener'
    BY <1>2, <2>1, <2>2, PidsAreNotNobody DEF RunInv, OneListener, Listening
  <2>5. OneIsThere'
    BY <1>2, <2>2 DEF OneIsThere
  <2>6. QED
    BY <1>2, <2>2, <2>3, <2>4, <2>5, WizardStays
<1>4. CASE Running!Defers(p)
  <2>1. /\ procs[p].at = "loaded" /\ port # Running!Nobody /\ port' = port
        /\ procs' = [procs EXCEPT ![p].at = "gone"]
        /\ excuse' = (excuse \/ port = Running!Check
                      \/ (port \in Pids /\ procs[port].at = "quitting"))
    BY <1>4 DEF Running!Defers
  <2>2. /\ procs'[p].at = "gone"
        /\ \A q \in Pids : q # p => procs'[q] = procs[q]
    BY <1>2, <2>1 DEF RunInv, RunTypes, Places
  <2>3. RunTypes'
    BY <1>2, <2>1 DEF RunInv, RunTypes, Places
  <2>4. Tame
    BY <2>1, <2>2 DEF Tame
  <2>5. OneListener'
    BY <1>2, <2>1, <2>2 DEF RunInv, OneListener, Listening
  <2>6. OneIsThere'
    <3> SUFFICES ASSUME wizard.launched # Running!Nobody, ~excuse'
                 PROVE  \/ procs'[wizard.launched].at = "loaded"
                        \/ \E q \in Pids : procs'[q].at = "serving"
      BY <1>2 DEF OneIsThere
    <3>1. ~excuse /\ port \in Pids /\ procs[port].at # "quitting"
      BY <2>1 DEF RunInv, RunTypes
    <3>2. procs[port].at = "serving" /\ port # p
      BY <2>1, <3>1 DEF RunInv, OneListener, Listening
    <3>3. QED
      BY <2>2, <3>1, <3>2
  <2>7. QED
    BY <1>2, <2>3, <2>4, <2>5, <2>6, WizardStays
<1>5. CASE Running!Releases(p)
  <2>1. /\ procs[p].at = "quitting" /\ port' = Running!Nobody /\ excuse' = excuse
        /\ procs' = [procs EXCEPT ![p].at = "releasing"]
    BY <1>5 DEF Running!Releases
  <2>2. /\ procs'[p].at = "releasing"
        /\ \A q \in Pids : q # p => procs'[q] = procs[q]
        /\ RunTypes'
    BY <1>2, <2>1 DEF RunInv, RunTypes, Places
  <2>3. Tame
    BY <2>1, <2>2 DEF Tame
  <2>4. OneListener'
    BY <1>2, <2>1, <2>2, PidsAreNotNobody DEF RunInv, OneListener, Listening
  <2>5. OneIsThere'
    BY <1>2, <2>1, <2>2 DEF RunInv, OneIsThere, FoundIsGone
  <2>6. QED
    BY <1>2, <2>2, <2>3, <2>4, <2>5, WizardStays
<1>6. CASE Running!Exits(p)
  <2>1. /\ procs[p].at = "releasing" /\ UNCHANGED <<port, excuse>>
        /\ procs' = [procs EXCEPT ![p].at = "gone"]
    BY <1>6 DEF Running!Exits
  <2>2. /\ procs'[p].at = "gone"
        /\ \A q \in Pids : q # p => procs'[q] = procs[q]
        /\ RunTypes'
    BY <1>2, <2>1 DEF RunInv, RunTypes, Places
  <2>3. Tame
    BY <2>1, <2>2 DEF Tame
  <2>4. OneListener'
    BY <1>2, <2>1, <2>2, PidsAreNotNobody DEF RunInv, OneListener, Listening
  <2>5. OneIsThere'
    BY <1>2, <2>1, <2>2 DEF RunInv, OneIsThere, FoundIsGone
  <2>6. QED
    BY <1>2, <2>2, <2>3, <2>4, <2>5, WizardStays
<1>7. QED
  BY <1>1, <1>3, <1>4, <1>5, <1>6

\* A new process changes nothing but itself.
LEMMA StartKeeps ==
    ASSUME RunInv, NEW p \in Pids, NEW by \in {"user", "unit"}, Running!NextPid(p),
           procs' = Running!Started(p, by), UNCHANGED <<wizard, stored, early, port, excuse>>,
           due' \in BOOLEAN
    PROVE  RunInv'
<1>1. /\ Tame /\ procs' \in [Pids -> [at : Places, config : Nat, by : {"user", "unit"}]]
      /\ \A q \in Pids : q # p => procs'[q] = procs[q]
      /\ procs[p].at = "unborn" /\ procs'[p].at = "loaded"
  BY NewIsLoaded
<1>2. RunTypes'
  BY <1>1 DEF RunInv, RunTypes
<1>3. OneListener'
  <2>1. \A q \in Pids : Listening(q)' <=> Listening(q)
    BY <1>1 DEF Listening
  <2>2. QED
    BY <2>1 DEF RunInv, OneListener
<1>4. OneIsThere'
  <2>1. \A q \in Pids : procs[q].at \in {"loaded", "serving"} => procs'[q].at = procs[q].at
    BY <1>1
  <2>2. wizard.launched # Running!Nobody => wizard.launched \in Pids
    BY DEF RunInv, RunTypes
  <2>3. QED
    BY <2>1, <2>2 DEF RunInv, OneIsThere
<1>5. QED
  BY <1>1, <1>2, <1>3, <1>4, WizardStays

\* Dying frees the port that was its own.
LEMMA DyingListens ==
    ASSUME Running!InstanceAssumption, RunInv, NEW p \in Pids, NEW failing \in BOOLEAN,
           Running!Dies(p, failing), port = Running!Check => wizard'.phase = "checking"
    PROVE  /\ Tame /\ OneListener' /\ due' \in BOOLEAN
           /\ procs' \in [Pids -> [at : Places, config : Nat, by : {"user", "unit"}]]
           /\ port' \in Pids \cup {Running!Nobody, Running!Check}
           /\ procs'[p].at = "gone" /\ \A q \in Pids : q # p => procs'[q] = procs[q]
<1>1. /\ procs' = [procs EXCEPT ![p].at = "gone"]
      /\ port' = IF port = p THEN Running!Nobody ELSE port
      /\ due' = (due \/ (failing /\ procs[p].by = "unit"))
  BY DEF Running!Dies
<1>2. /\ procs'[p].at = "gone" /\ \A q \in Pids : q # p => procs'[q] = procs[q]
      /\ procs' \in [Pids -> [at : Places, config : Nat, by : {"user", "unit"}]]
      /\ port' \in Pids \cup {Running!Nobody, Running!Check}
  BY <1>1 DEF RunInv, RunTypes, Places
<1>3. Tame
  BY <1>2 DEF Tame
<1>4. OneListener'
  BY <1>1, <1>2, PidsAreNotNobody DEF RunInv, OneListener, Listening
<1>5. due' \in BOOLEAN
  BY <1>1
<1>6. QED
  BY <1>2, <1>3, <1>4, <1>5

LEMMA OthersKeep ==
    ASSUME Running!InstanceAssumption, RunInv,
           \/ Running!UnitRestarts \/ Running!UserLaunches \/ Running!UserQuits \/ Running!Crashes
    PROVE  RunInv'
<1>1. CASE Running!UnitRestarts
  BY <1>1, StartKeeps DEF Running!UnitRestarts, RunInv, RunTypes
<1>2. CASE Running!UserLaunches
  BY <1>2, StartKeeps DEF Running!UserLaunches, Running!Event, RunInv, RunTypes
<1>3. CASE Running!UserQuits
  <2>1. PICK p \in Pids : procs[p].at = "serving" /\ procs' = [procs EXCEPT ![p].at = "quitting"]
    BY <1>3 DEF Running!UserQuits
  <2>2. excuse' = TRUE /\ UNCHANGED <<port, due, stored, wizard, early>>
    BY <1>3 DEF Running!UserQuits, Running!Event
  <2>3. /\ procs'[p].at = "quitting" /\ procs'[p].config = procs[p].config
        /\ \A q \in Pids : q # p => procs'[q] = procs[q]
        /\ RunTypes'
    BY <2>1, <2>2 DEF RunInv, RunTypes, Places
  <2>4. Tame
    BY <2>1, <2>3 DEF Tame
  <2>5. OneListener' /\ OneIsThere'
    BY <2>1, <2>2, <2>3 DEF RunInv, OneListener, Listening, OneIsThere
  <2>6. QED
    BY <2>2, <2>3, <2>4, <2>5, WizardStays
<1>4. CASE Running!Crashes
  <2>1. PICK p \in Pids : procs[p].at \notin {"unborn", "gone"} /\ Running!Dies(p, TRUE)
    BY <1>4 DEF Running!Crashes, Running!Live
  <2>2. excuse' = TRUE /\ UNCHANGED <<stored, wizard, early>>
    BY <1>4 DEF Running!Crashes, Running!Event
  <2>3. /\ Tame /\ OneListener' /\ due' \in BOOLEAN
        /\ procs' \in [Pids -> [at : Places, config : Nat, by : {"user", "unit"}]]
        /\ port' \in Pids \cup {Running!Nobody, Running!Check}
    BY <2>1, <2>2, DyingListens DEF RunInv, OneListener
  <2>4. RunTypes' /\ OneIsThere'
    BY <2>2, <2>3 DEF RunInv, RunTypes, OneIsThere
  <2>5. QED
    BY <2>2, <2>3, <2>4, WizardStays
<1>5. QED
  BY <1>1, <1>2, <1>3, <1>4

--------------------------------------------------------------------------------
(* Autostart, and logging in.                                                      *)

\* systemctl stop and launchctl unload, with or without a new unit after it.
LEMMA StoppedIsTame ==
    ASSUME RunInv, NEW p \in Pids, UNCHANGED port, wizard'.phase # "checking" => port # Running!Check,
           \/ procs' = Running!Stopped
           \/ Running!NextPid(p) /\ procs' = [Running!Stopped EXCEPT ![p] = Running!New("unit")]
    PROVE  /\ Tame /\ OneListener'
           /\ procs' \in [Pids -> [at : Places, config : Nat, by : {"user", "unit"}]]
<1> DEFINE stop == Running!Stopped
<1>1. /\ stop \in [Pids -> [at : Places, config : Nat, by : {"user", "unit"}]]
      /\ \A q \in Pids : \/ stop[q] = procs[q]
                         \/ procs[q].at = "loaded" /\ stop[q].at = "gone"
                         \/ /\ procs[q].at \in {"serving", "quitting"} /\ stop[q].at = "quitting"
                            /\ stop[q].config = procs[q].config
  <2>1. \A q \in Pids : \/ stop[q] = procs[q]
                        \/ /\ procs[q].at \notin {"unborn", "gone", "releasing"}
                           /\ stop[q] = [procs[q] EXCEPT !.at = IF procs[q].at = "loaded"
                                                                THEN "gone" ELSE "quitting"]
    BY DEF Running!Stopped, Running!Units, Running!Live
  <2>2. \A q \in Pids : procs[q] \in [at : Places, config : Nat, by : {"user", "unit"}]
    BY DEF RunInv, RunTypes
  <2>3. \A q \in Pids : /\ stop[q] \in [at : Places, config : Nat, by : {"user", "unit"}]
                        /\ \/ stop[q] = procs[q]
                           \/ procs[q].at = "loaded" /\ stop[q].at = "gone"
                           \/ /\ procs[q].at \in {"serving", "quitting"} /\ stop[q].at = "quitting"
                              /\ stop[q].config = procs[q].config
    <3> SUFFICES ASSUME NEW q \in Pids
                 PROVE  /\ stop[q] \in [at : Places, config : Nat, by : {"user", "unit"}]
                        /\ \/ stop[q] = procs[q]
                           \/ procs[q].at = "loaded" /\ stop[q].at = "gone"
                           \/ /\ procs[q].at \in {"serving", "quitting"} /\ stop[q].at = "quitting"
                              /\ stop[q].config = procs[q].config
      OBVIOUS
    <3>1. CASE stop[q] = procs[q]
      BY <2>2, <3>1
    <3>2. CASE /\ procs[q].at \notin {"unborn", "gone", "releasing"}
               /\ stop[q] = [procs[q] EXCEPT !.at = IF procs[q].at = "loaded" THEN "gone" ELSE "quitting"]
      <4> HIDE DEF stop
      <4>1. CASE procs[q].at = "loaded"
        BY <2>2, <3>2, <4>1 DEF Places
      <4>2. CASE procs[q].at # "loaded"
        BY <2>2, <3>2, <4>2 DEF Places
      <4>3. QED
        BY <4>1, <4>2
    <3>3. QED
      BY <2>1, <3>1, <3>2
  <2>4. stop = [q \in Pids |-> stop[q]]
    BY DEF Running!Stopped
  <2> HIDE DEF stop
  <2>5. QED
    BY <2>3, <2>4
<1> HIDE DEF stop
<1>2. \A q \in Pids : \/ procs'[q] = stop[q]
                      \/ q = p /\ procs[p].at = "unborn" /\ procs'[p] = Running!New("unit")
  BY <1>1 DEF Running!NextPid, stop
<1>3. procs' \in [Pids -> [at : Places, config : Nat, by : {"user", "unit"}]]
  BY <1>1 DEF Running!New, RunInv, RunTypes, Places, stop
<1>4. Tame
  <2> SUFFICES ASSUME NEW q \in Pids
               PROVE  /\ procs[q].at = "gone" => procs'[q].at = "gone"
                      /\ procs'[q].at = "loaded" =>
                            \/ procs'[q] = procs[q]
                            \/ procs[q].at = "unborn" /\ procs'[q].config = stored
                      /\ procs'[q].at = "serving" =>
                            procs[q].at \in {"loaded", "serving"} /\ procs'[q].config = procs[q].config
                      /\ procs'[q].at = "quitting" =>
                            procs[q].at \in {"serving", "quitting"} /\ procs'[q].config = procs[q].config
    BY DEF Tame
  <2>1. CASE procs'[q] = stop[q]
    BY <1>1, <2>1
  <2>2. CASE procs[q].at = "unborn" /\ procs'[q] = Running!New("unit")
    BY <2>2 DEF Running!New
  <2>3. QED
    BY <1>2, <2>1, <2>2
<1>5. OneListener'
  <2>1. \A q \in Pids : Listening(q)' <=> Listening(q)
    BY <1>1, <1>2 DEF Listening, Running!New
  <2>2. QED
    BY <2>1 DEF RunInv, OneListener
<1>6. QED
  BY <1>3, <1>4, <1>5

LEMMA AutostartKeeps == ASSUME Running!InstanceAssumption, RunInv, Running!Autostart PROVE RunInv'
<1>1. /\ wizard.phase = "idle" /\ wizard' = [Running!Idle EXCEPT !.phase = "asked"]
      /\ UNCHANGED <<platform, port, stored, due, others, early, excuse>>
  BY DEF Running!Autostart
<1>2. /\ wizard'.phase = "asked" /\ wizard'.launched = Running!Nobody /\ port # Running!Check
      /\ wizard'.spared = Running!Nobody
      /\ wizard' \in [phase : Phases, found : Pids \cup {Running!Nobody},
                      launched : Pids \cup {Running!Nobody}, spared : Pids \cup {Running!Nobody}]
  BY <1>1 DEF Running!Idle, Phases, RunInv, OneListener
<1>3. /\ OneListener'
      /\ procs' \in [Pids -> [at : Places, config : Nat, by : {"user", "unit"}]]
  <2>1. CASE procs' = procs
    BY <1>1, <1>2, <2>1 DEF RunInv, RunTypes, OneListener, Listening
  <2>2. ASSUME NEW p \in Pids, Running!NextPid(p), procs' = Running!Started(p, "unit")
        PROVE  OneListener' /\ procs' \in [Pids -> [at : Places, config : Nat, by : {"user", "unit"}]]
    <3>1. /\ procs' \in [Pids -> [at : Places, config : Nat, by : {"user", "unit"}]]
          /\ \A q \in Pids : q # p => procs'[q] = procs[q]
          /\ procs[p].at = "unborn" /\ procs'[p].at = "loaded"
      BY <2>2, NewIsLoaded
    <3>2. \A q \in Pids : Listening(q)' <=> Listening(q)
      BY <3>1 DEF Listening
    <3>3. QED
      BY <1>1, <1>2, <3>1, <3>2 DEF RunInv, OneListener
  <2>3. ASSUME procs' = Running!Stopped
        PROVE  OneListener' /\ procs' \in [Pids -> [at : Places, config : Nat, by : {"user", "unit"}]]
    <3>1. CASE Pids = {}
      <4>1. procs' = procs
        BY <2>3, <3>1 DEF Running!Stopped, RunInv, RunTypes
      <4>2. QED
        BY <2>1, <4>1
    <3>2. CASE Pids # {}
      BY <1>1, <1>2, <2>3, <3>2, StoppedIsTame
    <3>3. QED
      BY <3>1, <3>2
  <2>4. ASSUME NEW p \in Pids, Running!NextPid(p),
               procs' = [Running!Stopped EXCEPT ![p] = Running!New("unit")]
        PROVE  OneListener' /\ procs' \in [Pids -> [at : Places, config : Nat, by : {"user", "unit"}]]
    BY <1>1, <1>2, <2>4, StoppedIsTame
  <2>5. \/ procs' = procs \/ procs' = Running!Stopped
        \/ \E p \in Pids : Running!NextPid(p) /\ procs' = Running!Started(p, "unit")
        \/ \E p \in Pids : /\ Running!NextPid(p)
                           /\ procs' = [Running!Stopped EXCEPT ![p] = Running!New("unit")]
    BY DEF Running!Autostart, Running!Enable, Running!Disable
  <2>6. QED
    BY <2>1, <2>2, <2>3, <2>4, <2>5
<1>4. RunTypes'
  BY <1>1, <1>2, <1>3 DEF RunInv, RunTypes
<1>5. OldIsFound' /\ FoundIsGone' /\ OneIsThere'
  BY <1>2 DEF OldIsFound, FoundIsGone, OneIsThere
<1>6. QED
  BY <1>3, <1>4, <1>5 DEF RunInv

\* A new session: whoever ran is gone, whoever starts has read what is stored.
LEMMA LogsInKeeps == ASSUME Running!InstanceAssumption, RunInv, Running!LogsIn PROVE RunInv'
<1>1. /\ port' = Running!Nobody /\ due' = FALSE /\ excuse' = TRUE
      /\ UNCHANGED <<stored, wizard, early>>
  BY DEF Running!LogsIn, Running!Event
<1>2. PICK new, starts :
         /\ new \subseteq {p \in Pids : procs[p].at = "unborn"}
         /\ starts \in [new -> {"user", "unit"}]
         /\ procs' = [p \in Pids |->
            IF p \in new THEN Running!New(starts[p])
            ELSE IF p \in Running!Live THEN [procs[p] EXCEPT !.at = "gone"] ELSE procs[p]]
  <2> DEFINE new == Running!Newcomers
  <2>1. PICK starts \in [new -> Running!Registered] : procs' = Running!Session(starts)
    BY DEF Running!LogsIn
  <2>2. new \subseteq {p \in Pids : procs[p].at = "unborn"}
    BY DEF Running!Newcomers
  <2>3. Running!Registered \subseteq {"user", "unit"}
    BY DEF Running!Registered
  <2> HIDE DEF new
  <2>4. starts \in [new -> {"user", "unit"}] /\ DOMAIN starts = new
    BY <2>1, <2>3
  <2>5. procs' = [p \in Pids |->
            IF p \in new THEN Running!New(starts[p])
            ELSE IF p \in Running!Live THEN [procs[p] EXCEPT !.at = "gone"] ELSE procs[p]]
    BY <2>1, <2>4 DEF Running!Session
  <2>6. QED
    BY <2>2, <2>4, <2>5
<1>3. \A p \in Pids : /\ p \in new => procs[p].at = "unborn" /\ procs'[p] = Running!New(starts[p])
                      /\ p \notin new => \/ procs'[p] = [procs[p] EXCEPT !.at = "gone"]
                                         \/ /\ procs[p].at \in {"unborn", "gone"}
                                            /\ procs'[p] = procs[p]
  BY <1>2 DEF Running!Live
<1>4. \A p \in Pids : /\ procs'[p] \in [at : Places, config : Nat, by : {"user", "unit"}]
                      /\ procs[p].at = "gone" => procs'[p].at = "gone"
                      /\ \/ procs'[p].at \in {"unborn", "gone"}
                         \/ /\ procs[p].at = "unborn" /\ procs'[p].at = "loaded"
                            /\ procs'[p].config = stored
  <2> SUFFICES ASSUME NEW p \in Pids
               PROVE  /\ procs'[p] \in [at : Places, config : Nat, by : {"user", "unit"}]
                      /\ procs[p].at = "gone" => procs'[p].at = "gone"
                      /\ \/ procs'[p].at \in {"unborn", "gone"}
                         \/ /\ procs[p].at = "unborn" /\ procs'[p].at = "loaded"
                            /\ procs'[p].config = stored
    OBVIOUS
  <2>1. procs[p] \in [at : Places, config : Nat, by : {"user", "unit"}] /\ stored \in Nat
    BY DEF RunInv, RunTypes
  <2>2. CASE p \in new
    <3>1. starts[p] \in {"user", "unit"}
      BY <1>2, <2>2
    <3>2. procs[p].at = "unborn" /\ procs'[p] = [at |-> "loaded", config |-> stored, by |-> starts[p]]
      BY <1>3, <2>2 DEF Running!New
    <3>3. QED
      BY <2>1, <3>1, <3>2 DEF Places
  <2>3. CASE p \notin new
    BY <1>3, <2>1, <2>3 DEF Places
  <2>4. QED
    BY <2>2, <2>3
<1>5. Tame
  <2> SUFFICES ASSUME NEW q \in Pids
               PROVE  /\ procs[q].at = "gone" => procs'[q].at = "gone"
                      /\ procs'[q].at = "loaded" =>
                            \/ procs'[q] = procs[q]
                            \/ procs[q].at = "unborn" /\ procs'[q].config = stored
                      /\ procs'[q].at # "serving" /\ procs'[q].at # "quitting"
    BY DEF Tame
  <2>1. QED
    BY <1>4
<1>6. RunTypes'
  <2>1. procs' = [p \in Pids |-> procs'[p]]
    BY <1>2
  <2>2. procs' \in [Pids -> [at : Places, config : Nat, by : {"user", "unit"}]]
    BY <1>4, <2>1
  <2>3. QED
    BY <1>1, <2>2 DEF RunInv, RunTypes
<1>7. OneListener' /\ OneIsThere'
  BY <1>1, <1>4, PidsAreNotNobody DEF OneListener, Listening, OneIsThere
<1>8. QED
  BY <1>1, <1>5, <1>6, <1>7, WizardStays


--------------------------------------------------------------------------------
(* The wizard.                                                                     *)

\* Saving makes everybody's settings old, but those of who was starting are set apart.
LEMMA SaveKeeps == ASSUME Running!InstanceAssumption, RunInv, Running!Save PROVE RunInv'
<1>1. /\ wizard.phase = "asked" /\ wizard' = [wizard EXCEPT !.phase = "probe"]
      /\ stored' = stored + 1 /\ early' = {p \in Pids : procs[p].at = "loaded"}
      /\ UNCHANGED <<platform, entry, procs, port, due, others, excuse>>
  BY DEF Running!Save
<1>2. /\ wizard'.phase = "probe" /\ wizard'.found = wizard.found
      /\ wizard.launched = Running!Nobody /\ wizard'.launched = wizard.launched
      /\ wizard.spared = Running!Nobody /\ wizard'.spared = wizard.spared
  BY <1>1 DEF RunInv, RunTypes, FoundIsGone
<1>3. RunTypes'
  BY <1>1 DEF RunInv, RunTypes, Phases
<1>4. OneListener'
  BY <1>1, <1>2 DEF RunInv, OneListener, Listening
<1>5. OldIsFound'
  BY <1>1, <1>2 DEF OldIsFound
<1>6. FoundIsGone' /\ OneIsThere'
  BY <1>2 DEF FoundIsGone, OneIsThere
<1>7. QED
  BY <1>3, <1>4, <1>5, <1>6 DEF RunInv

Ending == {"quit", "wait", "term", "grace", "kill"}

\* A step of the restart loses sight of nobody.
LEMMA OldIsFoundStill ==
    ASSUME RunInv, Tame, UNCHANGED <<stored, early>>, wizard.phase \notin {"idle", "asked"},
           \A p \in Pids :
              /\ procs[p].at \in {"serving", "quitting"} /\ procs'[p].at \in {"serving", "quitting"}
              /\ \/ wizard.phase = "probe" \/ p = wizard.spared
                 \/ p = wizard.found /\ wizard.phase \in Ending
              => p = wizard'.spared \/ (p = wizard'.found /\ wizard'.phase \in Ending)
    PROVE  OldIsFound'
<1> SUFFICES ASSUME NEW p \in Pids \ early,
                    procs'[p].at \in {"loaded", "serving", "quitting"}, procs'[p].config # stored
             PROVE  /\ procs'[p].at # "loaded"
                    /\ p = wizard'.spared \/ (p = wizard'.found /\ wizard'.phase \in Ending)
  BY DEF OldIsFound, Ending
<1>1. /\ procs'[p].at # "loaded" /\ procs[p].at \in {"serving", "quitting"}
      /\ \/ wizard.phase = "probe" \/ p = wizard.spared
         \/ p = wizard.found /\ wizard.phase \in Ending
  BY OldStay DEF Ending
<1>2. QED
  BY <1>1

LEMMA ProbeKeeps ==
    ASSUME Running!InstanceAssumption, RunInv, Running!Probe, UNCHANGED <<stored, early>>
    PROVE  RunInv'
<1>1. /\ wizard.phase = "probe" /\ UNCHANGED <<procs, port, due, excuse, stored, early>>
      /\ \/ Running!Answers(port) /\ wizard' = [wizard EXCEPT !.phase = "quit", !.found = port]
         \/ Running!Answers(port) /\ wizard' = [wizard EXCEPT !.phase = "check", !.spared = port]
         \/ ~Running!Answers(port) /\ wizard' = [wizard EXCEPT !.phase = "check"]
  BY DEF Running!Probe, Running!Spares, Running!Goes
<1>2. Tame
  BY <1>1 DEF Tame
<1>3. /\ wizard.launched = Running!Nobody /\ wizard.spared = Running!Nobody /\ port # Running!Check
      /\ wizard \in [phase : Phases, found : Pids \cup {Running!Nobody},
                     launched : Pids \cup {Running!Nobody}, spared : Pids \cup {Running!Nobody}]
      /\ Running!Answers(port) => port \in Pids
  BY <1>1 DEF RunInv, RunTypes, FoundIsGone, OneListener, Running!Answers
<1>4. /\ wizard' \in [phase : Phases, found : Pids \cup {Running!Nobody},
                      launched : Pids \cup {Running!Nobody}, spared : Pids \cup {Running!Nobody}]
      /\ wizard'.launched = Running!Nobody
      /\ \/ /\ Running!Answers(port) /\ wizard'.phase = "quit" /\ wizard'.found = port
            /\ wizard'.spared = Running!Nobody
         \/ Running!Answers(port) /\ wizard'.phase = "check" /\ wizard'.spared = port
         \/ ~Running!Answers(port) /\ wizard'.phase = "check"
  BY <1>1, <1>3 DEF Phases
<1>5. RunTypes'
  BY <1>1, <1>4 DEF RunInv, RunTypes
<1>6. OneListener'
  BY <1>1, <1>3 DEF RunInv, OneListener, Listening
<1>7. FoundIsGone' /\ OneIsThere'
  BY <1>3, <1>4 DEF FoundIsGone, OneIsThere
<1>8. OldIsFound'
  <2>1. \A p \in Pids : procs[p].at \in {"serving", "quitting"} =>
           port = p /\ Running!Answers(port)
    BY DEF RunInv, OneListener, Listening, Running!Answers
  <2>2. QED
    BY <1>1, <1>2, <1>4, <2>1, OldIsFoundStill DEF Ending
<1>9. QED
  BY <1>5, <1>6, <1>7, <1>8 DEF RunInv

\* The steps between the probe and the launch: the tray that was found is being ended.
LEMMA EndingKeeps ==
    ASSUME Running!InstanceAssumption, RunInv, UNCHANGED <<stored, early, excuse>>,
           wizard.phase \in Ending, Tame, OneListener', due' \in BOOLEAN,
           procs' \in [Pids -> [at : Places, config : Nat, by : {"user", "unit"}]],
           port' \in Pids \cup {Running!Nobody, Running!Check},
           \/ /\ wizard' = [wizard EXCEPT !.phase = wizard'.phase]
              /\ \/ wizard'.phase \in Ending
                 \/ wizard'.phase = "launch" /\ procs'[wizard.found].at = "gone"
           \/ /\ wizard' = [wizard EXCEPT !.phase = wizard'.phase, !.spared = wizard.found]
              /\ wizard'.phase \in {"check", "launch"}
    PROVE  RunInv'
<1>1. /\ wizard.launched = Running!Nobody /\ wizard.found \in Pids /\ wizard.spared = Running!Nobody
      /\ wizard'.found = wizard.found /\ wizard'.launched = wizard.launched
      /\ \/ /\ wizard'.spared = Running!Nobody
            /\ \/ wizard'.phase \in Ending
               \/ wizard'.phase = "launch" /\ procs'[wizard.found].at = "gone"
         \/ wizard'.spared = wizard.found /\ wizard'.phase \in {"check", "launch"}
  BY DEF RunInv, RunTypes, FoundIsGone, Ending
<1>2. RunTypes'
  <2>1. wizard'.phase \in Phases
    BY DEF Ending, Phases
  <2>2. QED
    BY <1>1, <2>1 DEF RunInv, RunTypes
<1>3. OldIsFound'
  BY <1>1, PidsAreNotNobody, OldIsFoundStill DEF Ending
<1>4. FoundIsGone' /\ OneIsThere'
  BY <1>1 DEF FoundIsGone, OneIsThere, Ending
<1>5. QED
  BY <1>2, <1>3, <1>4 DEF RunInv

LEMMA RestartKeeps == ASSUME Running!InstanceAssumption, RunInv, Running!Restart PROVE RunInv'
<1> UNCHANGED <<stored, early>>
  BY DEF Running!Restart
<1>1. CASE Running!Probe
  BY <1>1, ProbeKeeps
<1>2. ASSUME wizard.phase \in Ending
      PROVE  wizard.found \in Pids /\ port # Running!Check
  BY <1>2 DEF RunInv, FoundIsGone, OneListener, Ending
<1>3. ASSUME NEW now \in Ending, NEW next \in Ending, Running!WaitForExit(now, next) PROVE RunInv'
  <2>1. /\ wizard.phase = now /\ UNCHANGED <<procs, port, due, excuse>>
        /\ \/ wizard' = [wizard EXCEPT !.phase = IF procs[wizard.found].at = "gone" THEN "launch" ELSE next]
           \/ wizard' = [wizard EXCEPT !.phase = "launch", !.spared = wizard.found]
    BY <1>3 DEF Running!WaitForExit, Running!Goes, Running!Gone, Running!TakenForGone, Running!Spares
  <2>2. \/ /\ wizard'.phase = IF procs[wizard.found].at = "gone" THEN "launch" ELSE next
           /\ wizard' = [wizard EXCEPT !.phase = wizard'.phase]
        \/ /\ wizard'.phase = "launch"
           /\ wizard' = [wizard EXCEPT !.phase = wizard'.phase, !.spared = wizard.found]
    BY <2>1 DEF RunInv, RunTypes
  <2>3. Tame /\ OneListener'
    BY <1>2, <2>1, <2>2 DEF Tame, RunInv, OneListener, Listening
  <2>4. due' \in BOOLEAN /\ port' \in Pids \cup {Running!Nobody, Running!Check}
        /\ procs' \in [Pids -> [at : Places, config : Nat, by : {"user", "unit"}]]
    BY <2>1 DEF RunInv, RunTypes
  <2>5. QED
    BY <2>1, <2>2, <2>3, <2>4, EndingKeeps
<1>4. CASE Running!WaitForExit("wait", "term") \/ Running!WaitForExit("grace", "kill")
  BY <1>3, <1>4 DEF Ending
<1>5. CASE Running!RequestQuit
  <2>1. /\ wizard.phase = "quit" /\ UNCHANGED <<port, due, excuse>>
        /\ wizard.found \in Pids /\ port # Running!Check
    BY <1>2, <1>5 DEF Running!RequestQuit, Ending
  <2>2. CASE procs' = procs
    <3>1. /\ \/ procs[wizard.found].at = "gone" /\ wizard' = [wizard EXCEPT !.phase = "launch"]
             \/ wizard' = [wizard EXCEPT !.phase = "wait"]
             \/ wizard' = [wizard EXCEPT !.phase = "term"]
             \/ wizard' = [wizard EXCEPT !.phase = "launch", !.spared = wizard.found]
      BY <1>5 DEF Running!RequestQuit, Running!Goes, Running!Gone, Running!TakenForGone, Running!Spares
    <3>2. \/ /\ wizard' = [wizard EXCEPT !.phase = wizard'.phase]
             /\ \/ wizard'.phase \in Ending
                \/ wizard'.phase = "launch" /\ procs'[wizard.found].at = "gone"
          \/ /\ wizard' = [wizard EXCEPT !.phase = wizard'.phase, !.spared = wizard.found]
             /\ wizard'.phase \in {"check", "launch"}
      BY <2>2, <3>1 DEF RunInv, RunTypes, Ending
    <3>3. Tame /\ OneListener'
      BY <2>1, <2>2 DEF Tame, RunInv, OneListener, Listening
    <3>4. QED
      BY <2>1, <2>2, <3>2, <3>3, EndingKeeps DEF RunInv, RunTypes, Ending
  <2>3. CASE procs' # procs
    <3>1. /\ port \in Pids /\ procs[port].at \in {"serving", "quitting"}
          /\ \/ wizard' = [wizard EXCEPT !.phase = "wait"]
             \/ wizard' = [wizard EXCEPT !.phase = "term"]
          /\ procs' = [procs EXCEPT ![port].at = "quitting"]
      BY <1>5, <2>3 DEF Running!RequestQuit, Running!Goes, Running!Answers
    <3>2. /\ procs'[port].at = "quitting" /\ procs'[port].config = procs[port].config
          /\ \A q \in Pids : q # port => procs'[q] = procs[q]
          /\ procs' \in [Pids -> [at : Places, config : Nat, by : {"user", "unit"}]]
      BY <3>1 DEF RunInv, RunTypes, Places
    <3>3. Tame /\ OneListener'
      BY <2>1, <3>1, <3>2 DEF Tame, RunInv, OneListener, Listening
    <3>4. wizard' = [wizard EXCEPT !.phase = wizard'.phase] /\ wizard'.phase \in Ending
      BY <3>1 DEF RunInv, RunTypes, Ending
    <3>5. QED
      BY <2>1, <3>2, <3>3, <3>4, EndingKeeps DEF RunInv, RunTypes, Ending
  <2>4. QED
    BY <2>2, <2>3
<1>6. CASE Running!Term
  <2>1. wizard.phase = "term" /\ excuse' = excuse /\ wizard.found \in Pids /\ port # Running!Check
    BY <1>2, <1>6 DEF Running!Term, Ending
  <2>2. CASE procs' = procs /\ UNCHANGED <<port, due>>
    <3>1. \/ wizard' = [wizard EXCEPT !.phase = "check", !.spared = wizard.found]
          \/ procs[wizard.found].at = "gone" /\ wizard' = [wizard EXCEPT !.phase = "launch"]
          \/ wizard' = [wizard EXCEPT !.phase = "grace"]
      BY <1>6 DEF Running!Term, Running!Goes, Running!Gone, Running!Spares
    <3>2. \/ /\ wizard' = [wizard EXCEPT !.phase = wizard'.phase]
             /\ \/ wizard'.phase \in Ending
                \/ wizard'.phase = "launch" /\ procs'[wizard.found].at = "gone"
          \/ /\ wizard' = [wizard EXCEPT !.phase = wizard'.phase, !.spared = wizard.found]
             /\ wizard'.phase \in {"check", "launch"}
      BY <2>2, <3>1 DEF RunInv, RunTypes, Ending
    <3>3. Tame /\ OneListener'
      BY <2>1, <2>2 DEF Tame, RunInv, OneListener, Listening
    <3>4. QED
      BY <2>1, <2>2, <3>2, <3>3, EndingKeeps DEF RunInv, RunTypes, Ending
  <2>3. CASE ~(procs' = procs /\ UNCHANGED <<port, due>>)
    <3>1. /\ wizard' = [wizard EXCEPT !.phase = "grace"] /\ procs[wizard.found].at # "gone"
          /\ \/ Running!Dies(wizard.found, FALSE)
             \/ /\ UNCHANGED <<port, due>>
                /\ procs' = [procs EXCEPT ![wizard.found].at = IF @ = "serving" THEN "quitting" ELSE @]
      BY <1>6, <2>3 DEF Running!Term, Running!Goes, Running!Gone
    <3>2. wizard' = [wizard EXCEPT !.phase = wizard'.phase] /\ wizard'.phase \in Ending
      BY <3>1 DEF RunInv, RunTypes, Ending
    <3>3. CASE UNCHANGED <<port, due>>
               /\ procs' = [procs EXCEPT ![wizard.found].at = IF @ = "serving" THEN "quitting" ELSE @]
      <4>1. /\ procs'[wizard.found].config = procs[wizard.found].config
            /\ procs'[wizard.found].at = IF procs[wizard.found].at = "serving" THEN "quitting"
                                         ELSE procs[wizard.found].at
            /\ procs'[wizard.found].by = procs[wizard.found].by
            /\ \A q \in Pids : q # wizard.found => procs'[q] = procs[q]
            /\ procs' \in [Pids -> [at : Places, config : Nat, by : {"user", "unit"}]]
        BY <2>1, <3>3 DEF RunInv, RunTypes, Places
      <4>2. procs[wizard.found].at = "serving"
        BY <2>3, <3>3 DEF RunInv, RunTypes
      <4>3. Tame /\ OneListener'
        BY <2>1, <3>3, <4>1, <4>2 DEF Tame, RunInv, OneListener, Listening
      <4>4. QED
        BY <2>1, <3>2, <3>3, <4>1, <4>3, EndingKeeps DEF RunInv, RunTypes, Ending
    <3>4. CASE Running!Dies(wizard.found, FALSE)
      <4>1. /\ Tame /\ OneListener' /\ due' \in BOOLEAN
            /\ procs' \in [Pids -> [at : Places, config : Nat, by : {"user", "unit"}]]
            /\ port' \in Pids \cup {Running!Nobody, Running!Check}
        BY <2>1, <3>4, DyingListens
      <4>2. QED
        BY <2>1, <3>2, <4>1, EndingKeeps DEF Ending
    <3>5. QED
      BY <3>1, <3>3, <3>4
  <2>4. QED
    BY <2>2, <2>3
<1>7. CASE Running!Kill
  <2>1. /\ wizard.phase = "kill" /\ excuse' = excuse /\ wizard.found \in Pids
        /\ port # Running!Check
    BY <1>2, <1>7 DEF Running!Kill, Ending
  <2>2. CASE Running!Dies(wizard.found, TRUE) /\ wizard' = [wizard EXCEPT !.phase = "launch"]
    <3>1. /\ procs'[wizard.found].at = "gone" /\ Tame /\ OneListener' /\ due' \in BOOLEAN
          /\ procs' \in [Pids -> [at : Places, config : Nat, by : {"user", "unit"}]]
          /\ port' \in Pids \cup {Running!Nobody, Running!Check}
      BY <2>1, <2>2, DyingListens
    <3>2. wizard' = [wizard EXCEPT !.phase = wizard'.phase] /\ wizard'.phase = "launch"
      BY <2>2 DEF RunInv, RunTypes
    <3>3. QED
      BY <2>1, <3>1, <3>2, EndingKeeps DEF Ending
  <2>3. CASE /\ UNCHANGED <<procs, port, due>>
             /\ \/ /\ procs[wizard.found].at = "gone"
                   /\ wizard' = [wizard EXCEPT !.phase = "launch"]
                \/ wizard' = [wizard EXCEPT !.phase = "launch", !.spared = wizard.found]
    <3>1. \/ /\ wizard' = [wizard EXCEPT !.phase = wizard'.phase]
             /\ wizard'.phase = "launch" /\ procs'[wizard.found].at = "gone"
          \/ /\ wizard' = [wizard EXCEPT !.phase = wizard'.phase, !.spared = wizard.found]
             /\ wizard'.phase = "launch"
      BY <2>3 DEF RunInv, RunTypes
    <3>2. Tame /\ OneListener'
      BY <2>1, <2>3, <3>1 DEF Tame, RunInv, OneListener, Listening
    <3>3. due' \in BOOLEAN /\ port' \in Pids \cup {Running!Nobody, Running!Check}
          /\ procs' \in [Pids -> [at : Places, config : Nat, by : {"user", "unit"}]]
      BY <2>3 DEF RunInv, RunTypes
    <3>4. QED
      BY <2>1, <3>1, <3>2, <3>3, EndingKeeps DEF Ending
  <2>4. QED
    BY <1>7, <2>2, <2>3 DEF Running!Kill, Running!Goes, Running!Gone, Running!Spares
<1>8. CASE Running!Launch
  <2>1. /\ wizard.phase = "launch" /\ wizard.launched = Running!Nobody /\ wizard.found \in Pids
        /\ procs[wizard.found].at = "gone" \/ wizard.spared = wizard.found
        /\ port # Running!Check /\ UNCHANGED <<port, due>>
    BY <1>8 DEF Running!Launch, RunInv, FoundIsGone, OneListener
  <2>2. ASSUME NEW p \in Pids, Running!NextPid(p), procs' = Running!Started(p, "user"),
               wizard' = [wizard EXCEPT !.phase = "check", !.launched = p], excuse' = excuse
        PROVE  RunInv'
    <3>1. /\ Tame /\ procs' \in [Pids -> [at : Places, config : Nat, by : {"user", "unit"}]]
          /\ \A q \in Pids : q # p => procs'[q] = procs[q]
          /\ procs[p].at = "unborn" /\ procs'[p].at = "loaded"
      BY <2>2, NewIsLoaded
    <3>2. /\ wizard'.phase = "check" /\ wizard'.launched = p /\ wizard'.found = wizard.found
          /\ wizard'.spared = wizard.spared
      BY <2>2 DEF RunInv, RunTypes
    <3>3. RunTypes'
      BY <2>1, <2>2, <3>1 DEF RunInv, RunTypes, Phases
    <3>4. \A q \in Pids : Listening(q)' <=> Listening(q)
      BY <3>1 DEF Listening
    <3>5. OneListener' /\ OneIsThere' /\ FoundIsGone'
      BY <2>1, <3>1, <3>2, <3>4 DEF RunInv, OneListener, OneIsThere, FoundIsGone
    <3>6. OldIsFound'
      BY <2>1, <3>1, <3>2, OldIsFoundStill DEF Ending
    <3>7. QED
      BY <3>3, <3>5, <3>6 DEF RunInv
  <2>3. ASSUME wizard' = [wizard EXCEPT !.phase = "check"], procs' = procs, excuse' = TRUE
        PROVE  RunInv'
    <3>1. /\ wizard'.phase = "check" /\ wizard'.launched = Running!Nobody
          /\ wizard'.found = wizard.found /\ wizard'.spared = wizard.spared
      BY <2>1, <2>3 DEF RunInv, RunTypes
    <3>2. RunTypes' /\ OneListener' /\ OneIsThere' /\ FoundIsGone' /\ Tame
      BY <2>1, <2>3, <3>1
         DEF RunInv, RunTypes, Phases, OneListener, Listening, OneIsThere, FoundIsGone, Tame
    <3>3. OldIsFound'
      BY <2>1, <3>1, <3>2, OldIsFoundStill DEF Ending
    <3>4. QED
      BY <3>2, <3>3 DEF RunInv
  <2>4. QED
    BY <1>8, <2>2, <2>3 DEF Running!Launch, Running!Goes
<1>9. CASE Running!LiveCheck \/ Running!CheckEnds
  <2>1. /\ wizard.phase \in {"check", "checking"} /\ UNCHANGED <<procs, due, excuse>>
        /\ \/ /\ wizard' = [wizard EXCEPT !.phase = "end"]
              /\ port' = IF port = Running!Check THEN Running!Nobody ELSE port
           \/ /\ wizard' = [wizard EXCEPT !.phase = "checking"]
              /\ port' = IF port = Running!Nobody THEN Running!Check ELSE port
    BY <1>9 DEF Running!LiveCheck, Running!CheckEnds, Running!Goes, RunInv, OneListener
  <2>2. /\ wizard'.phase \in {"checking", "end"} /\ wizard'.launched = wizard.launched
        /\ wizard'.found = wizard.found /\ wizard'.spared = wizard.spared
        /\ port' = Running!Check => wizard'.phase = "checking"
    BY <2>1, PidsAreNotNobody DEF RunInv, RunTypes
  <2>3. RunTypes'
    BY <2>1 DEF RunInv, RunTypes, Phases
  <2>4. OneListener' /\ Tame
    BY <2>1, <2>2, PidsAreNotNobody DEF RunInv, OneListener, Listening, Tame
  <2>5. OneIsThere' /\ FoundIsGone'
    BY <2>1, <2>2 DEF RunInv, OneIsThere, FoundIsGone
  <2>6. OldIsFound'
    BY <2>1, <2>2, <2>4, OldIsFoundStill DEF Ending
  <2>7. QED
    BY <2>3, <2>4, <2>5, <2>6 DEF RunInv
<1>10. QED
  BY <1>1, <1>4, <1>5, <1>6, <1>7, <1>8, <1>9 DEF Running!Restart

LEMMA RunNext == ASSUME Running!InstanceAssumption, RunInv, Running!Next PROVE RunInv'
BY ProcessKeeps, OthersKeep, AutostartKeeps, SaveKeeps, RestartKeeps, LogsInKeeps
   DEF Running!Next

LEMMA RunStays == ASSUME RunInv, UNCHANGED instanceVars PROVE RunInv'
<1>1. UNCHANGED <<procs, port, wizard, stored, excuse, due, early>>
  BY DEF instanceVars
<1>2. QED
  BY <1>1 DEF RunInv, RunTypes, OneListener, Listening, OldIsFound, FoundIsGone, OneIsThere

LEMMA RunSuffices ==
    ASSUME Running!InstanceAssumption, RunInv
    PROVE  Running!NewSettingsRun /\ Running!TrayComesBack /\ Running!LightsAreHandedOver
<1>1. Running!NewSettingsRun
  BY DEF RunInv, OldIsFound, Running!NewSettingsRun, Running!Restarted
<1>2. Running!TrayComesBack
  <2> SUFFICES ASSUME wizard.launched # Running!Nobody, ~excuse,
                      \A p \in Running!Live : procs[p].at = "serving"
               PROVE  \E p \in Running!Live : procs[p].at = "serving"
    BY DEF Running!TrayComesBack
  <2>1. wizard.launched \in Pids
    BY DEF RunInv, RunTypes
  <2>2. CASE procs[wizard.launched].at = "loaded"
    BY <2>1, <2>2 DEF Running!Live
  <2>3. CASE \E p \in Pids : procs[p].at = "serving"
    BY <2>3 DEF Running!Live
  <2>4. QED
    BY <2>2, <2>3 DEF RunInv, OneIsThere
<1>3. Running!LightsAreHandedOver
  BY PidsAreNotNobody
     DEF RunInv, FoundIsGone, Running!LightsAreHandedOver, Running!Lit
<1>4. QED
  BY <1>1, <1>2, <1>3

--------------------------------------------------------------------------------
(* The order of the versions.                                                      *)

LessNat(x, y) == x < y

LEMMA ElementOf == ASSUME NEW S, NEW s \in Seq(S), NEW i \in 1 .. Len(s) PROVE s[i] \in S
OBVIOUS

LEMMA PairOrder ==
    ASSUME NEW m \in Nat, NEW n \in Nat, NEW k \in Nat, NEW l \in Nat,
           m < k \/ (m = k /\ n < l)
    PROVE  ~(k < m \/ (k = m /\ l < n)) /\ (m # k \/ n # l)
<1>1. CASE m < k
  BY <1>1
<1>2. CASE m = k /\ n < l
  BY <1>2
<1>3. QED
  BY <1>1, <1>2

LEMMA NumbersAsymmetric ==
    ASSUME NEW a \in Seq(Nat), NEW b \in Seq(Nat), Len(a) = Len(b),
           Updating!Before(a, b, LessNat)
    PROVE  ~Updating!Before(b, a, LessNat)
<1> SUFFICES ASSUME Updating!Before(b, a, LessNat) PROVE FALSE
  OBVIOUS
<1>1. PICK i \in 1 .. Len(b) :
         /\ \A j \in 1 .. (i - 1) : j <= Len(a) /\ a[j] = b[j]
         /\ i <= Len(a) => LessNat(a[i], b[i])
  BY Zenon DEF Updating!Before
<1>2. PICK k \in 1 .. Len(a) :
         /\ \A j \in 1 .. (k - 1) : j <= Len(b) /\ b[j] = a[j]
         /\ k <= Len(b) => LessNat(b[k], a[k])
  BY Zenon DEF Updating!Before
<1>3. a[i] \in Nat /\ b[i] \in Nat /\ a[k] \in Nat /\ b[k] \in Nat
  OBVIOUS
<1>4. a[i] < b[i] /\ b[k] < a[k]
  <2>1. i <= Len(a) /\ k <= Len(b)
    OBVIOUS
  <2>2. LessNat(a[i], b[i]) /\ LessNat(b[k], a[k])
    BY <1>1, <1>2, <2>1, Zenon
  <2>3. QED
    BY <2>2 DEF LessNat
<1>5. CASE i < k
  <2>1. i \in 1 .. (k - 1)
    BY <1>5
  <2>2. QED
    BY <1>2, <1>3, <1>4, <2>1
<1>6. CASE k < i
  <2>1. k \in 1 .. (i - 1)
    BY <1>6
  <2>2. QED
    BY <1>1, <1>3, <1>4, <2>1
<1>7. CASE i = k
  BY <1>3, <1>4, <1>7
<1>8. QED
  BY <1>5, <1>6, <1>7

LEMMA ElementIs == ASSUME NEW S, NEW s \in Seq(S), NEW i \in 1 .. Len(s) PROVE s[i] \in S
OBVIOUS

LEMMA PairsAsymmetric ==
    ASSUME NEW a \in Seq(Nat \X Nat), NEW b \in Seq(Nat \X Nat),
           Updating!Before(a, b, Updating!Pair)
    PROVE  ~Updating!Before(b, a, Updating!Pair)
<1> SUFFICES ASSUME Updating!Before(b, a, Updating!Pair) PROVE FALSE
  OBVIOUS
<1>1. PICK i \in 1 .. Len(b) :
         /\ \A j \in 1 .. (i - 1) : j <= Len(a) /\ a[j] = b[j]
         /\ i <= Len(a) => Updating!Pair(a[i], b[i])
  BY DEF Updating!Before
<1>2. PICK k \in 1 .. Len(a) :
         /\ \A j \in 1 .. (k - 1) : j <= Len(b) /\ b[j] = a[j]
         /\ k <= Len(b) => Updating!Pair(b[k], a[k])
  BY DEF Updating!Before
<1>3. ASSUME NEW x \in Nat \X Nat, NEW y \in Nat \X Nat, Updating!Pair(x, y)
      PROVE  ~Updating!Pair(y, x) /\ x # y
  <2>1. x[1] \in Nat /\ x[2] \in Nat /\ y[1] \in Nat /\ y[2] \in Nat
    OBVIOUS
  <2>2. x[1] < y[1] \/ (x[1] = y[1] /\ x[2] < y[2])
    BY <1>3 DEF Updating!Pair
  <2>3. ~(y[1] < x[1] \/ (y[1] = x[1] /\ y[2] < x[2])) /\ (x[1] # y[1] \/ x[2] # y[2])
    BY <2>1, <2>2, PairOrder, Zenon
  <2>4. QED
    BY <2>3 DEF Updating!Pair
<1>4. CASE i = k
  <2>1. i \in 1 .. Len(a) /\ i \in 1 .. Len(b)
    BY <1>1, <1>2, <1>4
  <2>2. a[i] \in Nat \X Nat /\ b[i] \in Nat \X Nat /\ i <= Len(a) /\ i <= Len(b)
    <3>1. a[i] \in Nat \X Nat /\ b[i] \in Nat \X Nat
      BY <2>1, ElementIs
    <3>2. i <= Len(a) /\ i <= Len(b)
      BY <2>1
    <3>3. QED
      BY <3>1, <3>2
  <2>3. Updating!Pair(a[i], b[i]) /\ Updating!Pair(b[i], a[i])
    <3>1. i <= Len(a) => Updating!Pair(a[i], b[i])
      BY <1>1
    <3>2. i <= Len(b) => Updating!Pair(b[i], a[i])
      BY <1>2, <1>4
    <3>3. QED
      BY <2>2, <3>1, <3>2
  <2>4. QED
    BY <1>3, <2>2, <2>3
<1>5. CASE i < k
  <2>1. i \in 1 .. (k - 1) /\ i \in 1 .. Len(a)
    BY <1>5
  <2>2. b[i] = a[i] /\ Updating!Pair(a[i], b[i])
    BY <1>1, <1>2, <2>1
  <2>3. a[i] \in Nat \X Nat /\ b[i] \in Nat \X Nat
    BY <2>1, ElementOf, Zenon
  <2>4. QED
    BY <1>3, <2>2, <2>3
<1>6. CASE k < i
  <2>1. k \in 1 .. (i - 1) /\ k \in 1 .. Len(b)
    BY <1>6
  <2>2. a[k] = b[k] /\ Updating!Pair(b[k], a[k])
    BY <1>1, <1>2, <2>1
  <2>3. a[k] \in Nat \X Nat /\ b[k] \in Nat \X Nat
    BY <2>1, ElementOf, Zenon
  <2>4. QED
    BY <1>3, <2>2, <2>3
<1>7. QED
  BY <1>4, <1>5, <1>6

Version == [core : Seq(Nat), pre : Seq(Nat \X Nat)]

LEMMA PaddedIsThatLong ==
    ASSUME NEW core \in Seq(Nat), NEW n \in Nat
    PROVE  Updating!Padded(core, n) \in Seq(Nat) /\ Len(Updating!Padded(core, n)) = n
<1>1. \A i \in 1 .. n : (IF i <= Len(core) THEN core[i] ELSE 0) \in Nat
  OBVIOUS
<1>2. Updating!Padded(core, n) \in [1 .. n -> Nat]
  BY <1>1 DEF Updating!Padded
<1>3. QED
  BY <1>2

\* No two versions are each older than the other, and none than itself.
LEMMA OlderAsymmetric ==
    ASSUME NEW a \in Version, NEW b \in Version, Updating!Older(a, b)
    PROVE  ~Updating!Older(b, a) /\ a # b
<1> DEFINE n == IF Len(a.core) > Len(b.core) THEN Len(a.core) ELSE Len(b.core)
           ca == Updating!Padded(a.core, n)
           cb == Updating!Padded(b.core, n)
<1>1. /\ a.core \in Seq(Nat) /\ b.core \in Seq(Nat)
      /\ a.pre \in Seq(Nat \X Nat) /\ b.pre \in Seq(Nat \X Nat)
  BY DEF Version
<1>2. n \in Nat /\ n = IF Len(b.core) > Len(a.core) THEN Len(b.core) ELSE Len(a.core)
  BY <1>1
<1>3. IF ca # cb THEN Updating!Before(ca, cb, LessNat)
      ELSE a.pre # <<>> /\ a.pre # b.pre /\ (b.pre = <<>> \/ Updating!Before(a.pre, b.pre, Updating!Pair))
  BY DEF Updating!Older, Updating!Before, LessNat
<1>4. SUFFICES ASSUME Updating!Older(b, a) PROVE FALSE
  BY <1>3
<1>5. IF cb # ca THEN Updating!Before(cb, ca, LessNat)
      ELSE b.pre # <<>> /\ b.pre # a.pre /\ (a.pre = <<>> \/ Updating!Before(b.pre, a.pre, Updating!Pair))
  BY <1>2, <1>4 DEF Updating!Older, Updating!Before, LessNat
<1> HIDE DEF n
<1>6. ca \in Seq(Nat) /\ cb \in Seq(Nat) /\ Len(ca) = Len(cb)
  BY <1>1, <1>2, PaddedIsThatLong, Zenon
<1> HIDE DEF ca, cb
<1>7. QED
  BY <1>1, <1>3, <1>5, <1>6, NumbersAsymmetric, PairsAsymmetric

--------------------------------------------------------------------------------
(* The update.                                                                     *)

Released == DOMAIN Versions
Steps == {"idle", "asked", "script", "sums", "verify", "run", "ended"}
Loads == {"script", "sums", "verify", "run"}

UpdTypes ==
    /\ own \in Released /\ system \in {"windows", "posix"} /\ uploads \in Nat
    /\ github \in [latest : Released, script : Nat, sums : Nat]
    /\ update \in [phase : Steps, release : Nat, script : Nat \cup {Updating!Cut},
                   sums : Nat \cup {Updating!Cut}]
    /\ installed \in Released /\ offered \in Released \cup {Updating!None}
    /\ ran \in Nat \cup {Updating!Cut} /\ told \in {-1, 0, 1} /\ withdrawn \in BOOLEAN

\* Whoever is asked, or was, is asked about a newer release, and unless that one was
\* withdrawn the latest is no older.
OfferHolds ==
    /\ update.phase = "idle" <=> offered = Updating!None
    /\ offered # Updating!None => own < offered
    /\ ~withdrawn => offered <= github.latest

\* What is being downloaded is there, and what is run was downloaded, and agreed.
LoadHolds ==
    /\ update.phase \in Loads => github.script # Updating!None /\ github.sums # Updating!None
    /\ update.phase \in {"sums", "verify", "run"} => update.script # Updating!None
    /\ update.phase = "run" => update.sums # Updating!Cut /\ update.script = update.sums

\* What ended was told, and what ran was verified.
EndHolds ==
    /\ update.phase = "ended" <=> told # -1
    /\ update.phase # "ended" => ran = Updating!None
    /\ ran # Updating!None => ran # Updating!Cut /\ ran = update.sums
    /\ told = 0 /\ ~withdrawn =>
          ran # Updating!None /\ (system = "posix" => installed >= offered)

UpdInv == UpdTypes /\ OfferHolds /\ LoadHolds /\ EndHolds

\* The list is in the order that compare_versions knows.
OldestFirst == \A v, w \in Released : v < w => Updating!Older(Versions[v], Versions[w])

LEMMA ReleasesAreNumbers ==
    ASSUME Updating!UpdateAssumption
    PROVE  Released \subseteq Nat \ {0} /\ \A v \in Released : Versions[v] \in Version
<1>1. Versions \in Seq(Version)
  BY DEF Updating!UpdateAssumption, Version
<1>2. Released = 1 .. Len(Versions) /\ Len(Versions) \in Nat
  BY <1>1 DEF Released
<1>3. QED
  BY <1>1, <1>2, ElementOf

\* compare_versions tells exactly which release is newer.
LEMMA OlderIsBefore ==
    ASSUME Updating!UpdateAssumption, OldestFirst, NEW v \in Released, NEW w \in Released
    PROVE  Updating!Older(Versions[v], Versions[w]) <=> v < w
<1>1. v \in Nat /\ w \in Nat /\ Versions[v] \in Version /\ Versions[w] \in Version
  BY ReleasesAreNumbers
<1>2. v < w => Updating!Older(Versions[v], Versions[w])
  BY DEF OldestFirst
<1>3. ASSUME Updating!Older(Versions[v], Versions[w]) PROVE v < w
  <2>1. ~Updating!Older(Versions[w], Versions[v]) /\ Versions[v] # Versions[w]
    BY <1>1, <1>3, OlderAsymmetric
  <2>2. ~(w < v) /\ v # w
    BY <2>1 DEF OldestFirst
  <2>3. QED
    BY <1>1, <2>2
<1>4. QED
  BY <1>2, <1>3

LEMMA UpdBegins == ASSUME Updating!UpdateAssumption, Updating!Init PROVE UpdInv
<1>1. own \in Released /\ own \in Nat /\ github.latest \in Nat
  BY ReleasesAreNumbers DEF Updating!Init, Released
<1>2. UpdTypes
  <2>1. github \in [latest : Released, script : Nat, sums : Nat]
    BY DEF Updating!Init, Updating!None, Released
  <2>2. update \in [phase : Steps, release : Nat, script : Nat \cup {Updating!Cut},
                    sums : Nat \cup {Updating!Cut}]
    BY DEF Updating!Init, Updating!Idle, Updating!None, Steps
  <2>3. QED
    BY <1>1, <2>1, <2>2 DEF Updating!Init, Updating!None, UpdTypes
<1>3. OfferHolds /\ LoadHolds /\ EndHolds
  BY <1>1
     DEF Updating!Init, Updating!Idle, Updating!None, OfferHolds, LoadHolds, EndHolds, Loads
<1>4. QED
  BY <1>2, <1>3 DEF UpdInv

LEMMA OffersKeeps == ASSUME Updating!UpdateAssumption, OldestFirst, UpdInv, Updating!Offers PROVE UpdInv'
<1>1. /\ update.phase = "idle" /\ Updating!Older(Versions[own], Versions[github.latest])
      /\ offered' = github.latest /\ update' = [Updating!Idle EXCEPT !.phase = "asked"]
      /\ UNCHANGED <<own, system, github, installed, uploads, withdrawn, ran, told>>
  BY DEF Updating!Offers, Updating!rest
<1>2. github.latest \in Released /\ own < github.latest
  BY <1>1, OlderIsBefore DEF UpdInv, UpdTypes
<1>3. github.latest \in Nat \ {0}
  BY <1>2, ReleasesAreNumbers
<1>4. update'.phase = "asked"
  BY <1>1 DEF Updating!Idle
<1>5. UpdTypes'
  BY <1>1, <1>2 DEF UpdInv, UpdTypes, Updating!Idle, Updating!None, Steps
<1>6. OfferHolds' /\ LoadHolds'
  BY <1>1, <1>2, <1>3, <1>4 DEF UpdInv, OfferHolds, LoadHolds, Loads, Updating!None
<1>7. EndHolds'
  <2>1. ran = Updating!None /\ told = -1
    BY <1>1 DEF UpdInv, UpdTypes, EndHolds
  <2>2. QED
    BY <1>1, <1>4, <2>1 DEF EndHolds
<1>8. QED
  BY <1>5, <1>6, <1>7 DEF UpdInv

LEMMA DeclinesKeeps == ASSUME Updating!UpdateAssumption, UpdInv, Updating!Declines PROVE UpdInv'
<1>1. /\ update.phase = "asked" /\ update' = Updating!Idle /\ offered' = Updating!None
      /\ UNCHANGED <<own, system, github, installed, uploads, withdrawn, ran, told>>
  BY DEF Updating!Declines, Updating!rest
<1>2. update'.phase = "idle" /\ ran = Updating!None /\ told = -1
  BY <1>1 DEF Updating!Idle, UpdInv, UpdTypes, EndHolds
<1>3. github.latest \in Nat
  BY ReleasesAreNumbers DEF UpdInv, UpdTypes
<1>4. UpdTypes'
  BY <1>1 DEF UpdInv, UpdTypes, Updating!Idle, Updating!None, Steps
<1>5. OfferHolds' /\ LoadHolds' /\ EndHolds'
  BY <1>1, <1>2, <1>3 DEF UpdInv, OfferHolds, LoadHolds, EndHolds, Loads, Updating!None
<1>6. QED
  BY <1>4, <1>5 DEF UpdInv

\* Ending without having run: only a release that was withdrawn may be told to be there.
LEMMA EndsKeeps ==
    ASSUME Updating!UpdateAssumption, UpdInv, NEW code \in {0, 1}, Updating!Ends(code),
           update.phase \notin {"idle", "ended"}, code = 0 => withdrawn,
           UNCHANGED <<own, system, github, installed, uploads, withdrawn, offered, ran>>
    PROVE  UpdInv'
<1>1. update' = [update EXCEPT !.phase = "ended", !.script = Updating!None] /\ told' = code
  BY DEF Updating!Ends
<1>2. update'.phase = "ended" /\ update'.sums = update.sums
  BY <1>1 DEF UpdInv, UpdTypes
<1>3. UpdTypes'
  BY <1>1 DEF UpdInv, UpdTypes, Updating!None, Steps
<1>4. OfferHolds' /\ LoadHolds' /\ EndHolds'
  BY <1>1, <1>2 DEF UpdInv, OfferHolds, LoadHolds, EndHolds, Loads
<1>5. QED
  BY <1>3, <1>4 DEF UpdInv

LEMMA AsksKeeps == ASSUME Updating!UpdateAssumption, OldestFirst, UpdInv, Updating!Asks PROVE UpdInv'
<1>1. /\ update.phase = "asked"
      /\ UNCHANGED <<own, system, github, installed, uploads, withdrawn, offered, ran>>
  BY DEF Updating!Asks, Updating!rest
<1>2. CASE Updating!Ends(1)
  BY <1>1, <1>2, EndsKeeps
<1>3. CASE ~Updating!Older(Versions[own], Versions[github.latest]) /\ Updating!Ends(0)
  <2>1. own < offered /\ offered \in Nat /\ own \in Nat /\ github.latest \in Nat
    BY <1>1, ReleasesAreNumbers DEF UpdInv, UpdTypes, OfferHolds, Updating!None
  <2>2. ~(own < github.latest)
    BY <1>3, OlderIsBefore DEF UpdInv, UpdTypes
  <2>3. withdrawn
    BY <2>1, <2>2 DEF UpdInv, OfferHolds
  <2>4. QED
    BY <1>1, <1>3, <2>3, EndsKeeps
<1>4. CASE /\ Updating!None \notin {github.script, github.sums} /\ told' = told
           /\ update' = [update EXCEPT !.phase = "script", !.release = github.latest]
  <2>1. update'.phase = "script" /\ update'.sums = update.sums
    BY <1>4 DEF UpdInv, UpdTypes
  <2>2. github.latest \in Nat
    BY ReleasesAreNumbers DEF UpdInv, UpdTypes
  <2>3. UpdTypes'
    BY <1>1, <1>4, <2>2 DEF UpdInv, UpdTypes, Steps
  <2>4. OfferHolds' /\ LoadHolds' /\ EndHolds'
    BY <1>1, <1>4, <2>1 DEF UpdInv, OfferHolds, LoadHolds, EndHolds, Loads
  <2>5. QED
    BY <2>3, <2>4 DEF UpdInv
<1>5. QED
  BY <1>2, <1>3, <1>4 DEF Updating!Asks

LEMMA DownloadsKeep ==
    ASSUME Updating!UpdateAssumption, UpdInv, Updating!DownloadScript \/ Updating!DownloadSums
    PROVE  UpdInv'
<1>1. /\ update.phase \in {"script", "sums"}
      /\ UNCHANGED <<own, system, github, installed, uploads, withdrawn, offered, ran>>
  BY DEF Updating!DownloadScript, Updating!DownloadSums, Updating!Download, Updating!rest
<1>2. CASE Updating!Ends(1)
  BY <1>1, <1>2, EndsKeeps
<1>3. ASSUME NEW got \in {github.script, Updating!Cut}, update.phase = "script", told' = told,
             update' = [update EXCEPT !.phase = "sums", !.script = got]
      PROVE  UpdInv'
  <2>1. got # Updating!None /\ got \in Nat \cup {Updating!Cut}
    BY <1>3 DEF UpdInv, UpdTypes, LoadHolds, Loads, Updating!None, Updating!Cut
  <2>2. update'.phase = "sums" /\ update'.sums = update.sums /\ update'.script = got
    BY <1>3 DEF UpdInv, UpdTypes
  <2>3. UpdTypes'
    BY <1>1, <1>3, <2>1 DEF UpdInv, UpdTypes, Steps
  <2>4. OfferHolds' /\ LoadHolds' /\ EndHolds'
    BY <1>1, <1>3, <2>1, <2>2 DEF UpdInv, OfferHolds, LoadHolds, EndHolds, Loads
  <2>5. QED
    BY <2>3, <2>4 DEF UpdInv
<1>4. ASSUME NEW got \in {github.sums, Updating!Cut}, update.phase = "sums", told' = told,
             update' = [update EXCEPT !.phase = "verify", !.sums = got]
      PROVE  UpdInv'
  <2>1. got \in Nat \cup {Updating!Cut}
    BY DEF UpdInv, UpdTypes
  <2>2. update'.phase = "verify" /\ update'.script = update.script
    BY <1>4 DEF UpdInv, UpdTypes
  <2>3. UpdTypes'
    BY <1>1, <1>4, <2>1 DEF UpdInv, UpdTypes, Steps
  <2>4. OfferHolds' /\ LoadHolds'
    BY <1>1, <1>4, <2>2 DEF UpdInv, OfferHolds, LoadHolds, Loads
  <2>5. ran = Updating!None
    BY <1>4 DEF UpdInv, EndHolds
  <2>6. EndHolds'
    BY <1>1, <1>4, <2>2, <2>5 DEF UpdInv, EndHolds
  <2>7. QED
    BY <2>3, <2>4, <2>6 DEF UpdInv
<1>5. QED
  BY <1>2, <1>3, <1>4 DEF Updating!DownloadScript, Updating!DownloadSums, Updating!Download

LEMMA VerifyKeeps == ASSUME Updating!UpdateAssumption, UpdInv, Updating!Verify PROVE UpdInv'
<1>1. /\ update.phase = "verify"
      /\ UNCHANGED <<own, system, github, installed, uploads, withdrawn, offered, ran>>
  BY DEF Updating!Verify, Updating!rest
<1>2. CASE Updating!Ends(1)
  BY <1>1, <1>2, EndsKeeps
<1>3. CASE Updating!Agrees /\ update' = [update EXCEPT !.phase = "run"] /\ told' = told
  <2>1. update'.phase = "run" /\ update'.script = update.script /\ update'.sums = update.sums
    BY <1>3 DEF UpdInv, UpdTypes
  <2>2. UpdTypes'
    BY <1>1, <1>3 DEF UpdInv, UpdTypes, Steps
  <2>3. OfferHolds' /\ LoadHolds' /\ EndHolds'
    BY <1>1, <1>3, <2>1 DEF UpdInv, OfferHolds, LoadHolds, EndHolds, Loads, Updating!Agrees
  <2>4. QED
    BY <2>2, <2>3 DEF UpdInv
<1>4. QED
  BY <1>2, <1>3 DEF Updating!Verify

LEMMA RunScriptKeeps == ASSUME Updating!UpdateAssumption, UpdInv, Updating!RunScript PROVE UpdInv'
<1>1. update.phase = "run" /\ UNCHANGED <<own, system, github, uploads, withdrawn, offered>>
  BY DEF Updating!RunScript
<1>2. CASE Updating!Ends(1) /\ UNCHANGED <<ran, installed>>
  BY <1>1, <1>2, EndsKeeps
<1>3. ASSUME NEW code \in {0, 1}, Updating!Ends(code), ran' = update.script,
             installed' \in {installed, github.latest},
             code = 0 /\ system = "posix" => installed' = github.latest
      PROVE  UpdInv'
  <2>1. /\ update.script = update.sums /\ update.sums # Updating!Cut
        /\ update.script # Updating!None
    BY <1>1 DEF UpdInv, LoadHolds
  <2>2. update' = [update EXCEPT !.phase = "ended", !.script = Updating!None] /\ told' = code
    BY <1>3 DEF Updating!Ends
  <2>3. update'.phase = "ended" /\ update'.sums = update.sums
    BY <2>2 DEF UpdInv, UpdTypes
  <2>4. UpdTypes'
    BY <1>1, <1>3, <2>2 DEF UpdInv, UpdTypes, Updating!None, Steps
  <2>5. ~withdrawn /\ code = 0 /\ system = "posix" => installed' >= offered
    <3>1. github.latest \in Nat /\ offered \in Nat
      BY ReleasesAreNumbers DEF UpdInv, UpdTypes, Updating!None
    <3>2. QED
      BY <1>3, <3>1 DEF UpdInv, OfferHolds
  <2>6. OfferHolds' /\ LoadHolds'
    BY <1>1, <2>3 DEF UpdInv, OfferHolds, LoadHolds, Loads
  <2>7. EndHolds'
    BY <1>1, <1>3, <2>1, <2>2, <2>3, <2>5 DEF EndHolds
  <2>8. QED
    BY <2>4, <2>6, <2>7 DEF UpdInv
<1>4. QED
  BY <1>2, <1>3 DEF Updating!RunScript

\* What GitHub does meanwhile takes no file away.
LEMMA UploadKeeps == ASSUME Updating!UpdateAssumption, UpdInv, Updating!Upload PROVE UpdInv'
<1>1. /\ uploads' = uploads + 1
      /\ UNCHANGED <<own, system, update, installed, offered, ran, told>>
  BY DEF Updating!Upload
<1>2. ASSUME NEW file \in {"script", "sums"}, github' = [github EXCEPT ![file] = uploads + 1],
             withdrawn' = withdrawn
      PROVE  UpdInv'
  <2>1. /\ github'.latest = github.latest
        /\ github'.script \in {github.script, uploads + 1}
        /\ github'.sums \in {github.sums, uploads + 1}
        /\ github' \in [latest : Released, script : Nat, sums : Nat]
    BY <1>2 DEF UpdInv, UpdTypes
  <2>2. uploads + 1 # Updating!None /\ uploads + 1 \in Nat
    BY DEF UpdInv, UpdTypes, Updating!None
  <2>3. UpdTypes'
    BY <1>1, <1>2, <2>1, <2>2 DEF UpdInv, UpdTypes
  <2>4. OfferHolds' /\ LoadHolds' /\ EndHolds'
    BY <1>1, <1>2, <2>1, <2>2 DEF UpdInv, OfferHolds, LoadHolds, EndHolds
  <2>5. QED
    BY <2>3, <2>4 DEF UpdInv
<1>3. ASSUME NEW v \in Released, github' = [github EXCEPT !.latest = v],
             withdrawn' = (withdrawn \/ (v < github.latest /\ update.phase # "idle"))
      PROVE  UpdInv'
  <2>1. /\ github'.latest = v /\ github'.script = github.script /\ github'.sums = github.sums
        /\ github' \in [latest : Released, script : Nat, sums : Nat]
    BY <1>3 DEF UpdInv, UpdTypes
  <2>2. /\ withdrawn' \in BOOLEAN /\ (withdrawn => withdrawn')
        /\ ~withdrawn' => ~withdrawn /\ ~(v < github.latest /\ update.phase # "idle")
    BY <1>3, Zenon
  <2>3. UpdTypes'
    BY <1>1, <2>1, <2>2 DEF UpdInv, UpdTypes
  <2>4. ~withdrawn' => offered <= v
    <3>1. github.latest \in Nat /\ v \in Nat /\ offered \in Nat
      BY ReleasesAreNumbers DEF UpdInv, UpdTypes, Updating!None
    <3>2. CASE update.phase = "idle"
      BY <3>1, <3>2 DEF UpdInv, OfferHolds, Updating!None
    <3>3. CASE update.phase # "idle"
      BY <2>2, <3>1, <3>3 DEF UpdInv, OfferHolds
    <3>4. QED
      BY <3>2, <3>3
  <2>5. OfferHolds' /\ LoadHolds' /\ EndHolds'
    BY <1>1, <2>1, <2>2, <2>4 DEF UpdInv, OfferHolds, LoadHolds, EndHolds
  <2>6. QED
    BY <2>3, <2>5 DEF UpdInv
<1>4. QED
  BY <1>2, <1>3 DEF Updating!Upload, Released

LEMMA UpdNext == ASSUME Updating!UpdateAssumption, OldestFirst, UpdInv, Updating!Next PROVE UpdInv'
BY OffersKeeps, DeclinesKeeps, AsksKeeps, DownloadsKeep, VerifyKeeps, RunScriptKeeps, UploadKeeps
   DEF Updating!Next

LEMMA UpdStays == ASSUME UpdInv, UNCHANGED updateVars PROVE UpdInv'
<1>1. UNCHANGED <<own, system, github, update, installed, uploads, offered, ran, told, withdrawn>>
  BY DEF updateVars
<1>2. QED
  BY <1>1 DEF UpdInv, UpdTypes, OfferHolds, LoadHolds, EndHolds

LEMMA UpdSuffices ==
    ASSUME Updating!UpdateAssumption, OldestFirst, UpdInv
    PROVE  Updating!OffersAreNewer /\ Updating!OnlyVerifiedRuns /\ Updating!ToldIsDone
<1>1. \A v \in DOMAIN Versions : Updating!Older(Versions[own], Versions[v]) <=> own < v
  BY OlderIsBefore DEF UpdInv, UpdTypes, Released
<1>2. offered # Updating!None => offered > own
  BY ReleasesAreNumbers DEF UpdInv, UpdTypes, OfferHolds
<1>3. QED
  BY <1>1, <1>2
     DEF UpdInv, EndHolds, Updating!OffersAreNewer, Updating!OnlyVerifiedRuns, Updating!ToldIsDone

--------------------------------------------------------------------------------
(* Hooks, scripts and addresses.                                                   *)

HookStates == {"missing", "partial", "stale-path", "installed", "unreadable"}
ScriptStates == {"missing", "outdated", "current"}
Configs == [enabled : SUBSET Agents, home : [Agents -> {Hooks!Default, "elsewhere"} \cup Hooks!Distros],
            port : Nat]
Writes == [place : Hooks!Places, what : {"script", "address"}]

CodexTypes == [here : Hooks!Ages, distro : Hooks!Ages]
FlagTypes == [Hooks!Homes -> SUBSET {"legacy", "modern"}]

HookTypes ==
    /\ split \in BOOLEAN /\ up \in BOOLEAN /\ remote \in {"none", "older", "same"}
    /\ codex \in CodexTypes /\ flags \in FlagTypes
    /\ hooks \in [Agents -> [Hooks!Homes -> HookStates]]
    /\ script \in [Hooks!Places -> ScriptStates] /\ address \in [Hooks!Places -> Nat]
    /\ saved \in Configs
    /\ setup \in [phase : {"idle", "route", "hooks", "writes"}, command : {"wizard", "cli"},
                  config : Configs, distro : Hooks!Distros, left : SUBSET (Agents \X Hooks!Places),
                  writes : Seq(Writes), gaps : BOOLEAN]
    /\ failed \in BOOLEAN /\ refreshed \in BOOLEAN
    /\ done \in {"nothing", "wizard", "cli", "elsewhere"}
    /\ ~split => up

\* Where a run puts scripts, and an agent's hooks.
Targets(c) ==
    IF setup.command = "cli" \/ ~split THEN {"here"}
    ELSE {setup.distro} \cup (IF Hooks!WindowsKeys(c.enabled) = {} THEN {} ELSE {"here"})
Wanted(c, a) ==
    IF setup.command = "cli" \/ ~split THEN {"here"}
    ELSE {setup.distro} \cup (IF a \in Hooks!WindowsKeys(c.enabled) THEN {"here"} ELSE {})

Pending(p, what) == \E i \in DOMAIN setup.writes : setup.writes[i] = [place |-> p, what |-> what]
Scripted(p) == Pending(p, "script") \/ script[p] = "current"
Addressed(p) == Pending(p, "address") \/ address[p] = setup.config.port

\* The run keeps to its places, and knows who is enabled.
RunIsPlaced ==
    /\ \A q \in setup.left : q[2] \in Targets(setup.config)
    /\ setup.command = "cli" => setup.phase # "route"
    /\ setup.command = "wizard" /\ setup.phase = "writes" => setup.left = {}
    /\ setup.phase \in {"idle", "route", "hooks"} => setup.writes = <<>>

\* A run without gaps so far has what it wants, or it is still on its list; but for what
\* an older `tintaview` in the distro made of it.
RunIsWhole ==
    setup.phase # "idle" /\ ~setup.gaps =>
        /\ setup.phase = "writes" \/ setup.command = "cli" => saved = setup.config
        /\ remote # "older" /\ (setup.phase = "hooks" \/ (setup.command = "wizard" /\ setup.phase = "writes")) =>
              \A a \in setup.config.enabled : \A s \in Wanted(setup.config, a) :
                 hooks[a][s] = "installed" \/ <<a, s>> \in setup.left
        /\ setup.phase = "writes" \/ (setup.command = "cli" /\ setup.phase = "hooks") =>
              \A p \in Targets(setup.config) : Scripted(p) /\ Addressed(p)

\* What a run without gaps left behind.
DoneIsWhole ==
    /\ done # "nothing" => setup.phase = "idle"
    /\ done = "cli" /\ ~split =>
          /\ script["here"] = "current" /\ address["here"] = saved.port
          /\ remote # "older" => \A a \in saved.enabled : hooks[a]["here"] = "installed"
    /\ done = "wizard" /\ ~split =>
          /\ script["here"] = "current" /\ address["here"] = saved.port
          /\ remote # "older" => \A a \in saved.enabled : hooks[a]["here"] = "installed"
    /\ done = "wizard" /\ split =>
          /\ script["first"] = "current" /\ address["first"] = saved.port
          /\ Hooks!WindowsKeys(saved.enabled) # {} => script["here"] = "current"
          /\ remote # "older" => \A a \in saved.enabled :
                /\ hooks[a]["first"] = "installed"
                /\ a \in Hooks!WindowsKeys(saved.enabled) => hooks[a]["here"] = "installed"

\* The same of Codex's flag, where the wizard plans it itself.
Settled(p) == Hooks!Flagged(Hooks!VersionAt(p), flags[p]) = flags[p]
FlagPlace == IF split THEN setup.distro ELSE "here"
FlagIsPlanned ==
    setup.command = "wizard" /\ setup.phase \in {"hooks", "writes"} /\ ~setup.gaps =>
        (remote = "none" /\ "codex" \in setup.config.enabled =>
            Settled(FlagPlace) \/ <<"codex", FlagPlace>> \in setup.left)
FlagIsDone ==
    done = "wizard" /\ remote = "none" /\ "codex" \in saved.enabled =>
        Settled(IF split THEN "first" ELSE "here")
FlagHolds == FlagIsPlanned /\ FlagIsDone

\* Hooks without a script are owed one by the run that wrote them.
HooksAreServed ==
    ~failed =>
        /\ \A a \in Agents, p \in Hooks!Places : hooks[a][p] = "installed" =>
              \/ script[p] # "missing" \/ (setup.phase = "writes" /\ Pending(p, "script"))
              \/ setup.command = "wizard" /\ setup.phase = "hooks" /\ p \in Targets(setup.config)
        /\ setup.phase = "writes" =>
              \A p \in Targets(setup.config) : script[p] # "missing" \/ Pending(p, "script")
        /\ setup.command = "cli" /\ setup.phase = "hooks" => script["here"] # "missing"

NoneIsOutdated ==
    refreshed => Hooks!Reachable /\ \A p \in Hooks!Checked : script[p] # "outdated"

HooksInv == /\ HookTypes /\ RunIsPlaced /\ RunIsWhole /\ DoneIsWhole /\ FlagHolds
            /\ HooksAreServed /\ NoneIsOutdated

LEMMA HooksBegin == ASSUME Hooks!SetupAssumption, Hooks!Init PROVE HooksInv
<1> USE DEF Hooks!Places, Hooks!Homes, Hooks!Distros
<1>0. Hooks!DefaultPort \in Ports /\ Ports \subseteq Nat
  BY DEF Hooks!DefaultPort, Hooks!SetupAssumption
<1>1. PICK old \in BOOLEAN :
         /\ hooks = [a \in Agents |-> [p \in Hooks!Homes |-> IF old THEN "stale-path" ELSE "missing"]]
         /\ flags = [p \in Hooks!Homes |-> IF old THEN {"legacy"} ELSE {}]
         /\ script = [p \in Hooks!Places |-> IF old THEN "outdated" ELSE "missing"]
         /\ address = [p \in Hooks!Places |-> IF old THEN Hooks!DefaultPort ELSE 0]
  BY DEF Hooks!Init
<1>2. /\ split \in BOOLEAN /\ up = TRUE /\ remote \in {"none", "older", "same"}
      /\ setup = Hooks!Idle /\ done = "nothing" /\ failed = FALSE /\ refreshed = FALSE
      /\ codex \in CodexTypes /\ saved = Hooks!Fresh
  BY DEF Hooks!Init, Hooks!SetupAssumption, CodexTypes
<1>3. Hooks!Fresh \in Configs
  BY <1>0 DEF Hooks!Fresh, Configs
<1>4. /\ setup.phase = "idle" /\ setup.config = Hooks!Fresh /\ setup.left = {}
      /\ setup.writes = <<>> /\ setup.command = "wizard" /\ setup.gaps = FALSE
  BY <1>2 DEF Hooks!Idle
<1>5. <<>> \in Seq(Writes)
  OBVIOUS
<1>6. setup \in [phase : {"idle", "route", "hooks", "writes"}, command : {"wizard", "cli"},
                 config : Configs, distro : Hooks!Distros, left : SUBSET (Agents \X Hooks!Places),
                 writes : Seq(Writes), gaps : BOOLEAN]
  BY <1>2, <1>3, <1>5 DEF Hooks!Idle
<1>7. HookTypes
  <2>1. /\ hooks \in [Agents -> [Hooks!Homes -> HookStates]]
        /\ script \in [Hooks!Places -> ScriptStates] /\ address \in [Hooks!Places -> Nat]
        /\ flags \in FlagTypes
    BY <1>0, <1>1 DEF HookStates, ScriptStates, FlagTypes
  <2>2. QED
    BY <1>2, <1>3, <1>4, <1>6, <2>1 DEF HookTypes
<1>8. HooksAreServed
  BY <1>1, <1>4 DEF HooksAreServed
<1>9. RunIsPlaced /\ RunIsWhole /\ DoneIsWhole /\ NoneIsOutdated /\ FlagHolds
  BY <1>2, <1>4 DEF RunIsPlaced, RunIsWhole, DoneIsWhole, NoneIsOutdated, FlagHolds, FlagIsPlanned, FlagIsDone
<1>10. QED
  BY <1>7, <1>8, <1>9 DEF HooksInv

\* The record that a step changes a field of.
SetupType == [phase : {"idle", "route", "hooks", "writes"}, command : {"wizard", "cli"},
              config : Configs, distro : Hooks!Distros, left : SUBSET (Agents \X Hooks!Places),
              writes : Seq(Writes), gaps : BOOLEAN]

LEMMA SameRun ==
    ASSUME UNCHANGED <<split, onWindows>>, setup'.command = setup.command,
           setup'.config = setup.config, setup'.distro = setup.distro
    PROVE  /\ Targets(setup.config)' = Targets(setup.config)
           /\ \A a \in Agents : Wanted(setup.config, a)' = Wanted(setup.config, a)
BY DEF Targets, Wanted, Hooks!WindowsKeys

\* As long as nobody touches the flags, the list says enough of them.
LEMMA SameFlags ==
    ASSUME HooksInv, UNCHANGED <<split, remote, codex, flags>>,
           \/ setup'.phase \notin {"hooks", "writes"} \/ setup'.command # "wizard" \/ setup'.gaps
           \/ /\ setup'.command = setup.command /\ setup'.config = setup.config
              /\ setup'.distro = setup.distro /\ setup.phase \in {"hooks", "writes"}
              /\ setup'.left = setup.left /\ setup'.gaps = setup.gaps,
           done' = "nothing" \/ (done' = done /\ saved' = saved)
    PROVE  FlagHolds'
<1>1. \A p : Settled(p)' = Settled(p)
  BY DEF Settled, Hooks!VersionAt, Hooks!Flagged
<1>2. FlagIsPlanned'
  BY <1>1 DEF HooksInv, FlagHolds, FlagIsPlanned, FlagPlace
<1>3. FlagIsDone'
  BY <1>1 DEF HooksInv, FlagHolds, FlagIsDone
<1>4. QED
  BY <1>2, <1>3 DEF FlagHolds

\* Nothing is expected of a command that ended, and of one that just begins.
LEMMA EndedKeeps ==
    ASSUME Hooks!SetupAssumption, HooksInv, setup' = Hooks!Idle,
           UNCHANGED <<split, onWindows, remote, up, codex, hooks, flags, script, address, saved, done>>,
           failed' = TRUE, refreshed' = refreshed, setup.phase # "idle"
    PROVE  HooksInv'
<1>1. /\ setup'.phase = "idle" /\ setup'.left = {} /\ setup'.writes = <<>>
      /\ setup'.command = "wizard" /\ setup'.config = Hooks!Fresh
      /\ done = "nothing"
  BY DEF Hooks!Idle, HooksInv, HookTypes, DoneIsWhole
<1>2. HookTypes'
  <2>1. Hooks!Fresh \in Configs
    BY DEF Hooks!Fresh, Hooks!DefaultPort, Hooks!SetupAssumption, Configs
  <2>2. setup' \in SetupType
    BY <2>1 DEF Hooks!Idle, SetupType, Hooks!Distros
  <2>3. QED
    BY <2>2 DEF HooksInv, HookTypes, SetupType
<1>3. RunIsPlaced' /\ RunIsWhole' /\ DoneIsWhole' /\ HooksAreServed' /\ FlagHolds'
  BY <1>1, SameFlags DEF RunIsPlaced, RunIsWhole, DoneIsWhole, HooksAreServed
<1>4. NoneIsOutdated'
  BY DEF HooksInv, NoneIsOutdated, Hooks!Reachable, Hooks!Checked, Hooks!Place, Hooks!WindowsKeys
<1>5. QED
  BY <1>2, <1>3, <1>4 DEF HooksInv

LEMMA StartKeepsHooks ==
    ASSUME HooksInv, Hooks!StartWizard \/ Hooks!StartInstall
    PROVE  HooksInv'
<1>1. /\ setup.phase = "idle" /\ done' = "nothing"
      /\ UNCHANGED <<split, onWindows, remote, up, codex, hooks, flags, script, address, saved, failed, refreshed>>
  BY DEF Hooks!StartWizard, Hooks!StartInstall, Hooks!Begin, Hooks!world, Hooks!places
<1>2. /\ setup' \in SetupType /\ setup'.left = {} /\ ~setup'.gaps
      /\ \/ setup'.phase = "route" /\ setup'.command = "wizard" /\ setup'.writes = <<>>
         \/ /\ setup'.phase = "writes" /\ setup'.command = "cli" /\ setup'.config = saved
            /\ setup'.writes = Hooks!WritesAt("here")
  <2>1. CASE Hooks!StartWizard
    <3>1. PICK enabled \in SUBSET Agents \ {{}}, distro \in {"first", "other"} :
             setup' = [Hooks!Idle EXCEPT !.phase = "route", !.distro = distro,
                          !.config = [saved EXCEPT !.enabled = enabled, !.home = [a \in Agents |->
                              IF split /\ up /\ a \in enabled THEN distro ELSE @[a]]]]
      BY <2>1 DEF Hooks!StartWizard, Hooks!Begin, Hooks!Distros
    <3> DEFINE config == [saved EXCEPT !.enabled = enabled, !.home = [a \in Agents |->
                              IF split /\ up /\ a \in enabled THEN distro ELSE @[a]]]
    <3>2. config \in Configs
      BY DEF HooksInv, HookTypes, Configs, Hooks!Distros
    <3>3. setup' = [phase |-> "route", command |-> "wizard", config |-> config, distro |-> distro,
                    left |-> {}, writes |-> <<>>, gaps |-> FALSE]
      BY <3>1 DEF Hooks!Idle
    <3> HIDE DEF config
    <3>4. QED
      BY <3>2, <3>3 DEF SetupType, Hooks!Distros
  <2>2. CASE Hooks!StartInstall
    <3>1. setup' = [phase |-> "writes", command |-> "cli", config |-> saved, distro |-> "first",
                    left |-> {}, writes |-> Hooks!WritesAt("here"), gaps |-> FALSE]
      BY <2>2 DEF Hooks!StartInstall, Hooks!Begin, Hooks!Idle
    <3>2. Hooks!WritesAt("here") \in Seq(Writes)
      BY DEF Hooks!WritesAt, Writes, Hooks!Places
    <3>3. QED
      BY <3>1, <3>2 DEF SetupType, Hooks!Distros, HooksInv, HookTypes
  <2>3. QED
    BY <2>1, <2>2
<1>3. HookTypes'
  BY <1>1, <1>2 DEF HooksInv, HookTypes, SetupType
<1>4. RunIsPlaced' /\ DoneIsWhole' /\ FlagHolds'
  BY <1>1, <1>2, SameFlags DEF RunIsPlaced, DoneIsWhole
<1>5. setup'.phase = "writes" => Pending("here", "script")' /\ Pending("here", "address")'
                                 /\ Targets(setup.config)' = {"here"}
  <2> SUFFICES ASSUME setup'.phase = "writes"
               PROVE  Pending("here", "script")' /\ Pending("here", "address")'
                      /\ Targets(setup.config)' = {"here"}
    OBVIOUS
  <2>1. setup'.writes = <<[place |-> "here", what |-> "script"], [place |-> "here", what |-> "address"]>>
        /\ setup'.command = "cli"
    BY <1>2 DEF Hooks!WritesAt
  <2>2. /\ 1 \in DOMAIN setup'.writes /\ setup'.writes[1] = [place |-> "here", what |-> "script"]
        /\ 2 \in DOMAIN setup'.writes /\ setup'.writes[2] = [place |-> "here", what |-> "address"]
    BY <2>1
  <2>3. QED
    BY <2>1, <2>2, Zenon DEF Pending, Targets
<1>6. RunIsWhole'
  BY <1>1, <1>2, <1>5 DEF RunIsWhole, Scripted, Addressed
<1>7. HooksAreServed'
  BY <1>1, <1>2, <1>5 DEF HooksInv, HooksAreServed
<1>8. NoneIsOutdated'
  BY <1>1 DEF HooksInv, NoneIsOutdated, Hooks!Reachable, Hooks!Checked, Hooks!Place, Hooks!WindowsKeys
<1>9. QED
  BY <1>3, <1>4, <1>6, <1>7, <1>8 DEF HooksInv

--------------------------------------------------------------------------------
(* What changes without a command.                                                 *)

LEMMA TrayStartsKeeps == ASSUME HooksInv, Hooks!TrayStarts PROVE HooksInv'
<1>1. /\ UNCHANGED <<split, onWindows, remote, up, codex, hooks, flags, address, saved, setup, done, failed>>
      /\ refreshed' = Hooks!Reachable
      /\ \/ script' = script /\ ~Hooks!Reachable
         \/ script' = [p \in Hooks!Places |-> IF p \in Hooks!Checked /\ script[p] = "outdated"
                                              THEN "current" ELSE script[p]]
  BY DEF Hooks!TrayStarts, Hooks!world
<1>2. /\ script' \in [Hooks!Places -> ScriptStates]
      /\ \A p \in Hooks!Places : /\ script[p] = "current" => script'[p] = "current"
                                 /\ script[p] # "missing" => script'[p] # "missing"
                                 /\ Hooks!Reachable /\ p \in Hooks!Checked => script'[p] # "outdated"
  BY <1>1 DEF HooksInv, HookTypes, ScriptStates
<1>3. Hooks!Reachable' = Hooks!Reachable /\ Hooks!Checked' = Hooks!Checked
  BY <1>1 DEF Hooks!Reachable, Hooks!Checked, Hooks!Place, Hooks!WindowsKeys
<1>4. Hooks!Checked \subseteq Hooks!Places /\ Targets(setup.config) \subseteq Hooks!Places
  BY DEF Hooks!Checked, Hooks!Place, Hooks!Places, Hooks!Distros, Targets, HooksInv, HookTypes
<1>5. HookTypes'
  <2>1. refreshed' \in BOOLEAN
    BY <1>1 DEF Hooks!Reachable
  <2>2. QED
    BY <1>1, <1>2, <2>1 DEF HooksInv, HookTypes
<1>6. RunIsPlaced'
  BY <1>1, SameRun DEF HooksInv, RunIsPlaced
<1>7. \A p \in Hooks!Places, what \in {"script", "address"} : Pending(p, what)' = Pending(p, what)
  BY <1>1 DEF Pending
<1>8. RunIsWhole'
  BY <1>1, <1>2, <1>4, <1>7, SameRun DEF HooksInv, HookTypes, Configs, RunIsWhole, Scripted, Addressed
<1>9. DoneIsWhole'
  BY <1>1, <1>2 DEF HooksInv, DoneIsWhole, Hooks!WindowsKeys, Hooks!Places, Hooks!Distros
<1>10. HooksAreServed'
  BY <1>1, <1>2, <1>4, <1>7, SameRun DEF HooksInv, HooksAreServed, Hooks!Places
<1>11. NoneIsOutdated'
  BY <1>1, <1>2, <1>3, <1>4 DEF HooksInv, NoneIsOutdated
<1>12. FlagHolds'
  BY <1>1 DEF HooksInv, FlagHolds, FlagIsPlanned, FlagIsDone, FlagPlace, Settled, Hooks!VersionAt, Hooks!Flagged
<1>13. QED
  BY <1>5, <1>6, <1>8, <1>9, <1>10, <1>11, <1>12 DEF HooksInv

\* After a change from outside nothing is expected of the command that runs or ended last.
LEMMA ChangeKeeps ==
    ASSUME HooksInv, UNCHANGED <<split, onWindows, remote, up, flags, failed>>, codex' \in CodexTypes,
           setup' = [setup EXCEPT !.gaps = setup.phase # "idle"], done' = "nothing", refreshed' = FALSE,
           hooks' \in [Agents -> [Hooks!Homes -> HookStates]], saved' \in Configs,
           script' \in [Hooks!Places -> ScriptStates], address' \in [Hooks!Places -> Nat],
           \A a \in Agents, p \in Hooks!Places : hooks'[a][p] = "installed" => hooks[a][p] = "installed",
           \A p \in Hooks!Places : script[p] # "missing" => script'[p] # "missing"
    PROVE  HooksInv'
<1>1. /\ setup'.phase = setup.phase /\ setup'.command = setup.command /\ setup'.config = setup.config
      /\ setup'.distro = setup.distro /\ setup'.left = setup.left /\ setup'.writes = setup.writes
      /\ setup'.phase # "idle" => setup'.gaps
      /\ setup' \in SetupType
  BY DEF HooksInv, HookTypes, SetupType
<1>2. HookTypes'
  <2>1. (setup \in SetupType)'
    BY <1>1
  <2>2. /\ split' \in BOOLEAN /\ up' \in BOOLEAN /\ remote' \in {"none", "older", "same"}
        /\ failed' \in BOOLEAN /\ refreshed' \in BOOLEAN
        /\ (~split' => up') /\ flags' \in FlagTypes
    BY DEF HooksInv, HookTypes
  <2>3. QED
    BY <2>1, <2>2 DEF HookTypes, SetupType
<1>3. \A p \in Hooks!Places, what \in {"script", "address"} : Pending(p, what)' = Pending(p, what)
  BY <1>1 DEF Pending
<1>4. Targets(setup.config)' = Targets(setup.config) /\ Targets(setup.config) \subseteq Hooks!Places
  BY <1>1, SameRun DEF Targets, Hooks!Places, Hooks!Distros, HooksInv, HookTypes
<1>5. RunIsPlaced' /\ RunIsWhole' /\ DoneIsWhole' /\ NoneIsOutdated' /\ FlagHolds'
  BY <1>1, <1>4
     DEF HooksInv, RunIsPlaced, RunIsWhole, DoneIsWhole, NoneIsOutdated, FlagHolds, FlagIsPlanned, FlagIsDone
<1>6. HooksAreServed'
  BY <1>1, <1>3, <1>4 DEF HooksInv, HooksAreServed, Hooks!Places
<1>7. QED
  BY <1>2, <1>5, <1>6 DEF HooksInv

LEMMA ChangesKeep ==
    ASSUME Hooks!SetupAssumption, HooksInv,
           \/ Hooks!Upgrade \/ Hooks!AgentRewrites \/ Hooks!CodexUpdates
           \/ Hooks!SettingsChange \/ Hooks!DistroSleeps
    PROVE  HooksInv'
<1>1. CASE Hooks!Upgrade
  <2>1. script' = [p \in Hooks!Places |-> IF script[p] = "current" THEN "outdated" ELSE script[p]]
        /\ UNCHANGED <<up, codex, hooks, flags, address, saved>>
    BY <1>1 DEF Hooks!Upgrade
  <2>2. /\ script' \in [Hooks!Places -> ScriptStates]
        /\ \A p \in Hooks!Places : script[p] # "missing" => script'[p] # "missing"
    BY <2>1 DEF HooksInv, HookTypes, ScriptStates
  <2>3. QED
    BY <1>1, <2>1, <2>2, ChangeKeeps
       DEF Hooks!Upgrade, Hooks!Changes, Hooks!world, HooksInv, HookTypes
<1>2. CASE Hooks!AgentRewrites
  <2>1. PICK a \in Agents, p \in Hooks!Homes, s \in {"missing", "unreadable"} :
           hooks' = [hooks EXCEPT ![a][p] = s]
    <3>1. \A a \in Agents : Hooks!Sides(a) \subseteq Hooks!Homes
      BY DEF Hooks!Sides, Hooks!HomeOf, Hooks!Homes, Hooks!Places, Hooks!Distros, Hooks!Default,
             HooksInv, HookTypes, Configs
    <3>2. QED
      BY <1>2, <3>1 DEF Hooks!AgentRewrites
  <2>2. /\ hooks' \in [Agents -> [Hooks!Homes -> HookStates]]
        /\ \A b \in Agents, q \in Hooks!Homes : hooks'[b][q] = "installed" => hooks[b][q] = "installed"
    BY <2>1 DEF HooksInv, HookTypes, HookStates
  <2>3. /\ UNCHANGED <<up, codex, flags, script, address, saved>>
        /\ \A b \in Agents, q \in Hooks!Places : hooks'[b][q] = "installed" => hooks[b][q] = "installed"
    BY <1>2, <2>2 DEF Hooks!AgentRewrites, Hooks!Homes
  <2>4. QED
    BY <1>2, <2>2, <2>3, ChangeKeeps
       DEF Hooks!AgentRewrites, Hooks!Changes, Hooks!world, HooksInv, HookTypes
<1>3. CASE Hooks!SettingsChange
  <2>1. PICK a \in Agents, number \in Ports :
           \E home \in {saved.home[a], "elsewhere"} :
              saved' = [saved EXCEPT !.enabled = @ \cup {a}, !.port = number, !.home[a] = home]
    BY <1>3 DEF Hooks!SettingsChange
  <2>2. saved' \in Configs
    <3> DEFINE homes == {Hooks!Default, "elsewhere"} \cup Hooks!Distros
    <3>1. PICK home \in {saved.home[a], "elsewhere"} :
             saved' = [saved EXCEPT !.enabled = @ \cup {a}, !.port = number, !.home[a] = home]
      BY <2>1
    <3>2. saved \in [enabled : SUBSET Agents, home : [Agents -> homes], port : Nat]
      BY DEF HooksInv, HookTypes, Configs
    <3>3. "elsewhere" \in homes
      OBVIOUS
    <3> HIDE DEF homes
    <3>4. home \in homes
      BY <3>2, <3>3
    <3>5. saved.home \in [Agents -> homes]
      BY <3>2
    <3>6. [saved.home EXCEPT ![a] = home] \in [Agents -> homes]
      BY <3>4, <3>5
    <3>7. saved' = [enabled |-> saved.enabled \cup {a}, home |-> [saved.home EXCEPT ![a] = home], port |-> number]
      BY <3>1, <3>2
    <3>8. number \in Nat
      BY DEF Hooks!SetupAssumption
    <3>9. saved' \in [enabled : SUBSET Agents, home : [Agents -> homes], port : Nat]
      BY <3>2, <3>6, <3>7, <3>8
    <3>10. QED
      BY <3>9 DEF Configs, homes
  <2>3. UNCHANGED <<up, codex, hooks, flags, script, address>>
    BY <1>3 DEF Hooks!SettingsChange, Hooks!places
  <2>4. QED
    BY <1>3, <2>2, <2>3, ChangeKeeps
       DEF Hooks!SettingsChange, Hooks!Changes, Hooks!world, HooksInv, HookTypes
<1>4. CASE Hooks!DistroSleeps
  <2>1. /\ split /\ up' = ~up /\ refreshed' = FALSE
        /\ UNCHANGED <<split, onWindows, remote, codex, hooks, flags, script, address, saved, setup, done, failed>>
    BY <1>4 DEF Hooks!DistroSleeps, Hooks!world, Hooks!places
  <2>2. HookTypes'
    BY <2>1 DEF HooksInv, HookTypes
  <2>3. RunIsPlaced'
    BY <2>1, SameRun DEF HooksInv, RunIsPlaced
  <2>4. \A p \in Hooks!Places, what \in {"script", "address"} : Pending(p, what)' = Pending(p, what)
    BY <2>1 DEF Pending
  <2>5. Targets(setup.config) \subseteq Hooks!Places
    BY DEF Targets, Hooks!Places, Hooks!Distros, HooksInv, HookTypes
  <2>6. RunIsWhole'
    BY <2>1, <2>4, <2>5, SameRun DEF HooksInv, HookTypes, Configs, RunIsWhole, Scripted, Addressed
  <2>7. DoneIsWhole' /\ NoneIsOutdated'
    BY <2>1 DEF HooksInv, DoneIsWhole, Hooks!WindowsKeys, NoneIsOutdated
  <2>8. HooksAreServed'
    BY <2>1, <2>4, <2>5, SameRun DEF HooksInv, HooksAreServed
  <2>9. FlagHolds'
    BY <2>1 DEF HooksInv, FlagHolds, FlagIsPlanned, FlagIsDone, FlagPlace, Settled, Hooks!VersionAt, Hooks!Flagged
  <2>10. QED
    BY <2>2, <2>3, <2>6, <2>7, <2>8, <2>9 DEF HooksInv
<1>5. CASE Hooks!CodexUpdates
  <2>1. codex' \in CodexTypes /\ UNCHANGED <<up, hooks, flags, script, address, saved>>
    BY <1>5 DEF Hooks!CodexUpdates, Hooks!SetupAssumption, CodexTypes
  <2>2. QED
    BY <1>5, <2>1, ChangeKeeps DEF Hooks!CodexUpdates, Hooks!Changes, Hooks!world, HooksInv, HookTypes
<1>6. QED
  BY <1>1, <1>2, <1>3, <1>4, <1>5

--------------------------------------------------------------------------------
(* The steps of a command.                                                         *)

LEMMA RouteKeeps == ASSUME Hooks!SetupAssumption, HooksInv, Hooks!Route PROVE HooksInv'
<1> DEFINE d == setup.distro
           enabled == setup.config.enabled
           windows == Hooks!WindowsKeys(enabled) \X {"here"}
<1>1. /\ setup.phase = "route" /\ setup.command = "wizard"
      /\ refreshed' = (refreshed /\ remote # "older")
      /\ UNCHANGED <<split, onWindows, remote, up, codex, saved, events, failed, done>>
      /\ setup \in SetupType /\ d \in Hooks!Distros /\ enabled \subseteq Agents
      /\ done = "nothing" /\ (~split => up)
  BY DEF Hooks!Route, Hooks!world, Hooks!places, HooksInv, RunIsPlaced, HookTypes, SetupType, DoneIsWhole, Configs
<1>2. ASSUME NEW left \in SUBSET (Agents \X Hooks!Places), NEW gaps \in BOOLEAN,
             setup' = [setup EXCEPT !.phase = "hooks", !.left = left, !.gaps = @ \/ gaps],
             \A q \in left : q[2] \in Targets(setup.config),
             hooks' \in [Agents -> [Hooks!Homes -> HookStates]],
             script' \in [Hooks!Places -> ScriptStates], address' \in [Hooks!Places -> Nat],
             flags' \in FlagTypes,
             ~gaps /\ remote # "older" => \A a \in enabled : \A s \in Wanted(setup.config, a) :
                         hooks'[a][s] = "installed" \/ <<a, s>> \in left,
             ~gaps /\ remote = "none" /\ "codex" \in enabled => <<"codex", FlagPlace>> \in left,
             \A a \in Agents, p \in Hooks!Places : hooks'[a][p] = "installed" =>
                hooks[a][p] = "installed" \/ script'[p] # "missing",
             \A p \in Hooks!Places : script[p] # "missing" => script'[p] # "missing",
             remote # "older" => \A p \in Hooks!Places : script'[p] = "outdated" => script[p] = "outdated"
      PROVE  HooksInv'
  <2>1. /\ setup'.phase = "hooks" /\ setup'.command = setup.command /\ setup'.config = setup.config
        /\ setup'.distro = setup.distro /\ setup'.left = left /\ setup'.writes = setup.writes
        /\ ~setup'.gaps => ~gaps
        /\ setup' \in SetupType
    BY <1>1, <1>2 DEF SetupType
  <2>2. HookTypes'
    <3>1. refreshed' \in BOOLEAN
      BY <1>1
    <3>2. QED
      BY <1>1, <1>2, <2>1, <3>1 DEF HooksInv, HookTypes, SetupType
  <2>3. /\ Targets(setup.config)' = Targets(setup.config)
        /\ \A a \in Agents : Wanted(setup.config, a)' = Wanted(setup.config, a)
    BY <1>1, <2>1, SameRun
  <2>4. setup'.writes = <<>>
    BY <1>1, <2>1 DEF HooksInv, RunIsPlaced
  <2>5. RunIsPlaced' /\ RunIsWhole' /\ DoneIsWhole'
    BY <1>1, <1>2, <2>1, <2>3, <2>4 DEF RunIsPlaced, RunIsWhole, DoneIsWhole
  <2>6. HooksAreServed'
    BY <1>1, <1>2, <2>1 DEF HooksInv, HooksAreServed
  <2>7. NoneIsOutdated'
    <3>1. Hooks!Checked \subseteq Hooks!Places
      BY DEF Hooks!Checked, Hooks!Place, Hooks!Places, Hooks!Distros
    <3>2. Hooks!Checked' = Hooks!Checked /\ Hooks!Reachable' = Hooks!Reachable
      BY <1>1 DEF Hooks!Checked, Hooks!Place, Hooks!WindowsKeys, Hooks!Reachable
    <3>3. refreshed' => refreshed /\ remote # "older"
      BY <1>1
    <3>4. QED
      BY <1>2, <3>1, <3>2, <3>3 DEF HooksInv, NoneIsOutdated
  <2>8. FlagHolds'
    BY <1>1, <1>2, <2>1 DEF FlagHolds, FlagIsPlanned, FlagIsDone, FlagPlace
  <2>9. QED
    BY <2>2, <2>5, <2>6, <2>7, <2>8 DEF HooksInv
<1>3. /\ windows \in SUBSET (Agents \X Hooks!Places)
      /\ \A q \in windows : q[2] = "here" /\ Hooks!WindowsKeys(enabled) # {}
      /\ \A a \in Hooks!WindowsKeys(enabled) : <<a, "here">> \in windows
  BY <1>1 DEF Hooks!WindowsKeys, Hooks!Places
<1>4. /\ hooks \in [Agents -> [Hooks!Homes -> HookStates]]
      /\ script \in [Hooks!Places -> ScriptStates] /\ address \in [Hooks!Places -> Nat]
      /\ flags \in FlagTypes
  BY DEF HooksInv, HookTypes
<1>5. CASE ~split /\ UNCHANGED <<hooks, flags, script, address>>
           /\ setup' = [setup EXCEPT !.phase = "hooks", !.left = enabled \X {"here"}, !.gaps = @ \/ FALSE]
  <2> DEFINE left == enabled \X {"here"}
  <2>1. /\ left \in SUBSET (Agents \X Hooks!Places) /\ \A q \in left : q[2] \in Targets(setup.config)
        /\ \A a \in enabled : \A s \in Wanted(setup.config, a) : <<a, s>> \in left
        /\ "codex" \in enabled => <<"codex", FlagPlace>> \in left
    BY <1>1, <1>5 DEF Hooks!Places, Targets, Wanted, FlagPlace
  <2>2. setup' = [setup EXCEPT !.phase = "hooks", !.left = left, !.gaps = @ \/ FALSE]
    BY <1>5
  <2> HIDE DEF left
  <2>3. QED
    BY <1>2, <1>4, <1>5, <2>1, <2>2
<1>6. CASE split /\ UNCHANGED <<hooks, flags, script, address>>
           /\ setup' = [setup EXCEPT !.phase = "hooks", !.left = windows, !.gaps = @ \/ TRUE]
  <2>1. \A q \in windows : q[2] \in Targets(setup.config)
    BY <1>3, <1>6, <1>1 DEF Targets
  <2> HIDE DEF windows
  <2>2. QED
    BY <1>2, <1>3, <1>4, <1>6, <2>1
<1>7. CASE split /\ UNCHANGED <<hooks, flags, script, address>>
           /\ setup' = [setup EXCEPT !.phase = "hooks", !.left = enabled \X {d} \cup windows, !.gaps = @ \/ FALSE]
  <2> DEFINE left == enabled \X {d} \cup windows
  <2>1. /\ left \in SUBSET (Agents \X Hooks!Places)
        /\ \A q \in left : q[2] \in Targets(setup.config)
        /\ \A a \in enabled : \A s \in Wanted(setup.config, a) : <<a, s>> \in left
        /\ "codex" \in enabled => <<"codex", FlagPlace>> \in left
    BY <1>1, <1>3, <1>7 DEF Hooks!Places, Targets, Wanted, FlagPlace
  <2>2. setup' = [setup EXCEPT !.phase = "hooks", !.left = left, !.gaps = @ \/ FALSE]
    BY <1>7
  <2> HIDE DEF left
  <2>3. QED
    BY <1>2, <1>4, <1>7, <2>1, <2>2
<1>8. ASSUME split, remote # "none", NEW failing \in SUBSET enabled, Hooks!RemoteInstall(d, enabled, failing),
             setup' = [setup EXCEPT !.phase = "hooks", !.left = windows, !.gaps = @ \/ (failing # {})]
      PROVE  HooksInv'
  <2> DEFINE gaps == failing # {}
             wrote == {a \in enabled \ failing : hooks[a][d] # "installed"}
  <2>1. d \in Hooks!Places /\ d \in Hooks!Homes
    BY <1>1 DEF Hooks!Places, Hooks!Homes
  <2>2. \/ /\ script' = [script EXCEPT ![d] = IF remote = "older" THEN "outdated" ELSE "current"]
           /\ address' = [address EXCEPT ![d] = Hooks!DefaultPort]
        \/ failing = enabled /\ UNCHANGED <<script, address>>
    BY <1>8 DEF Hooks!RemoteInstall
  <2>3. /\ script' \in [Hooks!Places -> ScriptStates] /\ (wrote # {} => script'[d] # "missing")
        /\ \A p \in Hooks!Places : script[p] # "missing" => script'[p] # "missing"
        /\ remote # "older" => \A p \in Hooks!Places : script'[p] = "outdated" => script[p] = "outdated"
    BY <1>1, <1>4, <2>1, <2>2 DEF ScriptStates
  <2>4. address' \in [Hooks!Places -> Nat]
    BY <1>4, <2>1, <2>2 DEF Hooks!SetupAssumption, Hooks!DefaultPort
  <2>5. PICK status \in {"installed", "partial"} :
           /\ remote # "older" => status = "installed"
           /\ hooks' = [a \in Agents |-> [hooks[a] EXCEPT ![d] = IF a \in wrote THEN status ELSE @]]
    BY <1>8 DEF Hooks!RemoteInstall
  <2>6. /\ hooks' \in [Agents -> [Hooks!Homes -> HookStates]]
        /\ \A a \in Agents, p \in Hooks!Homes : hooks'[a][p] = hooks[a][p] \/ (p = d /\ wrote # {})
        /\ ~gaps /\ remote # "older" => \A a \in enabled : hooks'[a][d] = "installed"
    BY <1>1, <1>4, <2>1, <2>5 DEF HookStates
  <2>7. flags' \in FlagTypes
    <3>1. codex.distro \in Hooks!Ages
      BY DEF HooksInv, HookTypes, CodexTypes
    <3>2. \A on \in SUBSET {"legacy", "modern"} :
             /\ Hooks!Flagged(codex.distro, on) \in SUBSET {"legacy", "modern"}
             /\ on \cup {"legacy"} \in SUBSET {"legacy", "modern"}
      BY <3>1 DEF Hooks!Flagged, Hooks!Ages
    <3>3. \/ flags' = flags
          \/ flags' = [flags EXCEPT ![d] = flags[d] \cup {"legacy"}]
          \/ flags' = [flags EXCEPT ![d] = Hooks!Flagged(codex.distro, flags[d])]
      BY <1>8 DEF Hooks!RemoteInstall
    <3>4. QED
      BY <1>4, <2>1, <3>2, <3>3 DEF FlagTypes
  <2>8. \A q \in windows : q[2] \in Targets(setup.config)
    BY <1>1, <1>3, <1>8 DEF Targets
  <2>9. ~gaps /\ remote # "older" => \A a \in enabled : \A s \in Wanted(setup.config, a) :
                    hooks'[a][s] = "installed" \/ <<a, s>> \in windows
    BY <1>1, <1>3, <1>8, <2>6 DEF Wanted
  <2>10. \A a \in Agents, p \in Hooks!Places : hooks'[a][p] = "installed" =>
            hooks[a][p] = "installed" \/ script'[p] # "missing"
    BY <2>3, <2>6 DEF Hooks!Homes
  <2>11. gaps \in BOOLEAN /\ setup' = [setup EXCEPT !.phase = "hooks", !.left = windows, !.gaps = @ \/ gaps]
    BY <1>8
  <2> HIDE DEF gaps, windows, wrote
  <2>12. QED
    BY ZenonT(30), <1>2, <1>3, <1>8, <2>3, <2>4, <2>6, <2>7, <2>8, <2>9, <2>10, <2>11
<1>9. QED
  BY <1>5, <1>6, <1>7, <1>8 DEF Hooks!Route, Hooks!places

LEMMA OfferKeeps == ASSUME HooksInv, Hooks!Offer PROVE HooksInv'
<1>1. /\ setup.phase = "hooks"
      /\ UNCHANGED <<split, onWindows, remote, up, codex, script, address, saved, done, refreshed>>
      /\ setup \in SetupType /\ done = "nothing" /\ codex \in CodexTypes /\ flags \in FlagTypes
      /\ hooks \in [Agents -> [Hooks!Homes -> HookStates]] /\ failed \in BOOLEAN
  BY DEF Hooks!Offer, Hooks!world, HooksInv, HookTypes, SetupType, DoneIsWhole
<1> DEFINE Broken(q) == hooks[q[1]][q[2]] = "unreadable"
           Asked(q, writes) == q[1] = "codex" /\ ~Broken(q) /\ (writes \/ setup.command = "wizard")
           Spoken(q) == Hooks!VersionAt(q[2])
           Gap(q, writes) == \/ hooks'[q[1]][q[2]] # "installed"
                             \/ /\ Asked(q, writes)
                                /\ Hooks!Flagged(Spoken(q), flags'[q[2]]) # flags'[q[2]]
<1>2. PICK q \in setup.left, writes \in BOOLEAN :
         /\ writes => hooks[q[1]][q[2]] \in Hooks!NeedsInstall
         /\ hooks' = IF writes THEN [hooks EXCEPT ![q[1]][q[2]] = "installed"] ELSE hooks
         /\ flags' \in {flags} \cup (IF Asked(q, writes)
                                     THEN {[flags EXCEPT ![q[2]] = Hooks!Flagged(Spoken(q), flags[q[2]])]} ELSE {})
         /\ setup' = [setup EXCEPT !.left = @ \ {q}, !.gaps = @ \/ Gap(q, writes)]
         /\ failed' = (failed \/ (Broken(q) /\ setup.command = "cli"))
  BY DEF Hooks!Offer
<1>3. /\ q \in Agents \X Hooks!Places /\ q[1] \in Agents /\ q[2] \in Hooks!Places /\ q = <<q[1], q[2]>>
      /\ q[2] \in Targets(setup.config) /\ q[2] \in Hooks!Homes
  BY <1>1, <1>2 DEF SetupType, HooksInv, RunIsPlaced, Hooks!Homes
<1> DEFINE gap == Gap(q, writes)
<1>4. gap \in BOOLEAN /\ setup' = [setup EXCEPT !.left = @ \ {q}, !.gaps = @ \/ gap]
  BY <1>2
<1>5. hooks' = hooks \/ hooks' = [hooks EXCEPT ![q[1]][q[2]] = "installed"]
  BY <1>2
<1>6. \/ flags' = flags
      \/ q[1] = "codex" /\ flags' = [flags EXCEPT ![q[2]] = Hooks!Flagged(Spoken(q), flags[q[2]])]
  BY <1>2
<1>7. ~gap => /\ hooks'[q[1]][q[2]] = "installed"
              /\ q[1] = "codex" /\ setup.command = "wizard" =>
                    Hooks!Flagged(Spoken(q), flags'[q[2]]) = flags'[q[2]]
  <2> SUFFICES ASSUME ~gap
               PROVE  /\ hooks'[q[1]][q[2]] = "installed"
                      /\ q[1] = "codex" /\ setup.command = "wizard" =>
                            Hooks!Flagged(Spoken(q), flags'[q[2]]) = flags'[q[2]]
    OBVIOUS
  <2>1. hooks'[q[1]][q[2]] = "installed"
    OBVIOUS
  <2>2. ~Broken(q)
    BY <1>2, <2>1 DEF Hooks!NeedsInstall
  <2>3. QED
    BY <2>1, <2>2
<1> HIDE DEF gap
<1>8. /\ setup' \in SetupType /\ setup'.left = setup.left \ {q}
      /\ setup'.phase = "hooks" /\ setup'.command = setup.command /\ setup'.config = setup.config
      /\ setup'.distro = setup.distro /\ setup'.writes = setup.writes
      /\ ~setup'.gaps => ~setup.gaps /\ ~gap
  BY ZenonT(30), <1>1, <1>4 DEF SetupType
<1>9. /\ hooks' \in [Agents -> [Hooks!Homes -> HookStates]]
      /\ \A a \in Agents, p \in Hooks!Homes :
            /\ hooks[a][p] = "installed" => hooks'[a][p] = "installed"
            /\ hooks'[a][p] = "installed" => hooks[a][p] = "installed" \/ p = q[2]
  BY <1>1, <1>3, <1>5 DEF HookStates
<1>10. /\ failed' \in BOOLEAN /\ (~failed' => ~failed)
       /\ \A p \in Hooks!Places : p \in Hooks!Homes
  BY <1>1, <1>2 DEF Hooks!Homes
<1>11. /\ flags' \in FlagTypes
       /\ \A p \in Hooks!Places : flags'[p] = flags[p] \/ (q[1] = "codex" /\ p = q[2])
  <2>1. Spoken(q) \in Hooks!Ages
    BY <1>1 DEF Hooks!VersionAt, CodexTypes
  <2>2. flags[q[2]] \in SUBSET {"legacy", "modern"}
    BY <1>1, <1>3 DEF FlagTypes
  <2>3. Hooks!Flagged(Spoken(q), flags[q[2]]) \in SUBSET {"legacy", "modern"}
    BY <2>1, <2>2 DEF Hooks!Flagged, Hooks!Ages
  <2>4. QED
    BY <1>1, <1>3, <1>6, <1>10, <2>3 DEF FlagTypes
<1>12. HookTypes'
  BY <1>1, <1>8, <1>9, <1>10, <1>11 DEF HooksInv, HookTypes, SetupType
<1>13. /\ Targets(setup.config)' = Targets(setup.config)
       /\ \A a \in Agents : Wanted(setup.config, a)' = Wanted(setup.config, a)
       /\ Targets(setup.config) \subseteq Hooks!Places
       /\ \A a \in Agents : Wanted(setup.config, a) \subseteq Hooks!Places
       /\ setup.config.enabled \subseteq Agents
  BY <1>1, <1>8, SameRun DEF Targets, Wanted, Hooks!Places, SetupType, Configs
<1>14. \A p \in Hooks!Places, what \in {"script", "address"} : Pending(p, what)' = Pending(p, what)
  BY <1>8 DEF Pending
<1>15. RunIsPlaced'
  BY <1>1, <1>8, <1>13 DEF HooksInv, RunIsPlaced
<1>16. RunIsWhole'
  <2> SUFFICES ASSUME ~setup'.gaps PROVE RunIsWhole'
    BY DEF RunIsWhole
  <2>1. \A a \in Agents, p \in Hooks!Places :
           hooks[a][p] = "installed" \/ <<a, p>> \in setup.left
              => hooks'[a][p] = "installed" \/ <<a, p>> \in setup'.left
    BY <1>3, <1>7, <1>8, <1>9, <1>10
  <2>2. remote # "older" => \A a \in setup.config.enabled : \A s \in Wanted(setup.config, a) :
           hooks[a][s] = "installed" \/ <<a, s>> \in setup.left
    BY <1>1, <1>8 DEF HooksInv, RunIsWhole
  <2>3. remote # "older" => \A a \in setup'.config.enabled : \A s \in Wanted(setup.config, a)' :
           hooks'[a][s] = "installed" \/ <<a, s>> \in setup'.left
    BY <1>8, <1>13, <2>1, <2>2
  <2>4. /\ setup.command = "cli" => saved = setup.config
        /\ setup.command = "cli" => \A p \in Targets(setup.config) : Scripted(p) /\ Addressed(p)
    BY <1>1, <1>8 DEF HooksInv, RunIsWhole
  <2>5. \A p \in Targets(setup.config) : (Scripted(p) => Scripted(p)') /\ (Addressed(p) => Addressed(p)')
    BY <1>1, <1>8, <1>13, <1>14 DEF Scripted, Addressed
  <2>6. QED
    BY <1>1, <1>8, <1>13, <2>3, <2>4, <2>5 DEF RunIsWhole
<1>17. DoneIsWhole'
  BY <1>1 DEF DoneIsWhole
<1>18. FlagHolds'
  <2>1. FlagIsPlanned'
    <3> SUFFICES ASSUME setup'.command = "wizard", ~setup'.gaps, remote' = "none",
                        "codex" \in setup'.config.enabled
                 PROVE  Settled(FlagPlace)' \/ <<"codex", FlagPlace'>> \in setup'.left
      BY <1>8 DEF FlagIsPlanned
    <3>1. FlagPlace' = FlagPlace /\ FlagPlace \in Hooks!Places
      BY <1>1, <1>8 DEF FlagPlace, SetupType, Hooks!Places
    <3>2. Settled(FlagPlace) \/ <<"codex", FlagPlace>> \in setup.left
      BY <1>1, <1>8 DEF HooksInv, FlagHolds, FlagIsPlanned
    <3>3. \A p \in Hooks!Places : Hooks!VersionAt(p)' = Hooks!VersionAt(p)
      BY <1>1 DEF Hooks!VersionAt
    <3>4. CASE q = <<"codex", FlagPlace>>
      BY <1>7, <1>8, <3>1, <3>3, <3>4 DEF Settled, Hooks!Flagged
    <3>5. CASE q # <<"codex", FlagPlace>>
      <4>1. flags'[FlagPlace] = flags[FlagPlace]
        BY <1>3, <1>11, <3>1, <3>5
      <4>2. QED
        BY <1>8, <3>1, <3>2, <3>3, <3>5, <4>1 DEF Settled, Hooks!Flagged
    <3>6. QED
      BY <3>4, <3>5
  <2>2. QED
    BY <1>1, <2>1 DEF FlagHolds, FlagIsDone
<1>19. HooksAreServed'
  <2> SUFFICES ASSUME ~failed' PROVE HooksAreServed'
    BY DEF HooksAreServed
  <2>1. setup.command = "cli" => script["here"] # "missing" /\ Targets(setup.config) = {"here"}
    BY <1>1, <1>10 DEF HooksInv, HooksAreServed, Targets
  <2>2. setup.command \in {"cli", "wizard"}
    BY <1>1 DEF SetupType
  <2>3. QED
    BY <1>1, <1>3, <1>8, <1>9, <1>10, <1>13, <2>1, <2>2 DEF HooksInv, HooksAreServed
<1>20. NoneIsOutdated'
  BY <1>1 DEF HooksInv, NoneIsOutdated, Hooks!Reachable, Hooks!Checked, Hooks!Place, Hooks!WindowsKeys
<1>21. QED
  BY <1>12, <1>15, <1>16, <1>17, <1>18, <1>19, <1>20 DEF HooksInv

LEMMA TwoAndTwo ==
    ASSUME NEW S, NEW a \in S, NEW b \in S, NEW c \in S, NEW e \in S
    PROVE  /\ <<a, b>> \o <<c, e>> = <<a, b, c, e>> /\ <<a, b>> \o <<>> = <<a, b>>
           /\ <<a, b>> \in Seq(S) /\ <<a, b, c, e>> \in Seq(S)
<1>1. <<a, b>> \in Seq(S) /\ <<c, e>> \in Seq(S) /\ <<a, b, c, e>> \in Seq(S)
  OBVIOUS
<1>2. <<a, b>> \o <<>> = <<a, b>>
  BY <1>1
<1> DEFINE s == <<a, b>> \o <<c, e>>
<1>3. s \in Seq(S) /\ Len(s) = 4
  BY <1>1
<1>4. s[1] = a /\ s[2] = b /\ s[3] = c /\ s[4] = e
  BY <1>1
<1> HIDE DEF s
<1>5. s = <<a, b, c, e>>
  BY <1>3, <1>4
<1>6. QED
  BY <1>1, <1>2, <1>5 DEF s

\* What the wizard's save puts on the list.
Listed(d, more) == Hooks!WritesAt(d) \o (IF more THEN Hooks!WritesAt("here") ELSE <<>>)

LEMMA PutsOnTheList ==
    ASSUME NEW d \in Hooks!Places, NEW more \in BOOLEAN
    PROVE  /\ Listed(d, more) \in Seq(Writes)
           /\ \A p \in {d} \cup (IF more THEN {"here"} ELSE {}) :
                 /\ \E i \in DOMAIN Listed(d, more) : Listed(d, more)[i] = [place |-> p, what |-> "script"]
                 /\ \E i \in DOMAIN Listed(d, more) : Listed(d, more)[i] = [place |-> p, what |-> "address"]
<1> DEFINE list == Listed(d, more)
<1> DEFINE One(p) == [place |-> p, what |-> "script"]
           Two(p) == [place |-> p, what |-> "address"]
<1>1. One(d) \in Writes /\ Two(d) \in Writes /\ One("here") \in Writes /\ Two("here") \in Writes
  BY DEF Writes, Hooks!Places
<1>2. Hooks!WritesAt(d) = <<One(d), Two(d)>> /\ Hooks!WritesAt("here") = <<One("here"), Two("here")>>
  BY DEF Hooks!WritesAt
<1>0. list = Hooks!WritesAt(d) \o (IF more THEN Hooks!WritesAt("here") ELSE <<>>)
  BY DEF Listed
<1> HIDE DEF One, Two, list
<1>3. /\ list = IF more THEN <<One(d), Two(d), One("here"), Two("here")>> ELSE <<One(d), Two(d)>>
      /\ <<One(d), Two(d)>> \in Seq(Writes) /\ <<One(d), Two(d), One("here"), Two("here")>> \in Seq(Writes)
  <2>1. /\ <<One(d), Two(d)>> \o <<One("here"), Two("here")>> = <<One(d), Two(d), One("here"), Two("here")>>
        /\ <<One(d), Two(d)>> \o <<>> = <<One(d), Two(d)>>
        /\ <<One(d), Two(d)>> \in Seq(Writes)
        /\ <<One(d), Two(d), One("here"), Two("here")>> \in Seq(Writes)
    BY <1>1, TwoAndTwo
  <2>2. CASE more
    BY <1>0, <1>2, <2>1, <2>2, Zenon
  <2>3. CASE ~more
    BY <1>0, <1>2, <2>1, <2>3, Zenon
  <2>4. QED
    BY <2>2, <2>3
<1>4. list \in Seq(Writes)
  BY <1>3, Zenon
<1>5. /\ 1 \in DOMAIN list /\ 2 \in DOMAIN list /\ list[1] = One(d) /\ list[2] = Two(d)
      /\ more => 3 \in DOMAIN list /\ 4 \in DOMAIN list /\ list[3] = One("here") /\ list[4] = Two("here")
  BY <1>3
<1>6. \A p \in {d} \cup (IF more THEN {"here"} ELSE {}) :
         /\ \E i \in DOMAIN list : list[i] = One(p)
         /\ \E i \in DOMAIN list : list[i] = Two(p)
  BY <1>5
<1>7. QED
  BY <1>4, <1>6 DEF One, Two, list

LEMMA SaveKeepsHooks == ASSUME HooksInv, Hooks!Save PROVE HooksInv'
<1> DEFINE more == split /\ Hooks!WindowsKeys(setup.config.enabled) # {}
           d == IF split THEN setup.distro ELSE "here"
<1>1. /\ setup.phase = "hooks" /\ setup.left = {} /\ setup.command = "wizard"
      /\ saved' = setup.config /\ refreshed' = FALSE
      /\ UNCHANGED <<split, onWindows, remote, up, codex, hooks, flags, script, address, failed, done>>
      /\ setup \in SetupType /\ done = "nothing"
  BY DEF Hooks!Save, Hooks!world, Hooks!places, HooksInv, HookTypes, SetupType, DoneIsWhole
<1>2. setup' = [setup EXCEPT !.phase = "writes", !.writes = Listed(d, more)]
  <2>1. Hooks!WritesAt(d) \o <<>> = Hooks!WritesAt(d)
    BY DEF Hooks!WritesAt
  <2>2. QED
    BY <2>1 DEF Hooks!Save, Listed
<1>3. d \in Hooks!Places /\ more \in BOOLEAN
  BY <1>1 DEF SetupType, Hooks!Places
<1>4. Targets(setup.config) = {d} \cup (IF more THEN {"here"} ELSE {})
  BY <1>1 DEF Targets
<1> HIDE DEF d, more
<1>5. /\ setup' \in SetupType
      /\ setup'.phase = "writes" /\ setup'.left = {} /\ setup'.command = "wizard"
      /\ setup'.config = setup.config /\ setup'.distro = setup.distro /\ setup'.gaps = setup.gaps
  <2> DEFINE list == Listed(d, more)
  <2>1. list \in Seq(Writes)
    BY <1>3, PutsOnTheList
  <2>2. setup' = [setup EXCEPT !.phase = "writes", !.writes = list]
    BY <1>2
  <2> HIDE DEF list
  <2>3. QED
    BY <1>1, <2>1, <2>2 DEF SetupType
<1>6. /\ Targets(setup.config)' = Targets(setup.config)
      /\ \A a \in Agents : Wanted(setup.config, a)' = Wanted(setup.config, a)
      /\ setup.config.enabled \subseteq Agents
  BY <1>1, <1>5, SameRun DEF SetupType, Configs
<1>7. \A p \in Targets(setup.config) : Pending(p, "script")' /\ Pending(p, "address")'
  <2> DEFINE list == Listed(d, more)
  <2>1. \A p \in Targets(setup.config) :
           /\ \E i \in DOMAIN list : list[i] = [place |-> p, what |-> "script"]
           /\ \E i \in DOMAIN list : list[i] = [place |-> p, what |-> "address"]
    BY <1>3, <1>4, PutsOnTheList
  <2>2. setup' = [setup EXCEPT !.phase = "writes", !.writes = list]
    BY <1>2
  <2> HIDE DEF list
  <2>3. setup'.writes = list
    BY <1>1, <2>2 DEF SetupType
  <2>4. QED
    BY <2>1, <2>3 DEF Pending
<1>8. HookTypes'
  BY <1>1, <1>5 DEF HooksInv, HookTypes, SetupType
<1>9. RunIsPlaced' /\ DoneIsWhole' /\ NoneIsOutdated' /\ FlagHolds'
  BY <1>1, <1>5, SameFlags DEF RunIsPlaced, DoneIsWhole, NoneIsOutdated
<1>10. RunIsWhole'
  BY <1>1, <1>5, <1>6, <1>7 DEF HooksInv, RunIsWhole, Scripted, Addressed
<1>11. HooksAreServed'
  BY <1>1, <1>5, <1>6, <1>7 DEF HooksInv, HooksAreServed
<1>12. QED
  BY <1>8, <1>9, <1>10, <1>11 DEF HooksInv

\* What is not the head stays on the list.
LEMMA StaysOnTheList ==
    ASSUME NEW S, NEW s \in Seq(S), s # <<>>, NEW e, NEW i \in DOMAIN s, s[i] = e
    PROVE  Head(s) = e \/ \E j \in DOMAIN Tail(s) : Tail(s)[j] = e
<1>1. CASE i = 1
  BY <1>1
<1>2. CASE i # 1
  <2>1. i - 1 \in DOMAIN Tail(s) /\ Tail(s)[i - 1] = s[i]
    BY <1>2
  <2>2. QED
    BY <2>1
<1>3. QED
  BY <1>1, <1>2

LEMMA WriteKeeps == ASSUME HooksInv, Hooks!Write PROVE HooksInv'
<1> DEFINE w == Head(setup.writes)
<1>1. /\ setup.phase = "writes" /\ setup.writes # <<>>
      /\ script' = IF w.what = "script" THEN [script EXCEPT ![w.place] = "current"] ELSE script
      /\ address' = IF w.what = "address" THEN [address EXCEPT ![w.place] = setup.config.port] ELSE address
      /\ setup' = [setup EXCEPT !.writes = Tail(@)]
      /\ UNCHANGED <<split, onWindows, remote, up, codex, hooks, flags, saved, events, failed, refreshed, done>>
      /\ setup \in SetupType /\ done = "nothing"
      /\ script \in [Hooks!Places -> ScriptStates] /\ address \in [Hooks!Places -> Nat]
  BY DEF Hooks!Write, Hooks!world, Hooks!counts, HooksInv, HookTypes, SetupType, DoneIsWhole
<1>2. setup.writes \in Seq(Writes) /\ w \in Writes /\ Tail(setup.writes) \in Seq(Writes)
  <2>1. setup.writes \in Seq(Writes)
    BY <1>1 DEF SetupType
  <2>2. QED
    BY <1>1, <2>1
<1>3. w.place \in Hooks!Places /\ w = [place |-> w.place, what |-> w.what]
  BY <1>2 DEF Writes
<1>4. \A p \in Hooks!Places, what \in {"script", "address"} :
         Pending(p, what) => Pending(p, what)' \/ (w.place = p /\ w.what = what)
  <2> SUFFICES ASSUME NEW p \in Hooks!Places, NEW what \in {"script", "address"}, Pending(p, what)
               PROVE  Pending(p, what)' \/ (w.place = p /\ w.what = what)
    OBVIOUS
  <2>1. PICK i \in DOMAIN setup.writes : setup.writes[i] = [place |-> p, what |-> what]
    BY DEF Pending
  <2>2. \/ w = [place |-> p, what |-> what]
        \/ \E j \in DOMAIN Tail(setup.writes) : Tail(setup.writes)[j] = [place |-> p, what |-> what]
    <3>1. setup.writes \in Seq(Writes) /\ setup.writes # <<>>
      BY <1>1, <1>2
    <3>2. QED
      BY <2>1, <3>1, StaysOnTheList
  <2>3. setup'.writes = Tail(setup.writes)
    BY <1>1 DEF SetupType
  <2> HIDE DEF w
  <2>4. QED
    BY <2>2, <2>3 DEF Pending
<1> HIDE DEF w
<1>5. /\ setup' \in SetupType
      /\ setup'.phase = "writes" /\ setup'.command = setup.command /\ setup'.config = setup.config
      /\ setup'.distro = setup.distro /\ setup'.left = setup.left /\ setup'.gaps = setup.gaps
  BY <1>1, <1>2 DEF SetupType
<1>6. /\ script' \in [Hooks!Places -> ScriptStates] /\ address' \in [Hooks!Places -> Nat]
      /\ \A p \in Hooks!Places :
            /\ script'[p] = script[p] \/ script'[p] = "current"
            /\ w.place = p /\ w.what = "script" => script'[p] = "current"
            /\ address'[p] = address[p] \/ address'[p] = setup.config.port
            /\ w.place = p /\ w.what = "address" => address'[p] = setup.config.port
  BY <1>1, <1>3 DEF ScriptStates, SetupType, Configs
<1>7. HookTypes'
  BY <1>1, <1>5, <1>6 DEF HooksInv, HookTypes, SetupType
<1>8. /\ Targets(setup.config)' = Targets(setup.config)
      /\ \A a \in Agents : Wanted(setup.config, a)' = Wanted(setup.config, a)
      /\ Targets(setup.config) \subseteq Hooks!Places
      /\ setup.config.enabled \subseteq Agents
  BY <1>1, <1>5, SameRun DEF Targets, Hooks!Places, SetupType, Configs
<1>9. \A p \in Hooks!Places : (Scripted(p) => Scripted(p)') /\ (Addressed(p) => Addressed(p)')
  BY <1>4, <1>5, <1>6 DEF Scripted, Addressed
<1>10. RunIsPlaced' /\ DoneIsWhole' /\ FlagHolds'
  BY <1>1, <1>5, <1>8, SameFlags DEF HooksInv, RunIsPlaced, DoneIsWhole
<1>11. RunIsWhole'
  BY <1>1, <1>5, <1>8, <1>9 DEF HooksInv, RunIsWhole
<1>12. HooksAreServed'
  <2> SUFFICES ASSUME ~failed' PROVE HooksAreServed'
    BY DEF HooksAreServed
  <2>1. \A p \in Hooks!Places : script[p] # "missing" => script'[p] # "missing"
    BY <1>6
  <2>2. \A p \in Hooks!Places : Pending(p, "script") => script'[p] # "missing" \/ Pending(p, "script")'
    BY <1>4, <1>6
  <2>3. QED
    BY <1>1, <1>5, <1>8, <2>1, <2>2 DEF HooksInv, HooksAreServed
<1>13. NoneIsOutdated'
  <2>1. Hooks!Checked \subseteq Hooks!Places
    BY DEF Hooks!Checked, Hooks!Place, Hooks!Places, Hooks!Distros
  <2>2. Hooks!Checked' = Hooks!Checked /\ Hooks!Reachable' = Hooks!Reachable
    BY <1>1 DEF Hooks!Checked, Hooks!Place, Hooks!WindowsKeys, Hooks!Reachable
  <2>3. QED
    BY <1>1, <1>6, <2>1, <2>2 DEF HooksInv, NoneIsOutdated
<1>14. QED
  BY <1>7, <1>10, <1>11, <1>12, <1>13 DEF HooksInv

LEMMA WriteFailsKeeps == ASSUME Hooks!SetupAssumption, HooksInv, Hooks!WriteFails PROVE HooksInv'
<1>1. /\ setup.phase = "writes" /\ failed' = TRUE
      /\ UNCHANGED <<split, onWindows, remote, up, codex, hooks, flags, script, address, saved, events, done, refreshed>>
      /\ setup \in SetupType /\ done = "nothing"
  BY DEF Hooks!WriteFails, Hooks!world, Hooks!places, HooksInv, HookTypes, SetupType, DoneIsWhole
<1>2. CASE setup.command = "wizard"
  BY <1>1, <1>2, EndedKeeps DEF Hooks!WriteFails
<1>3. CASE setup' = [setup EXCEPT !.writes = <<>>, !.gaps = TRUE]
  <2>1. /\ setup' \in SetupType
        /\ setup'.phase = "writes" /\ setup'.command = setup.command /\ setup'.config = setup.config
        /\ setup'.distro = setup.distro /\ setup'.left = setup.left /\ setup'.gaps
    <3>1. <<>> \in Seq(Writes)
      OBVIOUS
    <3>2. QED
      BY <1>1, <1>3, <3>1 DEF SetupType
  <2>2. HookTypes'
    BY <1>1, <2>1 DEF HooksInv, HookTypes, SetupType
  <2>3. RunIsPlaced'
    BY <1>1, <2>1, SameRun DEF HooksInv, RunIsPlaced
  <2>4. RunIsWhole' /\ DoneIsWhole' /\ HooksAreServed' /\ FlagHolds'
    BY <1>1, <2>1, SameFlags DEF RunIsWhole, DoneIsWhole, HooksAreServed
  <2>5. NoneIsOutdated'
    BY <1>1 DEF HooksInv, NoneIsOutdated, Hooks!Reachable, Hooks!Checked, Hooks!Place, Hooks!WindowsKeys
  <2>6. QED
    BY <2>2, <2>3, <2>4, <2>5 DEF HooksInv
<1>4. QED
  BY <1>2, <1>3 DEF Hooks!WriteFails

LEMMA WrittenKeeps == ASSUME HooksInv, Hooks!Written PROVE HooksInv'
<1>1. /\ setup.phase = "writes" /\ setup.writes = <<>> /\ setup.command = "cli"
      /\ setup' = [setup EXCEPT !.phase = "hooks", !.left = setup.config.enabled \X {"here"}]
      /\ UNCHANGED <<split, onWindows, remote, up, codex, hooks, flags, script, address, saved, events,
                     failed, refreshed, done>>
      /\ setup \in SetupType /\ done = "nothing" /\ setup.config.enabled \subseteq Agents
  BY DEF Hooks!Written, Hooks!world, Hooks!places, Hooks!counts, HooksInv, HookTypes, SetupType, DoneIsWhole, Configs
<1> DEFINE left == setup.config.enabled \X {"here"}
<1>2. /\ left \in SUBSET (Agents \X Hooks!Places) /\ \A q \in left : q[2] = "here"
      /\ \A a \in setup.config.enabled : <<a, "here">> \in left
  BY <1>1 DEF Hooks!Places
<1>3. setup' = [setup EXCEPT !.phase = "hooks", !.left = left]
  BY <1>1
<1> HIDE DEF left
<1>4. /\ setup' \in SetupType /\ setup'.left = left
      /\ setup'.phase = "hooks" /\ setup'.command = "cli" /\ setup'.config = setup.config
      /\ setup'.distro = setup.distro /\ setup'.writes = <<>> /\ setup'.gaps = setup.gaps
  BY <1>1, <1>2, <1>3 DEF SetupType
<1>5. HookTypes'
  BY <1>1, <1>4 DEF HooksInv, HookTypes, SetupType
<1>6. /\ Targets(setup.config)' = {"here"} /\ Targets(setup.config) = {"here"}
      /\ \A a \in Agents : Wanted(setup.config, a)' = {"here"}
  BY <1>1, <1>4 DEF Targets, Wanted
<1>7. \A p \in Hooks!Places, what \in {"script", "address"} : ~Pending(p, what)
  BY <1>1 DEF Pending
<1>8. "here" \in Hooks!Places
  BY DEF Hooks!Places
<1>9. RunIsPlaced' /\ DoneIsWhole' /\ FlagHolds'
  BY <1>1, <1>2, <1>4, <1>6, SameFlags DEF RunIsPlaced, DoneIsWhole
<1>10. RunIsWhole'
  BY <1>1, <1>2, <1>4, <1>6, <1>7, <1>8 DEF HooksInv, RunIsWhole, Scripted, Addressed
<1>11. HooksAreServed'
  BY <1>1, <1>4, <1>6, <1>7, <1>8 DEF HooksInv, HooksAreServed
<1>12. NoneIsOutdated'
  BY <1>1 DEF HooksInv, NoneIsOutdated, Hooks!Reachable, Hooks!Checked, Hooks!Place, Hooks!WindowsKeys
<1>13. QED
  BY <1>5, <1>9, <1>10, <1>11, <1>12 DEF HooksInv

LEMMA EndsKeepsHooks == ASSUME Hooks!SetupAssumption, HooksInv, Hooks!Ends PROVE HooksInv'
<1>1. /\ \/ setup.command = "wizard" /\ setup.phase = "writes" /\ setup.writes = <<>>
         \/ setup.command = "cli" /\ setup.phase = "hooks" /\ setup.left = {}
      /\ setup' = Hooks!Idle
      /\ done' = IF setup.gaps THEN "nothing" ELSE IF setup.distro = "first" THEN setup.command ELSE "elsewhere"
      /\ UNCHANGED <<split, onWindows, remote, up, codex, hooks, flags, script, address, saved, events,
                     failed, refreshed>>
      /\ setup \in SetupType
  BY DEF Hooks!Ends, Hooks!world, Hooks!places, Hooks!counts, HooksInv, HookTypes, SetupType
<1>2. /\ setup'.phase = "idle" /\ setup'.left = {} /\ setup'.writes = <<>>
      /\ setup'.command = "wizard" /\ setup'.config = Hooks!Fresh
  BY <1>1 DEF Hooks!Idle
<1>3. HookTypes'
  <2>1. Hooks!Fresh \in Configs
    BY DEF Hooks!Fresh, Hooks!DefaultPort, Hooks!SetupAssumption, Configs
  <2>2. setup' \in SetupType
    BY <1>1, <2>1 DEF Hooks!Idle, SetupType, Hooks!Distros
  <2>3. done' \in {"nothing", "wizard", "cli", "elsewhere"}
    BY <1>1 DEF SetupType
  <2>4. QED
    BY <1>1, <1>2, <2>1, <2>2, <2>3 DEF HooksInv, HookTypes, SetupType
<1>4. setup.writes = <<>> /\ setup.left = {}
  BY <1>1 DEF HooksInv, RunIsPlaced
<1>5. \A p \in Hooks!Places, what \in {"script", "address"} : ~Pending(p, what)
  BY <1>4 DEF Pending
<1>6. /\ Targets(setup.config) \subseteq Hooks!Places
      /\ setup.config.enabled \subseteq Agents
  BY <1>1 DEF Targets, Hooks!Places, SetupType, Configs
<1>7. ~setup.gaps =>
         /\ saved = setup.config
         /\ \A p \in Targets(saved) : script[p] = "current" /\ address[p] = saved.port
         /\ remote # "older" => \A a \in saved.enabled : \A s \in Wanted(saved, a) : hooks[a][s] = "installed"
  BY <1>1, <1>4, <1>5, <1>6 DEF HooksInv, RunIsWhole, Scripted, Addressed
<1>8. DoneIsWhole'
  <2>1. ASSUME ~setup.gaps, setup.distro = "first" PROVE DoneIsWhole'
    <3>1. CASE ~split
      <4>1. /\ Targets(saved) = {"here"} /\ \A a \in saved.enabled : Wanted(saved, a) = {"here"}
        BY <3>1 DEF Targets, Wanted
      <4>2. QED
        BY <1>1, <1>2, <1>7, <2>1, <3>1, <4>1 DEF DoneIsWhole
    <3>2. CASE split
      <4>1. setup.command = "wizard" =>
              /\ "first" \in Targets(saved) /\ (Hooks!WindowsKeys(saved.enabled) # {} => "here" \in Targets(saved))
              /\ \A a \in saved.enabled : /\ "first" \in Wanted(saved, a)
                                          /\ a \in Hooks!WindowsKeys(saved.enabled) => "here" \in Wanted(saved, a)
        BY <2>1, <3>2 DEF Targets, Wanted
      <4>2. Hooks!WindowsKeys(saved.enabled)' = Hooks!WindowsKeys(saved.enabled)
        BY <1>1 DEF Hooks!WindowsKeys
      <4>3. setup.command = "wizard" =>
              /\ script["first"] = "current" /\ address["first"] = saved.port
              /\ Hooks!WindowsKeys(saved.enabled) # {} => script["here"] = "current"
              /\ remote # "older" => \A a \in saved.enabled :
                    /\ hooks[a]["first"] = "installed"
                    /\ a \in Hooks!WindowsKeys(saved.enabled) => hooks[a]["here"] = "installed"
        BY <1>7, <2>1, <4>1
      <4>4. done' = setup.command
        BY <1>1, <2>1
      <4>5. QED
        BY <1>1, <1>2, <3>2, <4>2, <4>3, <4>4 DEF DoneIsWhole
    <3>3. QED
      BY <3>1, <3>2
  <2>2. CASE setup.gaps \/ setup.distro # "first"
    <3>1. done' \in {"nothing", "elsewhere"}
      BY <1>1, <2>2
    <3>2. QED
      BY <1>2, <3>1 DEF DoneIsWhole
  <2>3. QED
    BY <2>1, <2>2
<1>9. RunIsPlaced' /\ RunIsWhole'
  BY <1>2 DEF RunIsPlaced, RunIsWhole
<1>10. HooksAreServed'
  BY <1>1, <1>2, <1>5 DEF HooksInv, HooksAreServed
<1>11. NoneIsOutdated'
  BY <1>1 DEF HooksInv, NoneIsOutdated, Hooks!Reachable, Hooks!Checked, Hooks!Place, Hooks!WindowsKeys
<1>12. FlagHolds'
  <2> SUFFICES ASSUME done' = "wizard", remote = "none", "codex" \in saved.enabled
               PROVE  Settled(IF split THEN "first" ELSE "here")'
    BY <1>1, <1>2 DEF FlagHolds, FlagIsPlanned, FlagIsDone
  <2>1. /\ ~setup.gaps /\ setup.distro = "first" /\ setup.command = "wizard" /\ saved = setup.config
        /\ setup.phase = "writes"
    BY <1>1, <1>7
  <2>2. Settled(FlagPlace)
    BY <1>4, <2>1 DEF HooksInv, FlagHolds, FlagIsPlanned
  <2>3. QED
    BY <1>1, <2>1, <2>2 DEF Settled, FlagPlace, Hooks!VersionAt, Hooks!Flagged
<1>13. QED
  BY <1>3, <1>8, <1>9, <1>10, <1>11, <1>12 DEF HooksInv

LEMMA CancelledKeeps == ASSUME Hooks!SetupAssumption, HooksInv, Hooks!Cancelled PROVE HooksInv'
BY EndedKeeps DEF Hooks!Cancelled, Hooks!world, Hooks!places

LEMMA HooksNext == ASSUME Hooks!SetupAssumption, HooksInv, Hooks!Next PROVE HooksInv'
BY StartKeepsHooks, RouteKeeps, OfferKeeps, SaveKeepsHooks, WriteKeeps, WriteFailsKeeps, WrittenKeeps,
   EndsKeepsHooks, CancelledKeeps, TrayStartsKeeps, ChangesKeep DEF Hooks!Next

LEMMA HooksStay == ASSUME HooksInv, UNCHANGED setupVars PROVE HooksInv'
<1>1. UNCHANGED <<split, onWindows, remote, up, codex, hooks, flags, script, address, saved, setup, done,
                  failed, refreshed>>
  BY DEF setupVars
<1>2. /\ HookTypes' /\ RunIsPlaced' /\ RunIsWhole' /\ DoneIsWhole' /\ FlagHolds' /\ HooksAreServed'
      /\ NoneIsOutdated'
  <2>1. HookTypes'
    BY <1>1 DEF HooksInv, HookTypes
  <2>2. \A p \in Hooks!Places, what \in {"script", "address"} : Pending(p, what)' = Pending(p, what)
    BY <1>1 DEF Pending
  <2>3. Targets(setup.config) \subseteq Hooks!Places
    BY DEF Targets, Hooks!Places, Hooks!Distros, HooksInv, HookTypes
  <2>4. RunIsPlaced' /\ RunIsWhole'
    BY <1>1, <2>2, <2>3, SameRun DEF HooksInv, HookTypes, Configs, RunIsPlaced, RunIsWhole, Scripted, Addressed
  <2>5. DoneIsWhole' /\ NoneIsOutdated'
    BY <1>1 DEF HooksInv, DoneIsWhole, NoneIsOutdated, Hooks!Reachable, Hooks!Checked, Hooks!Place, Hooks!WindowsKeys
  <2>6. HooksAreServed'
    BY <1>1, <2>2, <2>3, SameRun DEF HooksInv, HooksAreServed
  <2>7. FlagHolds'
    BY <1>1 DEF HooksInv, FlagHolds, FlagIsPlanned, FlagIsDone, FlagPlace, Settled, Hooks!VersionAt, Hooks!Flagged
  <2>8. QED
    BY <2>1, <2>4, <2>5, <2>6, <2>7
<1>3. QED
  BY <1>2 DEF HooksInv

LEMMA HooksSuffice ==
    ASSUME Hooks!SetupAssumption, HooksInv
    PROVE  Hooks!SetupAgrees /\ Hooks!PromptAgrees /\ Hooks!HooksHaveTheirScript /\ Hooks!RefreshedScripts
<1>1. Hooks!SetupAgrees
  <2> DEFINE looked == IF split THEN "first" ELSE "here"
  <2> SUFFICES ASSUME Hooks!Reachable, done = "wizard" \/ (done = "cli" /\ ~split)
               PROVE  /\ ~Hooks!ScriptFails /\ ~Hooks!ScriptWarns
                      /\ \A a \in saved.enabled :
                            Hooks!HomeOf(a) = looked /\ remote # "older" => ~Hooks!HooksFail(a)
                      /\ done = "wizard" /\ remote = "none" /\ Hooks!FlagHome = looked
                         /\ Hooks!VersionAt(looked) = codex.here => ~Hooks!FlagFails
    BY DEF Hooks!SetupAgrees
  <2>1. saved.enabled \subseteq Agents
    BY DEF HooksInv, HookTypes, Configs
  <2>2. /\ Hooks!Place = looked /\ Hooks!Checked \subseteq {looked, "here"}
        /\ "here" \in Hooks!Checked => ~split \/ Hooks!WindowsKeys(saved.enabled) # {}
    BY DEF Hooks!Place, Hooks!Checked, Hooks!Reachable
  <2>3. /\ script[looked] = "current" /\ address[looked] = saved.port
        /\ ~split \/ Hooks!WindowsKeys(saved.enabled) # {} => script["here"] = "current"
        /\ remote # "older" => \A a \in saved.enabled :
              /\ hooks[a][looked] = "installed"
              /\ split /\ a \in Hooks!WindowsKeys(saved.enabled) => hooks[a]["here"] = "installed"
    BY DEF HooksInv, DoneIsWhole
  <2>4. \A a \in saved.enabled : Hooks!HomeOf(a) = looked => \A s \in Hooks!Sides(a) :
           s = looked \/ (split /\ s = "here" /\ a \in Hooks!WindowsKeys(saved.enabled))
    BY <2>1 DEF Hooks!Sides, Hooks!WindowsKeys
  <2>5. /\ ~Hooks!ScriptFails /\ ~Hooks!ScriptWarns
        /\ \A a \in saved.enabled :
              Hooks!HomeOf(a) = looked /\ remote # "older" => ~Hooks!HooksFail(a)
    <3> HIDE DEF looked
    <3>1. QED
      BY <2>2, <2>3, <2>4
         DEF Hooks!ScriptFails, Hooks!ScriptWarns, Hooks!HooksFail, Hooks!NeedsInstall
  <2>6. done = "wizard" /\ remote = "none" /\ Hooks!FlagHome = looked
        /\ Hooks!VersionAt(looked) = codex.here => ~Hooks!FlagFails
    <3>1. done = "wizard" /\ remote = "none" /\ "codex" \in saved.enabled => Settled(looked)
      BY DEF HooksInv, FlagHolds, FlagIsDone
    <3> HIDE DEF looked
    <3>2. QED
      BY <3>1 DEF Settled, Hooks!FlagFails
  <2>7. QED
    BY <2>5, <2>6
<1>2. Hooks!PromptAgrees
  BY DEF Hooks!PromptAgrees, Hooks!Missing, Hooks!HookStatus, Hooks!HooksFail, Hooks!NeedsInstall
<1>3. Hooks!HooksHaveTheirScript
  BY DEF Hooks!HooksHaveTheirScript, HooksInv, HooksAreServed
<1>4. Hooks!RefreshedScripts
  BY DEF Hooks!RefreshedScripts, Hooks!ScriptWarns, HooksInv, NoneIsOutdated
<1>5. QED
  BY <1>1, <1>2, <1>3, <1>4

--------------------------------------------------------------------------------
(* What the daemon is told.                                                        *)

Actors == {Ingress!Main, Ingress!Sub}
Kinds == {"session-start", "session-end", "working", "idle", "confirm", "tool-start", "tool-end"}
Sayings == [kind : Kinds, key : {Ingress!Own}, actor : Actors, tool : {""},
            request : Ingress!Sessions!Requests]
Calls == [n : Nat, by : Actors, at : {"sent", "late", "taken"}, async : BOOLEAN, says : Sayings]

IngressTypes ==
    /\ host \in {"claude", "codex", "copilot", "cursor", "junie"}
    /\ phase \in {"off", "idle", "working", "tool", "waiting", "answered"}
    /\ helper \in {"none", "busy", "waiting", "answered"}
    /\ calls \subseteq Calls /\ crossed \in BOOLEAN
    /\ count \in Nat /\ last \in Nat /\ last <= count
    /\ said \in [Actors -> Nat] /\ heard \in [Actors -> Nat]
    /\ \A a \in Actors : said[a] <= count /\ heard[a] <= count
    /\ DOMAIN store \subseteq {Ingress!Own}
    /\ Ingress!Own \in DOMAIN store => store[Ingress!Own] \in Ingress!Sessions!Session

\* A call is its actor's, no later than what the actor said last, and not the other's.
CallsAreTheirs ==
    \A c \in calls : /\ c.says.actor = c.by /\ c.n <= said[c.by]
                     /\ \A a \in Actors \ {c.by} : c.n # said[a]

\* Only Claude has subagents, and they ask while the main thread's tool runs.
HelperIsClaudes ==
    /\ host # "claude" => /\ helper = "none" /\ last = heard[Ingress!Main]
                          /\ \A c \in calls : c.by = Ingress!Main
    /\ phase = "off" => helper = "none"
    /\ helper = "waiting" => phase = "tool"

\* What the main thread said last is what it is doing.
Fits(kind) ==
    CASE phase = "off" -> kind = "session-end"
      [] phase = "idle" -> kind \in {"session-start", "idle"}
      [] phase = "working" -> kind \in {"working", "tool-end"}
      [] phase = "tool" -> kind # "session-end" /\ (host = "junie" => kind = "working")
      [] phase = "waiting" -> kind = "confirm"
      [] phase = "answered" -> kind # "session-end"

LastCallFits == \A c \in calls : c.by = Ingress!Main /\ c.n = said[Ingress!Main] => Fits(c.says.kind)

\* And what a subagent said.
SubCallsFit ==
    \A c \in calls :
        /\ c.by = Ingress!Sub => c.says.kind \in {"tool-start", "tool-end", "confirm"}
        /\ c.n = count /\ helper = "waiting" => c.says.kind = "confirm"
        /\ c.n = count /\ helper = "busy" /\ c.by = Ingress!Sub => c.says.kind # "confirm"
        /\ c.n = count /\ helper = "none" => c.by # Ingress!Sub
        /\ phase = "waiting" /\ ~crossed /\ c.by = Ingress!Sub => c.says.kind # "confirm"

MainIsHeard == heard[Ingress!Main] = said[Ingress!Main]
Shown == store[Ingress!Own].status

\* What the map says once the main thread's last word is in, or anybody's.
MapFollows ==
    /\ phase = "off" /\ last = count => store = <<>>
    /\ phase # "off" /\ MainIsHeard => DOMAIN store = {Ingress!Own}
    /\ phase = "waiting" /\ ~crossed /\ MainIsHeard =>
          Shown = "confirm" /\ store[Ingress!Own].confirm_actor = Ingress!Main
    /\ helper = "waiting" /\ last = count => DOMAIN store = {Ingress!Own} /\ Shown = "confirm"
    /\ phase \in {"idle", "working"} /\ MainIsHeard /\ Shown = "confirm" =>
          store[Ingress!Own].confirm_actor = Ingress!Sub
    /\ phase \in {"idle", "working"} /\ MainIsHeard /\ last = said[Ingress!Main] => Shown = phase
    /\ host = "junie" /\ phase = "tool" /\ MainIsHeard /\ last = said[Ingress!Main] => Shown = "working"
    /\ phase \in {"idle", "working"} /\ MainIsHeard /\ helper = "busy" /\ last = count => Shown # "confirm"

IngressInv == IngressTypes /\ CallsAreTheirs /\ HelperIsClaudes /\ LastCallFits /\ SubCallsFit /\ MapFollows

\* The records of the session's map, as this instance has them.
LEMMA Records ==
    /\ Ingress!Sessions!Requests = [question : {"ask", "note", ""}, detail : {"ask", ""}]
    /\ Ingress!Sessions!NoRequest \in Ingress!Sessions!Requests
    /\ Actors = {"", "sub"} /\ Ingress!Main = "" /\ Ingress!Sub = "sub"
    /\ Ingress!Sessions!Session =
          [status : {"idle", "working", "confirm"}, tool : {""}, request : Ingress!Sessions!Requests,
           confirm_actor : {"", "sub"}, silent : 0 .. 1]
    /\ \A status : Ingress!Sessions!Fresh(status) =
          [status |-> status, tool |-> "", request |-> Ingress!Sessions!NoRequest,
           confirm_actor |-> "", silent |-> 0]
<1>1. Ingress!Sessions!Requests = [question : {"ask", "note", ""}, detail : {"ask", ""}]
  <2>1. {"ask"} \cup {"note"} \cup {""} = {"ask", "note", ""} /\ {"ask"} \cup {""} = {"ask", ""}
    OBVIOUS
  <2>2. QED
    BY <2>1 DEF Ingress!Sessions!Requests, Ingress!Sessions!Empty
<1>2. Ingress!Sessions!NoRequest \in Ingress!Sessions!Requests
  BY <1>1 DEF Ingress!Sessions!NoRequest, Ingress!Sessions!Empty
<1>3. Actors = {"", "sub"} /\ Ingress!Main = "" /\ Ingress!Sub = "sub"
  BY DEF Actors, Ingress!Main, Ingress!Sub
<1>4. Ingress!Sessions!Session =
          [status : {"idle", "working", "confirm"}, tool : {""}, request : Ingress!Sessions!Requests,
           confirm_actor : {"", "sub"}, silent : 0 .. 1]
  <2>1. {} \cup {""} = {""} /\ {"sub"} \cup {""} = {"", "sub"} /\ 0 + 1 = 1
    OBVIOUS
  <2>2. QED
    BY <2>1 DEF Ingress!Sessions!Session, Ingress!Sessions!Statuses, Ingress!Sessions!Actors,
                Ingress!Sessions!Empty, Ingress!Sessions!Main, Ingress!Sub
<1>5. \A status : Ingress!Sessions!Fresh(status) =
          [status |-> status, tool |-> "", request |-> Ingress!Sessions!NoRequest,
           confirm_actor |-> "", silent |-> 0]
  BY DEF Ingress!Sessions!Fresh, Ingress!Sessions!Empty, Ingress!Sessions!Main
<1>6. QED
  BY <1>1, <1>2, <1>3, <1>4, <1>5

LEMMA ASession ==
    ASSUME NEW R, NEW r \in R, NEW status \in {"idle", "working", "confirm"},
           NEW actor \in {"", "sub"}, NEW silence \in 0 .. 1
    PROVE  [status |-> status, tool |-> "", request |-> r, confirm_actor |-> actor, silent |-> silence]
           \in [status : {"idle", "working", "confirm"}, tool : {""}, request : R,
                confirm_actor : {"", "sub"}, silent : 0 .. 1]
OBVIOUS

LEMMA ASilentOne ==
    ASSUME NEW A, NEW B, NEW C, NEW R, NEW T, NEW z \in T,
           NEW s \in [status : A, tool : B, request : R, confirm_actor : C, silent : T]
    PROVE  [s EXCEPT !.silent = z] \in [status : A, tool : B, request : R, confirm_actor : C, silent : T]
OBVIOUS

LEMMA ZeroOrOne == 0 \in 0 .. 1
OBVIOUS

LEMMA FreshIsASession ==
    ASSUME NEW status \in {"idle", "working", "confirm"}
    PROVE  /\ Ingress!Sessions!Fresh(status) \in Ingress!Sessions!Session
           /\ Ingress!Sessions!Fresh(status).status = status
<1>1. /\ Ingress!Sessions!Fresh(status) = [status |-> status, tool |-> "",
            request |-> Ingress!Sessions!NoRequest, confirm_actor |-> "", silent |-> 0]
      /\ Ingress!Sessions!NoRequest \in Ingress!Sessions!Requests
  BY Records
<1>2. [status |-> status, tool |-> "", request |-> Ingress!Sessions!NoRequest,
       confirm_actor |-> "", silent |-> 0]
      \in [status : {"idle", "working", "confirm"}, tool : {""}, request : Ingress!Sessions!Requests,
           confirm_actor : {"", "sub"}, silent : 0 .. 1]
  <2>1. Ingress!Sessions!NoRequest \in Ingress!Sessions!Requests
    BY <1>1, Zenon
  <2>2. 0 \in 0 .. 1 /\ "" \in {"", "sub"}
    BY ZeroOrOne
  <2>3. QED
    BY <2>1, <2>2, ASession, Zenon
<1>3. QED
  BY <1>1, <1>2, Records

\* One call of set() on the session's map: the subagent's is held back, or the session is moved.
SetsTo(ss, status, actor, tt) ==
    /\ DOMAIN tt = {Ingress!Own} /\ tt[Ingress!Own] \in Ingress!Sessions!Session
    /\ \/ /\ Ingress!Own \in DOMAIN ss /\ status # "confirm" /\ actor = Ingress!Sub
          /\ ss[Ingress!Own].status = "confirm" /\ ss[Ingress!Own].confirm_actor = Ingress!Main
          /\ tt[Ingress!Own].status = "confirm" /\ tt[Ingress!Own].confirm_actor = Ingress!Main
       \/ /\ tt[Ingress!Own].status = status
          /\ status = "confirm" => tt[Ingress!Own].confirm_actor = actor
          /\ Ingress!Own \in DOMAIN ss /\ status # "confirm" /\ actor = Ingress!Sub
                => ~(ss[Ingress!Own].status = "confirm" /\ ss[Ingress!Own].confirm_actor = Ingress!Main)

LEMMA SetMap ==
    ASSUME NEW ss, DOMAIN ss \subseteq {Ingress!Own},
           Ingress!Own \in DOMAIN ss => ss[Ingress!Own] \in Ingress!Sessions!Session,
           NEW status \in {"idle", "working", "confirm"}, NEW tool \in {"keep", ""},
           NEW request \in Ingress!Sessions!Requests, NEW actor \in Actors,
           NEW tt, tt = Ingress!Sessions!SetStatus(ss, Ingress!Own, status, tool, request, actor)
    PROVE  SetsTo(ss, status, actor, tt)
<1> DEFINE k == Ingress!Own
           s == IF k \in DOMAIN ss THEN ss[k] ELSE Ingress!Sessions!Fresh(status)
           held == k \in DOMAIN ss /\ Ingress!Sessions!Held(s, status, actor)
           t == IF held THEN [s EXCEPT !.silent = 0]
                ELSE Ingress!Sessions!Moved(s, status, tool, request, actor)
<1>1. s \in Ingress!Sessions!Session
  BY FreshIsASession
<1>2. Ingress!Sessions!RequestAfter(s, status, tool, request) \in Ingress!Sessions!Requests
  BY <1>1, Records DEF Ingress!Sessions!RequestAfter
<1>3. t \in Ingress!Sessions!Session
  <2>1. CASE held
    <3>1. s \in [status : {"idle", "working", "confirm"}, tool : {""}, request : Ingress!Sessions!Requests,
                 confirm_actor : {"", "sub"}, silent : 0 .. 1]
      BY <1>1, Records
    <3>2. t = [s EXCEPT !.silent = 0]
      BY <2>1
    <3> HIDE DEF s, t
    <3>3. t \in [status : {"idle", "working", "confirm"}, tool : {""}, request : Ingress!Sessions!Requests,
                 confirm_actor : {"", "sub"}, silent : 0 .. 1]
      BY <3>1, <3>2, ASilentOne, ZeroOrOne, Zenon
    <3>4. QED
      BY <3>3, Records
  <2>2. CASE ~held
    <3> DEFINE r == Ingress!Sessions!RequestAfter(s, status, tool, request)
               by == IF status = "confirm" THEN actor ELSE s.confirm_actor
    <3>1. t = [status |-> status, tool |-> "", request |-> r, confirm_actor |-> by, silent |-> 0]
      BY <1>1, <2>2, Records DEF Ingress!Sessions!Moved, Ingress!Sessions!Keep
    <3>2. r \in Ingress!Sessions!Requests /\ 0 \in 0 .. 1
      BY <1>2, ZeroOrOne, Zenon
    <3>5. by \in {"", "sub"}
      <4>1. s.confirm_actor \in {"", "sub"} /\ actor \in {"", "sub"}
        BY <1>1, Records
      <4>2. QED
        BY <4>1
    <3> HIDE DEF t, r, by, s
    <3>3. [status |-> status, tool |-> "", request |-> r, confirm_actor |-> by, silent |-> 0]
          \in [status : {"idle", "working", "confirm"}, tool : {""}, request : Ingress!Sessions!Requests,
                confirm_actor : {"", "sub"}, silent : 0 .. 1]
      BY <3>2, <3>5, ASession, Zenon
    <3>4. QED
      BY <3>1, <3>3, Records
  <2>3. QED
    BY <2>1, <2>2
<1>4. tt = [j \in DOMAIN ss \cup {k} |-> IF j = k THEN t ELSE ss[j]]
  BY DEF Ingress!Sessions!SetStatus, Ingress!Sessions!Put
<1>5. DOMAIN tt = {k} /\ tt[k] = t
  BY <1>4
<1>6. CASE held
  <2>1. /\ k \in DOMAIN ss /\ status # "confirm" /\ actor = Ingress!Sub
        /\ ss[k].status = "confirm" /\ ss[k].confirm_actor = Ingress!Main
    BY <1>1, <1>6, Records DEF Ingress!Sessions!Held, Ingress!Sessions!Main
  <2>2. t.status = s.status /\ t.confirm_actor = s.confirm_actor
    BY <1>1, <1>6, Records
  <2>3. QED
    BY <1>3, <1>5, <2>1, <2>2 DEF SetsTo
<1>7. CASE ~held
  <2>1. t.status = status /\ (status = "confirm" => t.confirm_actor = actor)
    BY <1>7 DEF Ingress!Sessions!Moved
  <2>2. k \in DOMAIN ss /\ status # "confirm" /\ actor = Ingress!Sub
           => ~(ss[k].status = "confirm" /\ ss[k].confirm_actor = Ingress!Main)
    BY <1>7 DEF Ingress!Sessions!Held, Ingress!Sessions!Main, Ingress!Main, Ingress!Sub
  <2>3. QED
    BY <1>3, <1>5, <2>1, <2>2 DEF SetsTo
<1>8. QED
  BY <1>6, <1>7

\* What a hook's call makes of the session's map.
HandlesTo(ss, e, tt) ==
    /\ DOMAIN tt \subseteq {Ingress!Own}
    /\ Ingress!Own \in DOMAIN tt => tt[Ingress!Own] \in Ingress!Sessions!Session
    /\ e.kind = "session-end" => tt = <<>>
    /\ e.kind # "session-end" => DOMAIN tt = {Ingress!Own}
    /\ e.kind = "confirm" =>
          tt[Ingress!Own].status = "confirm" /\ tt[Ingress!Own].confirm_actor = e.actor
    /\ e.actor = Ingress!Main =>
          /\ e.kind \in {"session-start", "idle"} => tt[Ingress!Own].status = "idle"
          /\ e.kind \in {"working", "tool-start", "tool-end"} => tt[Ingress!Own].status = "working"
    /\ e.actor = Ingress!Sub /\ e.kind \in {"tool-start", "tool-end"} /\ DOMAIN ss = {Ingress!Own} =>
          IF ss[Ingress!Own].status = "confirm" /\ ss[Ingress!Own].confirm_actor = Ingress!Main
          THEN tt[Ingress!Own].status = "confirm" /\ tt[Ingress!Own].confirm_actor = Ingress!Main
          ELSE tt[Ingress!Own].status = "working"

LEMMA HandledMap ==
    ASSUME NEW ss, DOMAIN ss \subseteq {Ingress!Own},
           Ingress!Own \in DOMAIN ss => ss[Ingress!Own] \in Ingress!Sessions!Session,
           NEW e \in Sayings, NEW tt, tt = Ingress!Sessions!Handled(ss, e)
    PROVE  HandlesTo(ss, e, tt)
<1> USE DEF HandlesTo
<1>1. e.key = Ingress!Own /\ e.tool = "" /\ e.request \in Ingress!Sessions!Requests /\ e.actor \in Actors
      /\ e.kind \in Kinds
  BY DEF Sayings
<1>2. Ingress!Main # Ingress!Sub
  BY DEF Ingress!Main, Ingress!Sub
<1>3. CASE e.kind = "session-start"
  <2>1. tt = [j \in DOMAIN ss \cup {Ingress!Own} |->
                IF j = Ingress!Own THEN Ingress!Sessions!Fresh("idle") ELSE ss[j]]
    BY <1>1, <1>3 DEF Ingress!Sessions!Handled, Ingress!Sessions!Put
  <2>2. Ingress!Sessions!Fresh("idle") \in Ingress!Sessions!Session
        /\ Ingress!Sessions!Fresh("idle").status = "idle"
    BY FreshIsASession
  <2>3. QED
    BY <1>3, <2>1, <2>2
<1>4. CASE e.kind = "session-end"
  <2>1. tt = [j \in {} |-> ss[j]]
    BY <1>1, <1>4 DEF Ingress!Sessions!Handled, Ingress!Sessions!EndMany
  <2>2. tt = <<>>
    BY <2>1
  <2>3. DOMAIN tt = {}
    BY <2>1
  <2>4. QED
    BY <1>4, <2>2, <2>3
<1>5. CASE e.kind \in {"working", "idle", "confirm", "tool-start", "tool-end"}
  <2> DEFINE status == IF e.kind \in {"idle", "confirm"} THEN e.kind ELSE "working"
             tool == IF e.kind \in {"tool-start", "tool-end"} THEN "" ELSE "keep"
             request == IF e.kind = "confirm" THEN e.request ELSE Ingress!Sessions!NoRequest
  <2>1. tt = Ingress!Sessions!SetStatus(ss, Ingress!Own, status, tool, request, e.actor)
    BY <1>1, <1>5 DEF Ingress!Sessions!Handled, Ingress!Sessions!Keep, Ingress!Sessions!Empty
  <2>2. request \in Ingress!Sessions!Requests /\ status \in {"idle", "working", "confirm"}
        /\ tool \in {"keep", ""}
    BY <1>1, <1>5, Records
  <2>3. /\ status = "confirm" <=> e.kind = "confirm"
        /\ status = "idle" <=> e.kind = "idle"
        /\ e.kind \in {"working", "tool-start", "tool-end"} => status = "working"
    BY <1>5
  <2> HIDE DEF status, tool, request
  <2>4. SetsTo(ss, status, e.actor, tt)
    <3>1. e.actor \in Actors
      BY <1>1
    <3>2. QED
      BY <2>1, <2>2, <3>1, SetMap, Zenon
  <2>5. QED
    BY <1>2, <1>5, <2>3, <2>4 DEF SetsTo
<1>6. QED
  BY <1>1, <1>3, <1>4, <1>5 DEF Kinds

\* The hooks an agent binds to what it fires.
Bound(event, match) == {b \in Ingress!HookBindings(host) : b.event = event /\ match \in b.of}
Does(event, match, kind) == Bound(event, match) # {} /\ \A b \in Bound(event, match) : b.does = kind

LEMMA OnIs ==
    ASSUME NEW event, NEW of, NEW does
    PROVE  /\ Ingress!On(event, of, does).event = event /\ Ingress!On(event, of, does).of = of
           /\ Ingress!On(event, of, does).does = does /\ Ingress!On(event, of, does).async = FALSE
BY DEF Ingress!On

\* Junie does not wait for the hook of its question.
Unawaited == [Ingress!Asks EXCEPT !.async = TRUE]

LEMMA AskingIs ==
    /\ Ingress!Asks.event = "PermissionRequest" /\ Ingress!Asks.of = Ingress!Every
    /\ Ingress!Asks.does = "confirm" /\ Ingress!Asks.async = FALSE
    /\ Unawaited.event = "PermissionRequest" /\ Unawaited.of = Ingress!Every
    /\ Unawaited.does = "confirm" /\ Unawaited.async = TRUE
BY DEF Ingress!Asks, Ingress!On, Unawaited

LEMMA EveryMatch ==
    /\ \A m \in {"", "permission", "idle", "tool", "question"} : m \in Ingress!Every
    /\ Ingress!Tools = {"tool", "question"}
BY DEF Ingress!Every, Ingress!Tools

\* What is bound, agent by agent.
LEMMA BeginsAre ==
    ASSUME NEW b \in Ingress!Begins
    PROVE  \/ b = Ingress!On("SessionStart", Ingress!Every, "session-start")
           \/ b = Ingress!On("SessionEnd", Ingress!Every, "session-end")
           \/ b = Ingress!On("UserPromptSubmit", Ingress!Every, "working")
           \/ b = Ingress!On("Stop", Ingress!Every, "idle")
BY DEF Ingress!Begins

LEMMA BindingsAre ==
    ASSUME host \in {"claude", "codex", "copilot", "cursor", "junie"}, NEW b \in Ingress!HookBindings(host)
    PROVE  \/ b \in Ingress!Begins
           \/ host # "junie" /\ b \in Ingress!Brackets
           \/ host \in {"claude", "codex"} /\ b = Ingress!Asks
           \/ host \in {"claude", "copilot"} /\ b = Ingress!On("Notification", {"permission"}, "confirm")
           \/ host = "claude" /\ b = Ingress!On("Notification", {"idle"}, "idle")
           \/ host = "junie" /\ \/ b = Ingress!On("PreToolUse", Ingress!Every \ {"question"}, "working")
                                \/ b = Ingress!On("PreToolUse", {"question"}, "confirm")
                                \/ b = Unawaited
                                \/ b = Ingress!On("StopFailure", Ingress!Every, "idle")
BY DEF Ingress!HookBindings, Unawaited

LEMMA AndAreBound ==
    ASSUME host \in {"claude", "codex", "copilot", "cursor", "junie"}
    PROVE  /\ Ingress!Begins \subseteq Ingress!HookBindings(host)
           /\ host # "junie" => Ingress!Brackets \subseteq Ingress!HookBindings(host)
           /\ host \in {"claude", "codex"} => Ingress!Asks \in Ingress!HookBindings(host)
           /\ host \in {"claude", "copilot"} =>
                 Ingress!On("Notification", {"permission"}, "confirm") \in Ingress!HookBindings(host)
           /\ host = "claude" => Ingress!On("Notification", {"idle"}, "idle") \in Ingress!HookBindings(host)
           /\ host = "junie" =>
                 /\ Ingress!On("PreToolUse", Ingress!Every \ {"question"}, "working") \in Ingress!HookBindings(host)
                 /\ Ingress!On("PreToolUse", {"question"}, "confirm") \in Ingress!HookBindings(host)
                 /\ Unawaited \in Ingress!HookBindings(host)
                 /\ Ingress!On("StopFailure", Ingress!Every, "idle") \in Ingress!HookBindings(host)
BY DEF Ingress!HookBindings, Unawaited

\* What a binding of the agent's does: by its event and whom it is for.
DoesAsItsEvent(b) ==
    /\ b.async \in BOOLEAN
    /\ b.event = "SessionStart" => b.does = "session-start"
    /\ b.event = "SessionEnd" => b.does = "session-end"
    /\ b.event = "UserPromptSubmit" => b.does = "working"
    /\ b.event \in {"Stop", "StopFailure"} => b.does = "idle"
    /\ b.event = "PreToolUse" => /\ host # "junie" => b.does = "tool-start"
                                 /\ host = "junie" /\ "question" \in b.of => b.does = "confirm"
                                 /\ host = "junie" /\ "tool" \in b.of => b.does = "working"
    /\ b.event = "PostToolUse" => host # "junie" /\ b.does = "tool-end"
    /\ b.event = "PermissionRequest" => b.does = "confirm"
    /\ b.event = "Notification" => /\ "permission" \in b.of => b.does = "confirm"
                                   /\ "idle" \in b.of => b.does = "idle"
                                   /\ host = "copilot" => b.does = "confirm"

LEMMA WhatItDoes ==
    ASSUME host \in {"claude", "codex", "copilot", "cursor", "junie"}, NEW b \in Ingress!HookBindings(host)
    PROVE  DoesAsItsEvent(b)
<1>1. CASE b \in Ingress!Begins
  <2>1. CASE b = Ingress!On("SessionStart", Ingress!Every, "session-start")
    BY <2>1 DEF Ingress!On, DoesAsItsEvent
  <2>2. CASE b = Ingress!On("SessionEnd", Ingress!Every, "session-end")
    BY <2>2 DEF Ingress!On, DoesAsItsEvent
  <2>3. CASE b = Ingress!On("UserPromptSubmit", Ingress!Every, "working")
    BY <2>3 DEF Ingress!On, DoesAsItsEvent
  <2>4. CASE b = Ingress!On("Stop", Ingress!Every, "idle")
    BY <2>4 DEF Ingress!On, DoesAsItsEvent
  <2>5. QED
    BY <1>1, <2>1, <2>2, <2>3, <2>4, BeginsAre
<1>2. CASE host # "junie" /\ b \in Ingress!Brackets
  <2>1. CASE b = Ingress!On("PreToolUse", Ingress!Every, "tool-start")
    BY <1>2, <2>1 DEF Ingress!On, DoesAsItsEvent
  <2>2. CASE b = Ingress!On("PostToolUse", Ingress!Every, "tool-end")
    BY <1>2, <2>2 DEF Ingress!On, DoesAsItsEvent
  <2>3. QED
    BY <1>2, <2>1, <2>2 DEF Ingress!Brackets
<1>3. CASE b = Ingress!Asks
  BY <1>3, AskingIs DEF DoesAsItsEvent
<1>4. CASE b = Unawaited
  BY <1>4, AskingIs DEF DoesAsItsEvent
<1>5. CASE b = Ingress!On("Notification", {"permission"}, "confirm")
  BY <1>5 DEF Ingress!On, DoesAsItsEvent
<1>6. CASE host = "claude" /\ b = Ingress!On("Notification", {"idle"}, "idle")
  BY <1>6 DEF Ingress!On, DoesAsItsEvent
<1>7. CASE host = "junie" /\ b = Ingress!On("PreToolUse", Ingress!Every \ {"question"}, "working")
  BY <1>7 DEF Ingress!On, DoesAsItsEvent
<1>8. CASE host = "junie" /\ b = Ingress!On("PreToolUse", {"question"}, "confirm")
  BY <1>8 DEF Ingress!On, DoesAsItsEvent
<1>9. CASE b = Ingress!On("StopFailure", Ingress!Every, "idle")
  BY <1>9 DEF Ingress!On, DoesAsItsEvent
<1>10. QED
  BY <1>1, <1>2, <1>3, <1>4, <1>5, <1>6, <1>7, <1>8, <1>9, BindingsAre, Zenon

LEMMA SomeIsBound ==
    ASSUME NEW event, NEW of, NEW does, NEW match \in of,
           Ingress!On(event, of, does) \in Ingress!HookBindings(host)
    PROVE  Bound(event, match) # {}
<1>1. Ingress!On(event, of, does).event = event /\ match \in Ingress!On(event, of, does).of
  BY DEF Ingress!On
<1>2. QED
  BY <1>1 DEF Bound

LEMMA BoundToBegins ==
    ASSUME host \in {"claude", "codex", "copilot", "cursor", "junie"}
    PROVE  /\ Does("SessionStart", "", "session-start") /\ Does("SessionEnd", "", "session-end")
           /\ Does("UserPromptSubmit", "", "working") /\ Does("Stop", "", "idle")
           /\ host = "junie" => Does("StopFailure", "", "idle")
<1>1. "" \in Ingress!Every
  BY EveryMatch
<1>2. /\ Ingress!On("SessionStart", Ingress!Every, "session-start") \in Ingress!HookBindings(host)
      /\ Ingress!On("SessionEnd", Ingress!Every, "session-end") \in Ingress!HookBindings(host)
      /\ Ingress!On("UserPromptSubmit", Ingress!Every, "working") \in Ingress!HookBindings(host)
      /\ Ingress!On("Stop", Ingress!Every, "idle") \in Ingress!HookBindings(host)
  BY AndAreBound DEF Ingress!Begins
<1>3. /\ Bound("SessionStart", "") # {} /\ Bound("SessionEnd", "") # {}
      /\ Bound("UserPromptSubmit", "") # {} /\ Bound("Stop", "") # {}
  BY <1>1, <1>2, SomeIsBound
<1>4. host = "junie" => Bound("StopFailure", "") # {}
  BY <1>1, AndAreBound, SomeIsBound
<1>5. QED
  BY <1>3, <1>4, WhatItDoes DEF Does, Bound, DoesAsItsEvent

LEMMA BoundToTools ==
    ASSUME host \in {"claude", "codex", "copilot", "cursor", "junie"}
    PROVE  /\ host # "junie" => /\ \A k \in Ingress!Tools : Does("PreToolUse", k, "tool-start")
                                /\ Does("PostToolUse", "tool", "tool-end")
           /\ host = "junie" => /\ Does("PreToolUse", "tool", "working")
                                /\ Does("PreToolUse", "question", "confirm")
                                /\ Bound("PostToolUse", "tool") = {}
<1>1. CASE host # "junie"
  <2>1. /\ Ingress!On("PreToolUse", Ingress!Every, "tool-start") \in Ingress!HookBindings(host)
        /\ Ingress!On("PostToolUse", Ingress!Every, "tool-end") \in Ingress!HookBindings(host)
    BY <1>1, AndAreBound DEF Ingress!Brackets
  <2>2. "tool" \in Ingress!Every /\ "question" \in Ingress!Every /\ Ingress!Tools = {"tool", "question"}
    BY EveryMatch
  <2>3. /\ Bound("PostToolUse", "tool") # {}
        /\ Bound("PreToolUse", "tool") # {} /\ Bound("PreToolUse", "question") # {}
    BY <2>1, <2>2, SomeIsBound
  <2>4. QED
    BY <1>1, <2>2, <2>3, WhatItDoes DEF Does, Bound, DoesAsItsEvent
<1>2. CASE host = "junie"
  <2>1. "tool" \in Ingress!Every \ {"question"} /\ "question" \in {"question"}
    BY EveryMatch
  <2>2. Bound("PreToolUse", "tool") # {} /\ Bound("PreToolUse", "question") # {}
    BY <1>2, <2>1, AndAreBound, SomeIsBound
  <2>3. Bound("PostToolUse", "tool") = {}
    BY <1>2, WhatItDoes DEF Bound, DoesAsItsEvent
  <2>4. QED
    BY <1>2, <2>2, <2>3, WhatItDoes DEF Does, Bound, DoesAsItsEvent
<1>3. QED
  BY <1>1, <1>2

LEMMA BoundToAsks ==
    ASSUME host \in {"claude", "codex", "copilot", "cursor", "junie"}
    PROVE  /\ Ingress!QuestionEvent(host) # "" => Does(Ingress!QuestionEvent(host), "permission", "confirm")
           /\ host = "claude" => /\ Does("Notification", "permission", "confirm")
                                 /\ Does("Notification", "idle", "idle")
                                 /\ Does("PermissionRequest", "tool", "confirm")
<1>1. host \in {"claude", "codex", "junie"} =>
         Bound("PermissionRequest", "permission") # {} /\ Bound("PermissionRequest", "tool") # {}
  <2>1. "permission" \in Ingress!Every /\ "tool" \in Ingress!Every
    BY EveryMatch
  <2>2. CASE host \in {"claude", "codex"}
    <3>1. Ingress!Asks \in Ingress!HookBindings(host)
      BY <2>2, AndAreBound
    <3>2. QED
      BY <2>1, <3>1, AskingIs DEF Bound
  <2>3. CASE host = "junie"
    <3>1. Unawaited \in Ingress!HookBindings(host)
      BY <2>3, AndAreBound
    <3>2. QED
      BY <2>1, <3>1, AskingIs DEF Bound
  <2>4. QED
    BY <2>2, <2>3
<1>2. host \in {"claude", "copilot"} => Bound("Notification", "permission") # {}
  <2>1. "permission" \in {"permission"}
    OBVIOUS
  <2>2. QED
    BY <2>1, AndAreBound, SomeIsBound
<1>3. host = "claude" => Bound("Notification", "idle") # {}
  <2>1. "idle" \in {"idle"}
    OBVIOUS
  <2>2. QED
    BY <2>1, AndAreBound, SomeIsBound
<1>4. /\ host \in {"claude", "codex", "junie"} => Ingress!QuestionEvent(host) = "PermissionRequest"
      /\ host = "copilot" => Ingress!QuestionEvent(host) = "Notification"
      /\ host = "cursor" => Ingress!QuestionEvent(host) = ""
  BY DEF Ingress!QuestionEvent
<1>5. /\ \A b \in Bound("PermissionRequest", "permission") : b.does = "confirm"
      /\ \A b \in Bound("PermissionRequest", "tool") : b.does = "confirm"
      /\ \A b \in Bound("Notification", "permission") : b.does = "confirm"
      /\ \A b \in Bound("Notification", "idle") : b.does = "idle"
  BY WhatItDoes DEF Bound, DoesAsItsEvent
<1>6. QED
  BY <1>1, <1>2, <1>3, <1>4, <1>5 DEF Does

\* What an actor's hook adds: one call or more, all saying the same, and newer than any other.
Sends(by, kind) ==
    /\ calls \subseteq calls'
    /\ \A c \in calls' : c \in calls \/ (/\ c \in Calls /\ c.n = count + 1 /\ c.by = by
                                         /\ c.says.actor = by /\ c.says.kind = kind)
    /\ count' = count + 1 /\ said' = [said EXCEPT ![by] = count + 1]
    /\ UNCHANGED <<host, store, last, heard>>

\* Where the script can scrape at all, it finds the session's own id.
LEMMA OwnIsScraped ==
    ASSUME Ingress!Scrapable, IngressTypes, os \in {"posix", "windows"}, NEW event,
           host = "copilot" => event # "Notification"
    PROVE  Ingress!ScrapedSid(event) = Ingress!Own
BY DEF Ingress!Scrapable, Ingress!ScrapedSid, Ingress!SidField, Ingress!ScriptField, IngressTypes

LEMMA ASaying ==
    ASSUME NEW K, NEW kind \in K, NEW A, NEW a \in A, NEW R, NEW r \in R, NEW id
    PROVE  [kind |-> kind, key |-> id, actor |-> a, tool |-> "", request |-> r]
           \in [kind : K, key : {id}, actor : A, tool : {""}, request : R]
OBVIOUS

LEMMA ScrapeSays ==
    ASSUME Ingress!Scrapable, IngressTypes, os \in {"posix", "windows"}, NEW event, NEW kind \in Kinds,
           NEW actor \in Actors, host = "copilot" /\ event = "Notification" => kind = "confirm",
           NEW e, e = Ingress!Scrape(event, kind, actor)
    PROVE  /\ e \in Sayings
           /\ e.kind = kind
           /\ e.actor = actor
<1>1. Ingress!ReadRequest(event) \in Ingress!Sessions!Requests
      /\ Ingress!Sessions!NoRequest \in Ingress!Sessions!Requests
  BY Records DEF Ingress!ReadRequest
<1>2. Ingress!ReadSid(event) = Ingress!Own
  BY DEF Ingress!ReadSid, Ingress!SidField
<1>3. CASE kind = "confirm"
  <2>1. e = [kind |-> kind, key |-> Ingress!Own, actor |-> actor, tool |-> "",
            request |-> Ingress!ReadRequest(event)]
    BY <1>2, <1>3 DEF Ingress!Scrape
  <2>2. [kind |-> kind, key |-> Ingress!Own, actor |-> actor, tool |-> "", request |-> Ingress!ReadRequest(event)]
        \in [kind : Kinds, key : {Ingress!Own}, actor : Actors, tool : {""},
            request : Ingress!Sessions!Requests]
    BY <1>1, ASaying, Zenon
  <2>3. e \in Sayings
    BY <2>1, <2>2, Zenon DEF Sayings
  <2>4. e.kind = kind /\ e.actor = actor
    BY ONLY <2>1, Zenon
  <2>5. QED
    BY <2>3, <2>4
<1>4. CASE kind # "confirm"
  <2>1. Ingress!ScrapedSid(event) = Ingress!Own
    BY <1>4, OwnIsScraped
  <2>2. Ingress!ScrapedActor(actor) = actor
    BY DEF Ingress!ScrapedActor, Ingress!Scrapable
  <2>3. e = [kind |-> kind, key |-> Ingress!Own, actor |-> actor, tool |-> "",
            request |-> Ingress!Sessions!NoRequest]
    BY <1>4, <2>1, <2>2 DEF Ingress!Scrape
  <2>4. [kind |-> kind, key |-> Ingress!Own, actor |-> actor, tool |-> "", request |-> Ingress!Sessions!NoRequest]
        \in [kind : Kinds, key : {Ingress!Own}, actor : Actors, tool : {""},
            request : Ingress!Sessions!Requests]
    BY <1>1, ASaying, Zenon
  <2>5. e \in Sayings
    BY <2>3, <2>4, Zenon DEF Sayings
  <2>6. e.kind = kind /\ e.actor = actor
    BY ONLY <2>3, Zenon
  <2>7. QED
    BY <2>5, <2>6
<1>5. QED
  BY <1>3, <1>4

LEMMA FireSends ==
    ASSUME Ingress!Scrapable, IngressTypes, os \in {"posix", "windows"}, NEW event, NEW match,
           NEW kind \in Kinds, NEW by \in Actors, Does(event, match, kind),
           host = "copilot" /\ event = "Notification" => kind = "confirm",
           Ingress!Fire(event, match, by, by)
    PROVE  Sends(by, kind)
<1>1. /\ count' = count + 1 /\ said' = [said EXCEPT ![by] = count']
      /\ calls' = calls \cup {[n |-> count', by |-> by, at |-> "sent", async |-> b.async,
                               says |-> Ingress!Scrape(event, b.does, by)] : b \in Bound(event, match)}
      /\ UNCHANGED <<host, store, last, heard>>
  BY DEF Ingress!Fire, Bound, Does, Ingress!shape
<1>2. ASSUME NEW c \in calls', c \notin calls
      PROVE  c \in Calls /\ c.n = count + 1 /\ c.by = by /\ c.says.actor = by /\ c.says.kind = kind
  <2>1. PICK b \in Bound(event, match) :
           c = [n |-> count', by |-> by, at |-> "sent", async |-> b.async,
                says |-> Ingress!Scrape(event, b.does, by)]
    BY <1>1, <1>2
  <2>2. b.does = kind /\ b.async \in BOOLEAN
    BY WhatItDoes DEF Does, Bound, DoesAsItsEvent, IngressTypes
  <2>3. count' \in Nat
    BY <1>1 DEF IngressTypes
  <2>4. /\ Ingress!Scrape(event, kind, by) \in Sayings
        /\ Ingress!Scrape(event, kind, by).kind = kind
        /\ Ingress!Scrape(event, kind, by).actor = by
    BY ScrapeSays
  <2>5. QED
    BY <1>1, <2>1, <2>2, <2>3, <2>4 DEF Calls
<1>3. QED
  BY <1>1, <1>2 DEF Sends

\* A hook the main thread fires: nothing older is its last word any more.
LEMMA MainSends ==
    ASSUME IngressInv, NEW kind, Sends(Ingress!Main, kind), crossed' \in BOOLEAN,
           phase' \in {"off", "idle", "working", "tool", "waiting", "answered"},
           helper' \in {"none", "busy", "waiting", "answered"},
           host # "claude" \/ phase' = "off" => helper' = "none",
           helper' = "waiting" => phase' = "tool" /\ kind = "confirm",
           Fits(kind)',
           phase' = "waiting" /\ ~crossed' =>
              \A c \in calls : c.by = Ingress!Sub => c.says.kind # "confirm"
    PROVE  IngressInv'
<1> USE DEF IngressInv
<1>0. Ingress!Main # Ingress!Sub /\ Ingress!Main \in Actors /\ Actors = {Ingress!Main, Ingress!Sub}
  BY DEF Ingress!Main, Ingress!Sub, Actors
<1>1. /\ count \in Nat /\ count' \in Nat /\ count' = count + 1 /\ last' = last /\ last <= count
      /\ said' \in [Actors -> Nat] /\ said'[Ingress!Main] = count + 1
      /\ said'[Ingress!Sub] = said[Ingress!Sub] /\ heard' = heard
      /\ \A a \in Actors : said[a] \in Nat /\ said[a] <= count /\ heard[a] \in Nat /\ heard[a] <= count
  BY <1>0 DEF Sends, IngressTypes
<1>2. IngressTypes'
  <2>1. calls' \subseteq Calls
    BY DEF Sends, IngressTypes
  <2>2. \A a \in Actors : said'[a] <= count' /\ heard'[a] <= count'
    BY <1>0, <1>1
  <2>3. QED
    BY <1>1, <2>1, <2>2 DEF Sends, IngressTypes
<1>3. ASSUME NEW c \in calls'
      PROVE  \/ c \in calls /\ c \in Calls /\ c.n <= said[c.by] /\ c.n <= count
             \/ c.n = count + 1 /\ c.by = Ingress!Main /\ c.says.actor = Ingress!Main /\ c.says.kind = kind
  <2>1. CASE c \in calls
    <3>1. c \in Calls /\ c.by \in Actors /\ c.n \in Nat /\ c.n <= said[c.by]
      BY <2>1 DEF IngressTypes, CallsAreTheirs, Calls
    <3>2. c.n <= count
      BY <1>1, <3>1
    <3>3. QED
      BY <2>1, <3>1, <3>2
  <2>2. QED
    BY <2>1 DEF Sends
<1>4. CallsAreTheirs'
  <2> SUFFICES ASSUME NEW c \in calls'
               PROVE  /\ c.says.actor = c.by /\ c.n <= said'[c.by]
                      /\ \A a \in Actors \ {c.by} : c.n # said'[a]
    BY DEF CallsAreTheirs
  <2>1. CASE c \in calls /\ c \in Calls /\ c.n <= said[c.by] /\ c.n <= count
    <3>1. c.n \in Nat /\ c.by \in Actors /\ c.says.actor = c.by
          /\ \A a \in Actors \ {c.by} : c.n # said[a]
      BY <2>1 DEF Calls, CallsAreTheirs
    <3>2. c.n # count + 1 /\ c.n <= count + 1
      BY <1>1, <2>1, <3>1
    <3>3. QED
      BY <1>0, <1>1, <2>1, <3>1, <3>2
  <2>2. CASE c.n = count + 1 /\ c.by = Ingress!Main /\ c.says.actor = Ingress!Main
    <3>1. said[Ingress!Sub] # count + 1 /\ count + 1 <= count + 1
      BY <1>0, <1>1
    <3>2. QED
      BY <1>0, <1>1, <2>2, <3>1
  <2>3. QED
    BY <1>3, <2>1, <2>2
<1>5. HelperIsClaudes'
  BY <1>3 DEF HelperIsClaudes, Sends
<1>6. LastCallFits'
  <2> SUFFICES ASSUME NEW c \in calls', c.by = Ingress!Main, c.n = said'[Ingress!Main]
               PROVE  Fits(c.says.kind)'
    BY DEF LastCallFits
  <2>1. c.n = count + 1
    BY <1>1
  <2>2. c.says.kind = kind
    BY <1>1, <1>3, <2>1
  <2>3. QED
    BY <2>2 DEF Fits
<1>7. SubCallsFit'
  <2> SUFFICES ASSUME NEW c \in calls'
               PROVE  /\ c.by = Ingress!Sub => c.says.kind \in {"tool-start", "tool-end", "confirm"}
                      /\ c.n = count' /\ helper' = "waiting" => c.says.kind = "confirm"
                      /\ c.n = count' /\ helper' = "busy" /\ c.by = Ingress!Sub => c.says.kind # "confirm"
                      /\ c.n = count' /\ helper' = "none" => c.by # Ingress!Sub
                      /\ phase' = "waiting" /\ ~crossed' /\ c.by = Ingress!Sub => c.says.kind # "confirm"
    BY DEF SubCallsFit
  <2>1. c.n = count' => c.by = Ingress!Main /\ c.says.kind = kind
    BY <1>1, <1>3
  <2>2. c.by = Ingress!Sub => c \in calls
    BY <1>0, <1>3
  <2>3. QED
    BY <1>0, <2>1, <2>2 DEF SubCallsFit
<1>8. MapFollows'
  <2>1. last' # count' /\ heard'[Ingress!Main] # said'[Ingress!Main]
    BY <1>0, <1>1 DEF IngressTypes
  <2>2. QED
    BY <2>1 DEF MapFollows, MainIsHeard
<1>9. QED
  BY <1>2, <1>4, <1>5, <1>6, <1>7, <1>8

\* A hook a subagent fires.
LEMMA SubSends ==
    ASSUME IngressInv, NEW kind \in {"tool-start", "tool-end", "confirm"}, Sends(Ingress!Sub, kind),
           host = "claude", UNCHANGED <<phase, crossed>>, phase # "off",
           helper' \in {"busy", "waiting"},
           helper' = "waiting" => phase = "tool" /\ kind = "confirm",
           helper' = "busy" => kind # "confirm"
    PROVE  IngressInv'
<1> USE DEF IngressInv
<1>0. Ingress!Main # Ingress!Sub /\ Ingress!Sub \in Actors /\ Actors = {Ingress!Main, Ingress!Sub}
  BY DEF Ingress!Main, Ingress!Sub, Actors
<1>1. /\ count \in Nat /\ count' \in Nat /\ count' = count + 1 /\ last' = last /\ last <= count
      /\ said' \in [Actors -> Nat] /\ said'[Ingress!Sub] = count + 1
      /\ said'[Ingress!Main] = said[Ingress!Main] /\ heard' = heard
      /\ \A a \in Actors : said[a] \in Nat /\ said[a] <= count /\ heard[a] \in Nat /\ heard[a] <= count
  BY <1>0 DEF Sends, IngressTypes
<1>2. IngressTypes'
  <2>1. calls' \subseteq Calls
    BY DEF Sends, IngressTypes
  <2>2. \A a \in Actors : said'[a] <= count' /\ heard'[a] <= count'
    BY <1>0, <1>1
  <2>3. QED
    BY <1>1, <2>1, <2>2 DEF Sends, IngressTypes
<1>3. ASSUME NEW c \in calls'
      PROVE  \/ c \in calls /\ c \in Calls /\ c.n <= said[c.by] /\ c.n <= count
             \/ c.n = count + 1 /\ c.by = Ingress!Sub /\ c.says.actor = Ingress!Sub /\ c.says.kind = kind
  <2>1. CASE c \in calls
    <3>1. c \in Calls /\ c.by \in Actors /\ c.n \in Nat /\ c.n <= said[c.by]
      BY <2>1 DEF IngressTypes, CallsAreTheirs, Calls
    <3>2. c.n <= count
      BY <1>1, <3>1
    <3>3. QED
      BY <2>1, <3>1, <3>2
  <2>2. QED
    BY <2>1 DEF Sends
<1>4. CallsAreTheirs'
  <2> SUFFICES ASSUME NEW c \in calls'
               PROVE  /\ c.says.actor = c.by /\ c.n <= said'[c.by]
                      /\ \A a \in Actors \ {c.by} : c.n # said'[a]
    BY DEF CallsAreTheirs
  <2>1. CASE c \in calls /\ c \in Calls /\ c.n <= said[c.by] /\ c.n <= count
    <3>1. c.n \in Nat /\ c.by \in Actors /\ c.says.actor = c.by
          /\ \A a \in Actors \ {c.by} : c.n # said[a]
      BY <2>1 DEF Calls, CallsAreTheirs
    <3>2. c.n # count + 1 /\ c.n <= count + 1
      BY <1>1, <2>1, <3>1
    <3>3. QED
      BY <1>0, <1>1, <2>1, <3>1, <3>2
  <2>2. CASE c.n = count + 1 /\ c.by = Ingress!Sub /\ c.says.actor = Ingress!Sub
    <3>1. said[Ingress!Main] # count + 1 /\ count + 1 <= count + 1
      BY <1>0, <1>1
    <3>2. QED
      BY <1>0, <1>1, <2>2, <3>1
  <2>3. QED
    BY <1>3, <2>1, <2>2
<1>5. HelperIsClaudes'
  BY DEF HelperIsClaudes, Sends
<1>6. LastCallFits'
  <2> SUFFICES ASSUME NEW c \in calls', c.by = Ingress!Main, c.n = said'[Ingress!Main]
               PROVE  Fits(c.says.kind)'
    BY DEF LastCallFits
  <2>1. c \in calls /\ c.n = said[Ingress!Main]
    BY <1>0, <1>1, <1>3
  <2>2. Fits(c.says.kind)
    BY <2>1 DEF LastCallFits
  <2>3. QED
    BY <2>2 DEF Fits, Sends
<1>7. SubCallsFit'
  <2> SUFFICES ASSUME NEW c \in calls'
               PROVE  /\ c.by = Ingress!Sub => c.says.kind \in {"tool-start", "tool-end", "confirm"}
                      /\ c.n = count' /\ helper' = "waiting" => c.says.kind = "confirm"
                      /\ c.n = count' /\ helper' = "busy" /\ c.by = Ingress!Sub => c.says.kind # "confirm"
                      /\ c.n = count' /\ helper' = "none" => c.by # Ingress!Sub
                      /\ phase' = "waiting" /\ ~crossed' /\ c.by = Ingress!Sub => c.says.kind # "confirm"
    BY DEF SubCallsFit
  <2>1. c.n = count' => c.by = Ingress!Sub /\ c.says.kind = kind
    BY <1>1, <1>3
  <2>2. c \in calls \/ c.says.kind = kind
    BY <1>3
  <2>3. phase' = "waiting" => helper' = "busy"
    OBVIOUS
  <2>4. QED
    BY <1>0, <2>1, <2>2, <2>3 DEF SubCallsFit
<1>8. MapFollows'
  <2>1. last' # count' /\ (heard'[Ingress!Main] = said'[Ingress!Main] <=> MainIsHeard)
    BY <1>0, <1>1 DEF IngressTypes, MainIsHeard
  <2>2. store' = store /\ host' = host /\ last' = last
    BY DEF Sends
  <2>3. QED
    BY <1>1, <2>1, <2>2 DEF MapFollows, MainIsHeard, Shown
<1>9. QED
  BY <1>2, <1>4, <1>5, <1>6, <1>7, <1>8

\* The agent's steps.
LEMMA ActsKeep ==
    ASSUME Ingress!Scrapable, os \in {"posix", "windows"}, IngressInv, Ingress!Acts
    PROVE  IngressInv'
<1> USE DEF IngressInv
<1>1. /\ host \in {"claude", "codex", "copilot", "cursor", "junie"}
      /\ phase \in {"off", "idle", "working", "tool", "waiting", "answered"}
      /\ helper \in {"none", "busy", "waiting", "answered"} /\ crossed \in BOOLEAN
      /\ helper = "waiting" => phase = "tool"
      /\ host # "claude" \/ phase = "off" => helper = "none"
      /\ IngressTypes
  BY DEF IngressTypes, HelperIsClaudes
<1>2. /\ Ingress!Main \in Actors
      /\ {"session-start", "session-end", "working", "idle", "tool-start", "tool-end", "confirm"} \subseteq Kinds
  BY DEF Actors, Kinds
<1>3. CASE Ingress!Opens
  <2>1. Sends(Ingress!Main, "session-start")
    BY <1>1, <1>2, <1>3, BoundToBegins, FireSends DEF Ingress!Opens, Ingress!MainFires
  <2>2. phase = "off" /\ phase' = "idle" /\ helper' = helper /\ crossed' = crossed
    BY <1>3 DEF Ingress!Opens, Ingress!MainFires
  <2>3. Fits("session-start")'
    BY <2>2 DEF Fits
  <2>4. QED
    BY <1>1, <2>1, <2>2, <2>3, MainSends
<1>4. CASE Ingress!Prompts
  <2>1. Sends(Ingress!Main, "working")
    BY <1>1, <1>2, <1>4, BoundToBegins, FireSends DEF Ingress!Prompts, Ingress!MainFires
  <2>2. phase = "idle" /\ phase' = "working" /\ helper' = helper /\ crossed' = crossed
    BY <1>4 DEF Ingress!Prompts, Ingress!MainFires
  <2>3. Fits("working")'
    BY <2>2 DEF Fits
  <2>4. QED
    BY <1>1, <2>1, <2>2, <2>3, MainSends
<1>5. ASSUME NEW k \in Ingress!Tools, Ingress!Uses(k) PROVE IngressInv'
  <2>1. PICK does \in Kinds :
           does = IF host # "junie" THEN "tool-start" ELSE IF k = "question" THEN "confirm" ELSE "working"
    BY <1>2
  <2>2. Does("PreToolUse", k, does)
    BY <1>1, <2>1, BoundToTools, EveryMatch
  <2>3. Ingress!Fire("PreToolUse", k, Ingress!Main, Ingress!Main) /\ "PreToolUse" # "Notification"
    BY <1>5 DEF Ingress!Uses, Ingress!MainFires
  <2>4. /\ phase \in {"working", "answered"} /\ helper' = helper /\ crossed' = crossed
        /\ phase' = IF host = "junie" /\ k = "question" THEN "waiting" ELSE "tool"
    BY <1>5 DEF Ingress!Uses, Ingress!MainFires
  <2>5. host' = host
    BY <2>3 DEF Ingress!Fire, Ingress!shape
  <2>6. Fits(does)'
    BY <2>1, <2>4, <2>5, EveryMatch DEF Fits
  <2>7. phase' = "waiting" => \A c \in calls : c.by # Ingress!Sub
    BY <2>4 DEF HelperIsClaudes, Ingress!Main, Ingress!Sub
  <2>8. Sends(Ingress!Main, does)
    BY <1>1, <1>2, <2>2, <2>3, FireSends
  <2>9. helper' # "waiting" /\ (host # "claude" \/ phase' = "off" => helper' = "none")
    BY <1>1, <2>4
  <2>10. QED
    BY <1>1, <2>4, <2>6, <2>7, <2>8, <2>9, MainSends
<1>6. CASE Ingress!Questions
  <2>1. Sends(Ingress!Main, "confirm")
    BY <1>1, <1>2, <1>6, BoundToAsks, FireSends DEF Ingress!Questions, Ingress!MainFires
  <2>2. /\ phase = "tool" /\ phase' = "waiting" /\ helper' = helper /\ helper # "waiting"
        /\ crossed' = (crossed \/ \E c \in calls : c.by = Ingress!Sub /\ c.says.kind = "confirm")
    BY <1>6 DEF Ingress!Questions, Ingress!MainFires
  <2>3. Fits("confirm")'
    BY <2>2 DEF Fits
  <2>4. crossed' \in BOOLEAN
    BY <1>1, <2>2
  <2>5. QED
    BY <1>1, <2>1, <2>2, <2>3, <2>4, MainSends
<1>7. CASE Ingress!Reminds
  <2>1. Sends(Ingress!Main, "confirm")
    BY <1>1, <1>2, <1>7, BoundToAsks, FireSends DEF Ingress!Reminds
  <2>2. /\ host = "claude" /\ phase' = phase /\ helper' = helper /\ host' = host
        /\ phase = "waiting" \/ (phase = "tool" /\ helper = "waiting")
        /\ crossed' = (crossed \/ helper = "waiting")
    BY <1>1, <1>7 DEF Ingress!Reminds, Ingress!Fire, Ingress!shape
  <2>3. Fits("confirm")'
    BY <2>2 DEF Fits
  <2>4. crossed' \in BOOLEAN
    BY <1>1, <2>2
  <2>5. phase' = "waiting" /\ ~crossed' => \A c \in calls : c.by = Ingress!Sub => c.says.kind # "confirm"
    BY <1>1, <2>2 DEF SubCallsFit
  <2>6. QED
    BY <1>1, <2>1, <2>2, <2>3, <2>4, <2>5, MainSends
<1>8. CASE Ingress!Answers
  <2>1. /\ phase = "waiting" /\ phase' = "answered"
        /\ UNCHANGED <<host, helper, calls, store, count, last, said, heard, crossed>>
    BY <1>8 DEF Ingress!Answers, Ingress!shape
  <2>2. IngressTypes' /\ CallsAreTheirs' /\ HelperIsClaudes'
    BY <1>1, <2>1 DEF IngressTypes, CallsAreTheirs, HelperIsClaudes
  <2>3. LastCallFits' /\ SubCallsFit'
    BY <2>1 DEF LastCallFits, Fits, SubCallsFit
  <2>4. MapFollows'
    BY <1>1, <2>1 DEF MapFollows, MainIsHeard, Shown
  <2>5. QED
    BY <2>2, <2>3, <2>4
<1>9. CASE Ingress!Ends /\ host # "junie"
  <2>1. Sends(Ingress!Main, "tool-end")
    BY <1>1, <1>2, <1>9, BoundToTools, FireSends DEF Ingress!Ends, Ingress!MainFires
  <2>2. phase' = "working" /\ helper' = helper /\ helper # "waiting" /\ crossed' = crossed
        /\ phase # "off"
    BY <1>9 DEF Ingress!Ends, Ingress!MainFires
  <2>3. Fits("tool-end")'
    BY <2>2 DEF Fits
  <2>4. QED
    BY <1>1, <2>1, <2>2, <2>3, MainSends
<1>10. CASE Ingress!Ends /\ host = "junie"
  <2>1. Bound("PostToolUse", "tool") = {}
    BY <1>1, <1>10, BoundToTools
  <2>2. /\ \/ phase = "tool" /\ phase' = "working"
           \/ phase = "answered" /\ phase' = "answered"
        /\ UNCHANGED <<host, helper, calls, store, count, last, heard, crossed>>
        /\ said' = [said EXCEPT ![Ingress!Main] = @]
    BY <1>10, <2>1 DEF Ingress!Ends, Ingress!MainFires, Ingress!Fire, Ingress!shape, Bound
  <2>3. said' = said
    BY <1>1, <2>2 DEF IngressTypes
  <2>4. IngressTypes' /\ CallsAreTheirs'
    BY ZenonT(30), <1>1, <2>2, <2>3 DEF IngressTypes, CallsAreTheirs
  <2>5. HelperIsClaudes' /\ LastCallFits'
    BY <1>10, <2>2, <2>3 DEF HelperIsClaudes, LastCallFits, Fits
  <2>6. SubCallsFit'
    BY <1>10, <2>2, <2>3 DEF SubCallsFit, HelperIsClaudes
  <2>7. MapFollows'
    <3>1. helper = "none" /\ last = heard[Ingress!Main]
      BY <1>10 DEF HelperIsClaudes
    <3>2. QED
      BY <1>10, <2>2, <2>3, <3>1 DEF MapFollows, MainIsHeard, Shown
  <2>8. QED
    BY <2>4, <2>5, <2>6, <2>7
<1>11. CASE Ingress!Stops
  <2>1. PICK event \in {"Stop", "StopFailure"} :
           /\ event = "StopFailure" => host = "junie"
           /\ Ingress!MainFires(event, "")
    BY <1>11 DEF Ingress!Stops
  <2>2. Does(event, "", "idle") /\ event # "Notification"
    BY <1>1, <2>1, BoundToBegins
  <2>3. Sends(Ingress!Main, "idle")
    BY <1>1, <1>2, <2>1, <2>2, FireSends DEF Ingress!MainFires
  <2>4. /\ phase \in {"working", "answered"} /\ phase' = "idle" /\ helper' = helper
        /\ crossed' = crossed
    BY <1>11, <2>1 DEF Ingress!Stops, Ingress!MainFires
  <2>5. Fits("idle")'
    BY <2>4 DEF Fits
  <2>6. QED
    BY <1>1, <2>3, <2>4, <2>5, MainSends
<1>12. CASE Ingress!Idles
  <2>1. Sends(Ingress!Main, "idle")
    BY <1>1, <1>2, <1>12, BoundToAsks, FireSends DEF Ingress!Idles, Ingress!MainFires
  <2>2. phase = "idle" /\ phase' = phase /\ helper' = helper /\ crossed' = crossed
    BY <1>12 DEF Ingress!Idles, Ingress!MainFires
  <2>3. Fits("idle")'
    BY <2>2 DEF Fits
  <2>4. QED
    BY <1>1, <2>1, <2>2, <2>3, MainSends
<1>13. CASE Ingress!Leaves
  <2>1. Sends(Ingress!Main, "session-end")
    BY <1>1, <1>2, <1>13, BoundToBegins, FireSends DEF Ingress!Leaves
  <2>2. phase' = "off" /\ helper' = "none" /\ crossed' = crossed
    BY <1>13 DEF Ingress!Leaves
  <2>3. Fits("session-end")'
    BY <2>2 DEF Fits
  <2>4. QED
    BY <1>1, <2>1, <2>2, <2>3, MainSends
<1>14. QED
  BY <1>3, <1>4, <1>5, <1>6, <1>7, <1>8, <1>9, <1>10, <1>11, <1>12, <1>13 DEF Ingress!Acts

\* Its subagent's.
LEMMA HelpsKeep ==
    ASSUME Ingress!Scrapable, os \in {"posix", "windows"}, IngressInv, Ingress!Helps
    PROVE  IngressInv'
<1> USE DEF IngressInv
<1>1. /\ host \in {"claude", "codex", "copilot", "cursor", "junie"}
      /\ IngressTypes /\ Ingress!Sub \in Actors
      /\ {"tool-start", "tool-end", "confirm"} \subseteq Kinds
      /\ "tool" \in Ingress!Tools
      /\ helper # "none" => host = "claude" /\ phase # "off"
  BY DEF IngressTypes, HelperIsClaudes, Actors, Kinds, Ingress!Tools
<1>2. ASSUME helper # "none", NEW event, NEW kind \in Kinds, Does(event, "tool", kind), Ingress!SubFires(event)
      PROVE  Sends(Ingress!Sub, kind) /\ UNCHANGED <<phase, crossed>>
  <2>1. Ingress!Fire(event, "tool", Ingress!Sub, Ingress!Sub) /\ host # "copilot"
    BY <1>1, <1>2 DEF Ingress!SubFires
  <2>2. Sends(Ingress!Sub, kind)
    BY <1>1, <1>2, <2>1, FireSends
  <2>3. QED
    BY <1>2, <2>2 DEF Ingress!SubFires
<1>3. ASSUME Ingress!Spawns \/ Ingress!SubAnswers PROVE IngressInv'
  <2>1. /\ UNCHANGED <<host, phase, calls, store, count, last, said, heard, crossed>>
        /\ \/ host = "claude" /\ phase = "tool" /\ helper = "none" /\ helper' = "busy"
           \/ helper = "waiting" /\ helper' = "answered"
    BY <1>3 DEF Ingress!Spawns, Ingress!SubAnswers, Ingress!shape
  <2>2. IngressTypes' /\ CallsAreTheirs'
    BY <1>1, <2>1 DEF IngressTypes, CallsAreTheirs
  <2>3. HelperIsClaudes' /\ LastCallFits'
    BY <2>1 DEF HelperIsClaudes, LastCallFits, Fits
  <2>4. SubCallsFit'
    BY <2>1 DEF SubCallsFit
  <2>5. MapFollows'
    BY <1>1, <2>1 DEF MapFollows, MainIsHeard, Shown, HelperIsClaudes
  <2>6. QED
    BY <2>2, <2>3, <2>4, <2>5
<1>4. CASE Ingress!SubUses
  <2>1. helper = "busy" /\ helper' = "busy" /\ Ingress!SubFires("PreToolUse")
    BY <1>4 DEF Ingress!SubUses
  <2>2. Does("PreToolUse", "tool", "tool-start")
    BY <1>1, <2>1, BoundToTools
  <2>3. Sends(Ingress!Sub, "tool-start") /\ UNCHANGED <<phase, crossed>>
    BY <1>1, <1>2, <2>1, <2>2
  <2>4. QED
    BY <1>1, <2>1, <2>3, SubSends
<1>5. CASE Ingress!SubAsks
  <2>1. helper = "busy" /\ phase = "tool" /\ helper' = "waiting" /\ Ingress!SubFires("PermissionRequest")
    BY <1>5 DEF Ingress!SubAsks
  <2>2. Does("PermissionRequest", "tool", "confirm")
    BY <1>1, <2>1, BoundToAsks
  <2>3. Sends(Ingress!Sub, "confirm") /\ UNCHANGED <<phase, crossed>>
    BY <1>1, <1>2, <2>1, <2>2
  <2>4. QED
    BY <1>1, <2>1, <2>3, SubSends
<1>6. CASE Ingress!SubEnds
  <2>1. helper \in {"busy", "answered"} /\ helper' = "busy" /\ Ingress!SubFires("PostToolUse")
    BY <1>6 DEF Ingress!SubEnds
  <2>2. Does("PostToolUse", "tool", "tool-end")
    BY <1>1, <2>1, BoundToTools
  <2>3. Sends(Ingress!Sub, "tool-end") /\ UNCHANGED <<phase, crossed>>
    BY <1>1, <1>2, <2>1, <2>2
  <2>4. QED
    BY <1>1, <2>1, <2>3, SubSends
<1>7. QED
  BY <1>3, <1>4, <1>5, <1>6 DEF Ingress!Helps

\* A request is on its way, late, lost or taken: what it says stays, and nothing is new.
LEMMA RequestsMove ==
    ASSUME IngressInv, UNCHANGED <<host, phase, helper, store, count, last, said, heard, crossed>>,
           \A d \in calls' : d \in Calls /\ \E c \in calls : d.n = c.n /\ d.by = c.by /\ d.says = c.says
    PROVE  IngressInv'
<1> USE DEF IngressInv
<1>1. IngressTypes'
  BY DEF IngressTypes
<1>2. CallsAreTheirs'
  BY DEF CallsAreTheirs
<1>3. HelperIsClaudes'
  BY DEF HelperIsClaudes
<1>4. LastCallFits'
  <2> SUFFICES ASSUME NEW d \in calls', d.by = Ingress!Main, d.n = said[Ingress!Main]
               PROVE  Fits(d.says.kind)'
    BY DEF LastCallFits
  <2>1. PICK c \in calls : d.n = c.n /\ d.by = c.by /\ d.says = c.says
    OBVIOUS
  <2>2. Fits(c.says.kind)
    BY <2>1 DEF LastCallFits
  <2>3. QED
    BY <2>1, <2>2 DEF Fits
<1>5. SubCallsFit'
  <2> SUFFICES ASSUME NEW d \in calls'
               PROVE  /\ d.by = Ingress!Sub => d.says.kind \in {"tool-start", "tool-end", "confirm"}
                      /\ d.n = count /\ helper = "waiting" => d.says.kind = "confirm"
                      /\ d.n = count /\ helper = "busy" /\ d.by = Ingress!Sub => d.says.kind # "confirm"
                      /\ d.n = count /\ helper = "none" => d.by # Ingress!Sub
                      /\ phase = "waiting" /\ ~crossed /\ d.by = Ingress!Sub => d.says.kind # "confirm"
    BY DEF SubCallsFit
  <2>1. PICK c \in calls : d.n = c.n /\ d.by = c.by /\ d.says = c.says
    OBVIOUS
  <2>2. QED
    BY <2>1 DEF SubCallsFit
<1>6. MapFollows'
  BY DEF MapFollows, MainIsHeard, Shown
<1>7. QED
  BY <1>1, <1>2, <1>3, <1>4, <1>5, <1>6

\* What the daemon hands to handle_event: the main thread's last word is what it is doing,
\* and a subagent's does not take its parent's question down.
LEMMA HandlesKeeps ==
    ASSUME IngressInv, NEW c \in calls, Ingress!Handles(c)
    PROVE  IngressInv'
<1> USE DEF IngressInv
<1> DEFINE key == Ingress!Own
           kind == c.says.kind
<1>1. /\ calls' = calls \ {c} /\ store' = Ingress!Sessions!Handled(store, c.says)
      /\ last' = c.n /\ heard' = [heard EXCEPT ![c.by] = c.n]
      /\ UNCHANGED <<host, phase, helper, count, said, crossed>>
  BY DEF Ingress!Handles, Ingress!shape
<1>2. /\ c \in Calls /\ c.says \in Sayings /\ c.by \in Actors /\ c.n \in Nat /\ kind \in Kinds
      /\ c.says.actor = c.by /\ c.n <= said[c.by]
      /\ \A a \in Actors \ {c.by} : c.n # said[a]
  BY DEF IngressTypes, CallsAreTheirs, Calls, Sayings
<1>3. /\ Ingress!Main # Ingress!Sub /\ Ingress!Main \in Actors /\ Actors = {Ingress!Main, Ingress!Sub}
  BY DEF Ingress!Main, Ingress!Sub, Actors
<1>4. /\ count \in Nat /\ said[c.by] \in Nat /\ said[c.by] <= count /\ c.n <= count
      /\ heard' \in [Actors -> Nat] /\ heard'[c.by] = c.n
      /\ \A a \in Actors \ {c.by} : heard'[a] = heard[a]
      /\ \A a \in Actors : heard[a] <= count
  BY <1>1, <1>2 DEF IngressTypes
<1>5. /\ DOMAIN store' \subseteq {key}
      /\ key \in DOMAIN store' => store'[key] \in Ingress!Sessions!Session
      /\ kind = "session-end" => store' = <<>>
      /\ kind # "session-end" => DOMAIN store' = {key}
      /\ kind = "confirm" => store'[key].status = "confirm" /\ store'[key].confirm_actor = c.by
      /\ c.by = Ingress!Main =>
            /\ kind \in {"session-start", "idle"} => store'[key].status = "idle"
            /\ kind \in {"working", "tool-start", "tool-end"} => store'[key].status = "working"
      /\ c.by = Ingress!Sub /\ kind \in {"tool-start", "tool-end"} /\ DOMAIN store = {key} =>
            IF store[key].status = "confirm" /\ store[key].confirm_actor = Ingress!Main
            THEN store'[key].status = "confirm" /\ store'[key].confirm_actor = Ingress!Main
            ELSE store'[key].status = "working"
  <2>1. DOMAIN store \subseteq {key} /\ (key \in DOMAIN store => store[key] \in Ingress!Sessions!Session)
    BY DEF IngressTypes
  <2>2. HandlesTo(store, c.says, store')
    BY <1>1, <1>2, <2>1, HandledMap, Zenon
  <2>3. QED
    BY <1>2, <2>2 DEF HandlesTo
<1>6. IngressTypes'
  <2>1. \A a \in Actors : heard'[a] <= count
    BY <1>2, <1>4
  <2>2. calls' \subseteq Calls
    BY <1>1 DEF IngressTypes
  <2>3. QED
    BY <1>1, <1>2, <1>4, <1>5, <2>1, <2>2 DEF IngressTypes
<1>7. CallsAreTheirs'
  BY <1>1 DEF CallsAreTheirs
<1>8. HelperIsClaudes'
  BY <1>1, <1>4 DEF HelperIsClaudes
<1>9. LastCallFits' /\ SubCallsFit'
  BY <1>1 DEF LastCallFits, SubCallsFit, Fits
<1>10. MapFollows'
  <2>1. CASE c.by = Ingress!Main
    <3>1. MainIsHeard' => Fits(kind)
      BY <1>1, <1>4, <2>1 DEF MainIsHeard, LastCallFits
    <3>2. c.n = count => MainIsHeard'
      BY <1>1, <1>2, <1>4, <2>1 DEF MainIsHeard
    <3>3. phase = "off" /\ last' = count' => store' = <<>>
      BY <1>1, <1>5, <3>1, <3>2 DEF Fits
    <3>4. phase # "off" /\ MainIsHeard' => DOMAIN store' = {key}
      BY <1>5, <3>1 DEF Fits, IngressTypes
    <3>5. phase = "waiting" /\ MainIsHeard' =>
             store'[key].status = "confirm" /\ store'[key].confirm_actor = Ingress!Main
      BY <1>5, <2>1, <3>1 DEF Fits
    <3>6. helper = "waiting" /\ last' = count' => DOMAIN store' = {key} /\ store'[key].status = "confirm"
      BY <1>1, <1>5 DEF SubCallsFit
    <3>7. phase \in {"idle", "working"} /\ MainIsHeard' => store'[key].status = phase
      BY <1>5, <2>1, <3>1 DEF Fits
    <3>8. host = "junie" /\ phase = "tool" /\ MainIsHeard' => store'[key].status = "working"
      BY <1>5, <2>1, <3>1 DEF Fits
    <3> HIDE DEF key, kind
    <3>9. QED
      BY <1>1, <3>3, <3>4, <3>5, <3>6, <3>7, <3>8 DEF MapFollows, Shown, key
  <2>2. CASE c.by = Ingress!Sub
    <3>1. MainIsHeard' <=> MainIsHeard
      BY <1>1, <1>3, <1>4, <2>2 DEF MainIsHeard
    <3>2. kind \in {"tool-start", "tool-end", "confirm"} /\ host = "claude"
      BY <1>3, <2>2 DEF SubCallsFit, HelperIsClaudes
    <3>3. DOMAIN store' = {key}
      BY <1>5, <3>2
    <3>4. c.n = count => phase # "off"
      BY <2>2 DEF HelperIsClaudes, SubCallsFit
    <3>5. phase = "waiting" /\ ~crossed /\ MainIsHeard =>
             store'[key].status = "confirm" /\ store'[key].confirm_actor = Ingress!Main
      <4> SUFFICES ASSUME phase = "waiting", ~crossed, MainIsHeard
                   PROVE  store'[key].status = "confirm" /\ store'[key].confirm_actor = Ingress!Main
        OBVIOUS
      <4>1. kind \in {"tool-start", "tool-end"}
        BY <2>2, <3>2 DEF SubCallsFit
      <4>2. DOMAIN store = {key} /\ store[key].status = "confirm" /\ store[key].confirm_actor = Ingress!Main
        BY DEF MapFollows, Shown
      <4>3. QED
        BY <1>5, <2>2, <4>1, <4>2
    <3>6. helper = "waiting" /\ c.n = count => store'[key].status = "confirm"
      BY <1>5 DEF SubCallsFit
    <3>7. phase \in {"idle", "working"} /\ MainIsHeard =>
             \/ kind # "confirm" /\ store'[key].status = "working"
             \/ kind = "confirm" /\ store'[key].status = "confirm" /\ store'[key].confirm_actor = Ingress!Sub
      <4> SUFFICES ASSUME phase \in {"idle", "working"}, MainIsHeard
                   PROVE  \/ kind # "confirm" /\ store'[key].status = "working"
                          \/ kind = "confirm" /\ store'[key].status = "confirm" /\ store'[key].confirm_actor = Ingress!Sub
        OBVIOUS
      <4>1. DOMAIN store = {key} /\ (store[key].status = "confirm" => store[key].confirm_actor = Ingress!Sub)
        BY DEF MapFollows, Shown
      <4>2. QED
        BY <1>3, <1>5, <2>2, <3>2, <4>1
    <3>8. helper = "busy" /\ c.n = count => kind # "confirm"
      BY <2>2 DEF SubCallsFit
    <3>9. c.n # said[Ingress!Main]
      BY <1>2, <1>3, <2>2
    <3> HIDE DEF key, kind
    <3>10. QED
      BY <1>1, <3>1, <3>2, <3>3, <3>4, <3>5, <3>6, <3>7, <3>8, <3>9 DEF MapFollows, Shown, key
  <2>3. QED
    BY <1>2, <1>3, <2>1, <2>2
<1>11. QED
  BY <1>6, <1>7, <1>8, <1>9, <1>10

LEMMA DaemonKeeps == ASSUME IngressInv, Ingress!Daemon PROVE IngressInv'
<1>1. PICK c \in calls : Ingress!GivesUp(c) \/ Ingress!Loses(c) \/ Ingress!Acknowledges(c) \/ Ingress!Handles(c)
  BY DEF Ingress!Daemon
<1>2. c \in Calls /\ calls \subseteq Calls
  BY DEF IngressInv, IngressTypes
<1>3. ASSUME NEW at \in {"sent", "late", "taken"}, NEW d, d = [c EXCEPT !.at = at]
      PROVE  d \in Calls /\ d.n = c.n /\ d.by = c.by /\ d.says = c.says
  BY <1>2, <1>3 DEF Calls
<1>4. ASSUME NEW at \in {"sent", "late", "taken"}, calls' = (calls \ {c}) \cup {[c EXCEPT !.at = at]},
             UNCHANGED <<host, phase, helper, store, count, last, said, heard, crossed>>
      PROVE  IngressInv'
  <2>1. \A d \in calls' : d \in Calls /\ \E b \in calls : d.n = b.n /\ d.by = b.by /\ d.says = b.says
    BY <1>2, <1>3, <1>4
  <2>2. QED
    BY <1>4, <2>1, RequestsMove
<1>5. CASE Ingress!GivesUp(c)
  BY <1>4, <1>5 DEF Ingress!GivesUp, Ingress!shape
<1>6. CASE Ingress!Acknowledges(c)
  BY <1>4, <1>6 DEF Ingress!Acknowledges, Ingress!shape
<1>7. CASE Ingress!Loses(c)
  <2>1. /\ calls' = calls \ {c}
        /\ UNCHANGED <<host, phase, helper, store, count, last, said, heard, crossed>>
    BY <1>7 DEF Ingress!Loses, Ingress!shape
  <2>2. \A d \in calls' : d \in Calls /\ \E b \in calls : d.n = b.n /\ d.by = b.by /\ d.says = b.says
    BY <1>2, <2>1
  <2>3. QED
    BY <2>1, <2>2, RequestsMove
<1>8. QED
  BY <1>1, <1>5, <1>6, <1>7, HandlesKeeps

LEMMA IngressBegins ==
    ASSUME Ingress!IngressAssumption, Ingress!Init
    PROVE  IngressInv /\ os \in {"posix", "windows"}
<1>1. /\ host \in Hosts /\ phase = "off" /\ helper = "none" /\ calls = {} /\ store = <<>>
      /\ count = 0 /\ last = 0 /\ crossed = FALSE /\ heard = said
      /\ said = [a \in {Ingress!Main, Ingress!Sub} |-> 0]
      /\ os \in {"posix", "windows"}
  BY DEF Ingress!Init, Ingress!IngressAssumption
<1>2. DOMAIN store = {}
  BY <1>1
<1>3. IngressTypes
  <2>1. said \in [Actors -> Nat] /\ \A a \in Actors : said[a] = 0
    BY <1>1 DEF Actors
  <2>2. host \in {"claude", "codex", "copilot", "cursor", "junie"}
    BY <1>1 DEF Ingress!IngressAssumption
  <2>3. /\ last <= count /\ calls \subseteq Calls
        /\ \A a \in Actors : said[a] <= count /\ heard[a] <= count
        /\ DOMAIN store \subseteq {Ingress!Own} /\ Ingress!Own \notin DOMAIN store
    BY <1>1, <1>2, <2>1
  <2>4. /\ count \in Nat /\ last \in Nat /\ heard \in [Actors -> Nat] /\ crossed \in BOOLEAN
        /\ phase \in {"off", "idle", "working", "tool", "waiting", "answered"}
        /\ helper \in {"none", "busy", "waiting", "answered"}
    BY <1>1, <2>1
  <2>5. QED
    BY <2>1, <2>2, <2>3, <2>4 DEF IngressTypes
<1>4. CallsAreTheirs /\ HelperIsClaudes /\ LastCallFits /\ SubCallsFit
  BY <1>1 DEF CallsAreTheirs, HelperIsClaudes, LastCallFits, SubCallsFit, Actors
<1>5. MapFollows
  BY <1>1 DEF MapFollows
<1>6. QED
  BY <1>1, <1>3, <1>4, <1>5 DEF IngressInv

IngressHolds ==
    part = "ingress" => os \in {"posix", "windows"} /\ (Ingress!Scrapable => IngressInv)

LEMMA IngressSuffices == ASSUME Ingress!Scrapable => IngressInv PROVE Ingress!StatusIsTold
<1> SUFFICES ASSUME Ingress!Told, IngressInv
             PROVE  IF phase = "off" THEN last = count => store = <<>>
                    ELSE /\ DOMAIN store = {Ingress!Own}
                         /\ (phase = "waiting" /\ ~crossed) \/ (helper = "waiting" /\ last = count) =>
                               store[Ingress!Own].status = "confirm"
                         /\ phase \in {"idle", "working"} /\ last = said[Ingress!Main] =>
                               store[Ingress!Own].status = phase
                         /\ phase \in {"idle", "working"} /\ helper = "busy" /\ last = count /\ ~crossed =>
                               store[Ingress!Own].status # "confirm"
  BY DEF Ingress!StatusIsTold
<1>1. MainIsHeard
  BY DEF Ingress!Told, MainIsHeard
<1>2. QED
  BY <1>1 DEF IngressInv, MapFollows, Shown

LEMMA IngressNext ==
    ASSUME os \in {"posix", "windows"}, Ingress!Scrapable => IngressInv, Ingress!Next
    PROVE  os' \in {"posix", "windows"} /\ (Ingress!Scrapable => IngressInv)'
<1>1. UNCHANGED Ingress!shape
  BY DEF Ingress!Next, Ingress!Acts, Ingress!Helps, Ingress!Daemon, Ingress!Opens, Ingress!Prompts,
         Ingress!Uses, Ingress!Questions, Ingress!Reminds, Ingress!Answers, Ingress!Ends,
         Ingress!Stops, Ingress!Idles, Ingress!Leaves, Ingress!Spawns, Ingress!SubUses,
         Ingress!SubAsks, Ingress!SubAnswers, Ingress!SubEnds, Ingress!GivesUp, Ingress!Loses,
         Ingress!Acknowledges, Ingress!Handles, Ingress!MainFires, Ingress!SubFires, Ingress!Fire
<1>2. os' = os /\ Ingress!Scrapable' = Ingress!Scrapable
  BY <1>1 DEF Ingress!shape, Ingress!Scrapable
<1>3. Ingress!Scrapable => IngressInv'
  BY ActsKeep, HelpsKeep, DaemonKeeps DEF Ingress!Next
<1>4. QED
  BY <1>2, <1>3

LEMMA IngressStays ==
    ASSUME os \in {"posix", "windows"}, Ingress!Scrapable => IngressInv, UNCHANGED ingressVars
    PROVE  os' \in {"posix", "windows"} /\ (Ingress!Scrapable => IngressInv)'
<1>1. /\ UNCHANGED <<host, os, spaced, input, phase, helper, calls, store, count, last, said, heard, crossed>>
  BY DEF ingressVars
<1>2. os' = os /\ Ingress!Scrapable' = Ingress!Scrapable
  BY <1>1 DEF Ingress!Scrapable
<1>3. IngressInv => IngressInv'
  <2> SUFFICES ASSUME IngressInv PROVE IngressInv'
    OBVIOUS
  <2>1. \A c \in calls' : c \in Calls /\ \E b \in calls : c.n = b.n /\ c.by = b.by /\ c.says = b.says
    BY <1>1 DEF IngressInv, IngressTypes
  <2>2. QED
    BY <1>1, <2>1, RequestsMove
<1>4. QED
  BY <1>2, <1>3

--------------------------------------------------------------------------------
(* The agents' files: what is the user's, and what is ours.                        *)

LEMMA FilesWithin == ASSUME NEW s, NEW S PROVE Files!Within(s, S) = Within(s, S)
BY DEF Files!Within, Within

\* Sequences joined to one.
Joins(C) == [p \in Seq(C) \X Seq(C) |-> p[1] \o p[2]]
JoinedUpTo(g, s, n) == g = [i \in 1 .. n |-> IF i = 1 THEN s[i] ELSE g[i - 1] \o s[i]]
LEMMA FlattenIsFold ==
    ASSUME NEW C, NEW s \in Seq(Seq(C))
    PROVE  IsFold(Files!FlattenSeq(s), s, <<>>, Joins(C)) /\ Files!FlattenSeq(s) \in Seq(C)
<1>0. PICK X : X = Seq(C)
  OBVIOUS
<1>1. PICK n \in Nat : n = Len(s) /\ (n = 0 => s = <<>>) /\ \A i \in 1 .. n : s[i] \in Seq(C)
  <2>1. PICK t \in Seq(X) : t = s
    BY <1>0
  <2>2. PICK n \in Nat : n = Len(t)
    OBVIOUS
  <2>3. (n = 0 => t = <<>>) /\ \A i \in 1 .. n : t[i] \in X
    BY <2>2
  <2>4. QED
    BY <1>0, <2>1, <2>2, <2>3
<1>2. <<>> \in Seq(C) /\ Joins(C) \in [Seq(C) \X Seq(C) -> Seq(C)]
  <2>1. \A p \in Seq(C) \X Seq(C) : p[1] \o p[2] \in Seq(C)
    OBVIOUS
  <2>2. QED
    BY <2>1 DEF Joins
<1>3. PICK f \in [0 .. n -> Seq(C)] : Folds(f, s, <<>>, Joins(C))
  <2>1. \E f \in [0 .. Len(s) -> Seq(C)] : Folds(f, s, <<>>, Joins(C))
    BY <1>2, FoldsExist
  <2>2. QED
    BY <1>1, <2>1, Zenon
<1>4. f[0] = <<>> /\ \A i \in 1 .. n : f[i] = f[i - 1] \o s[i]
  <2>1. f[0] = <<>>
    BY <1>3 DEF Folds
  <2>2. ASSUME NEW i \in 1 .. n PROVE f[i] = f[i - 1] \o s[i]
    <3>1. PICK u \in Seq(C), x \in Seq(C) : u = f[i - 1] /\ x = s[i]
      <4>1. i - 1 \in 0 .. n
        OBVIOUS
      <4>2. f[i - 1] \in Seq(C) /\ s[i] \in Seq(C)
        BY <1>1, <4>1
      <4>3. QED
        BY <4>2, Zenon
    <3>2. f[i] = Joins(C)[<<u, x>>]
      BY <1>1, <1>3, <3>1 DEF Folds
    <3>3. Joins(C)[<<u, x>>] = u \o x
      BY DEF Joins
    <3>4. QED
      BY <3>1, <3>2, <3>3
  <2>3. QED
    BY <2>1, <2>2
<1>5. f[n] \in Seq(C)
  OBVIOUS
<1>6. Files!FlattenSeq(s) = f[n]
  <2>1. CASE n = 0
    <3>1. s = <<>>
      BY <1>1, <2>1
    <3>2. QED
      BY <1>1, <1>4, <2>1, <3>1, Zenon DEF Files!FlattenSeq
  <2>2. CASE n # 0
    <3>1. PICK g : g = [i \in 1 .. n |-> f[i]]
      OBVIOUS
    <3>2. \A i \in 1 .. n : f[i] = IF i = 1 THEN s[i] ELSE g[i - 1] \o s[i]
      <4>1. ASSUME NEW i \in 1 .. n, i = 1 PROVE f[i] = s[i]
        <5>1. f[1] = f[0] \o s[1] /\ s[1] \in Seq(C)
          <6>1. f[1] = f[1 - 1] \o s[1] /\ s[1] \in Seq(C)
            BY <1>1, <1>4, <4>1, Zenon
          <6>2. QED
            BY <6>1
        <5>2. f[1] = s[1]
          BY <1>4, <5>1
        <5>3. QED
          BY <4>1, <5>2
      <4>2. ASSUME NEW i \in 1 .. n, i # 1 PROVE f[i] = g[i - 1] \o s[i]
        <5>1. i - 1 \in 1 .. n
          BY <4>2
        <5>2. QED
          BY <1>4, <3>1, <5>1
      <4>3. QED
        BY <4>1, <4>2
    <3>3. JoinedUpTo(g, s, n)
      BY <3>1, <3>2, Zenon DEF JoinedUpTo
    <3>4. PICK w : JoinedUpTo(w, s, n) /\ Files!FlattenSeq(s) = w[n]
      <4> DEFINE v == CHOOSE v : v = [i \in 1 .. n |-> IF i = 1 THEN s[i] ELSE v[i - 1] \o s[i]]
      <4>1. JoinedUpTo(v, s, n)
        BY <3>3, Zenon DEF JoinedUpTo
      <4>2. Files!FlattenSeq(s) = v[n]
        BY <1>1, <2>2, Zenon DEF Files!FlattenSeq
      <4> HIDE DEF v
      <4>3. QED
        BY <4>1, <4>2
    <3>5. PICK t : t = [i \in 0 .. n |-> IF i = 0 THEN <<>> ELSE w[i]]
      OBVIOUS
    <3>6. \A i \in 1 .. n : w[i] = IF i = 1 THEN s[i] ELSE w[i - 1] \o s[i]
      BY <3>4 DEF JoinedUpTo
    <3>7. \A i \in 1 .. n : t[i - 1] = f[i - 1] => t[i] = f[i]
      <4>1. ASSUME NEW i \in 1 .. n, i = 1 PROVE t[i] = f[i]
        <5>1. f[i] = s[i]
          BY <3>2, <4>1
        <5>2. w[i] = s[i] /\ t[i] = w[i]
          BY <3>5, <3>6, <4>1
        <5>3. QED
          BY <5>1, <5>2
      <4>2. ASSUME NEW i \in 1 .. n, t[i - 1] = f[i - 1], i # 1 PROVE t[i] = f[i]
        <5>1. i - 1 \in 1 .. n /\ i - 1 \in 0 .. n /\ i - 1 # 0 /\ i \in 0 .. n /\ i # 0
          BY <4>2
        <5>2. t[i - 1] = w[i - 1] /\ t[i] = w[i]
          BY <3>5, <5>1
        <5>3. w[i] = w[i - 1] \o s[i] /\ f[i] = f[i - 1] \o s[i]
          BY <1>4, <3>6, <4>2
        <5>4. QED
          BY <4>2, <5>2, <5>3
      <4>3. QED
        BY <4>1, <4>2
    <3>8. GoesAlong(t, f, n)
      <4>1. t[0] = <<>>
        BY <3>5
      <4>2. QED
        BY <1>4, <3>7, <4>1 DEF GoesAlong
    <3>9. t[n] = f[n]
      <4>1. SameTo(t, f, n)
        BY <3>8, Alike
      <4>2. QED
        BY <4>1 DEF SameTo
    <3>10. t[n] = w[n]
      BY <2>2, <3>5
    <3>11. QED
      BY <3>4, <3>9, <3>10
  <2>3. QED
    BY <2>1, <2>2
<1>7. QED
  BY <1>1, <1>3, <1>5, <1>6 DEF IsFold

\* The joined sequence of no sequence, and of one more.
LEMMA FlattenEmpty == Files!FlattenSeq(<<>>) = <<>>
<1>1. <<>> \in Seq(Seq({}))
  OBVIOUS
<1>2. IsFold(Files!FlattenSeq(<<>>), <<>>, <<>>, Joins({}))
  BY <1>1, FlattenIsFold
<1>3. QED
  BY <1>2, FoldEmpty

LEMMA FlattenAppend ==
    ASSUME NEW C, NEW s \in Seq(Seq(C)), NEW x \in Seq(C)
    PROVE  Files!FlattenSeq(Append(s, x)) = Files!FlattenSeq(s) \o x
<1>1. PICK X : X = Seq(C)
  OBVIOUS
<1>2. PICK t \in Seq(X) : t = Append(s, x)
  <2>1. Append(s, x) \in Seq(X)
    BY <1>1
  <2>2. QED
    BY <2>1, Zenon
<1>3. PICK u \in Seq(C) : u = Files!FlattenSeq(s) /\ IsFold(u, s, <<>>, Joins(C))
  BY FlattenIsFold
<1>4. PICK v : v = Files!FlattenSeq(t) /\ IsFold(v, t, <<>>, Joins(C))
  BY <1>1, FlattenIsFold
<1>5. v = Joins(C)[<<u, x>>]
  BY <1>1, <1>2, <1>3, <1>4, FoldAppend
<1>6. Joins(C)[<<u, x>>] = u \o x
  BY DEF Joins
<1>7. QED
  BY <1>2, <1>3, <1>4, <1>5, <1>6

\* _strip_ours takes our commands out of every group, and then the groups without any.
Kept(g) == Within(g, Files!Theirs)
Stripped(s) == [i \in DOMAIN s |-> Kept(s[i])]
Left == Seq(Files!Theirs) \ {<<>>}
Entries == Seq(Seq(Files!Commands))

LEMMA TheirsAreCommands == Files!Theirs \subseteq Files!Commands
BY DEF Files!Theirs, Files!Commands

LEMMA StripIs == ASSUME NEW s PROVE Files!StripOurs(s) = Within(Stripped(s), Left)
<1>1. \A g : Files!Within(g, Files!Theirs) = Kept(g)
  BY FilesWithin, Zenon DEF Kept
<1>2. [i \in DOMAIN s |-> Files!Within(s[i], Files!Theirs)] = Stripped(s)
  BY <1>1 DEF Stripped
<1>3. QED
  BY <1>2, FilesWithin, Zenon DEF Files!StripOurs, Left

LEMMA KeptAreTheirs ==
    ASSUME NEW g \in Seq(Files!Commands)
    PROVE  Kept(g) \in Seq(Files!Theirs) /\ Kept(g) \in Seq(Files!Commands)
<1>1. PICK k \in Seq(Files!Commands) : k = Kept(g) /\ Range(k) = Range(g) \cap Files!Theirs
  BY WithinRange DEF Kept
<1>2. k \in Seq(Files!Theirs)
  <2>1. \A i \in DOMAIN k : k[i] \in Files!Theirs
    BY <1>1 DEF Range
  <2>2. QED
    BY <2>1
<1>3. QED
  BY <1>1, <1>2

LEMMA StrippedSequence ==
    ASSUME NEW s \in Entries
    PROVE  Stripped(s) \in Seq(Seq(Files!Theirs)) /\ Len(Stripped(s)) = Len(s)
<1>1. \A i \in DOMAIN s : Kept(s[i]) \in Seq(Files!Theirs)
  <2>1. \A i \in DOMAIN s : s[i] \in Seq(Files!Commands)
    BY DEF Entries
  <2>2. QED
    BY <2>1, KeptAreTheirs
<1>2. PICK n \in Nat : n = Len(s) /\ DOMAIN s = 1 .. n
  BY DEF Entries
<1>3. QED
  BY <1>1, <1>2 DEF Stripped

LEMMA StripIsTheirs ==
    ASSUME NEW s \in Entries
    PROVE  /\ Files!StripOurs(s) \in Seq(Seq(Files!Theirs))
           /\ Range(Files!StripOurs(s)) \subseteq Left
           /\ Files!StripOurs(s) \in Entries
<1>1. PICK X : X = Seq(Files!Theirs)
  OBVIOUS
<1>2. PICK t \in Seq(X) : t = Stripped(s)
  <2>1. Stripped(s) \in Seq(X)
    BY <1>1, StrippedSequence
  <2>2. QED
    BY <2>1, Zenon
<1>3. PICK u : u = Within(t, Left) /\ u \in Seq(X) /\ Range(u) = Range(t) \cap Left
  BY WithinRange
<1>4. u = Files!StripOurs(s)
  BY <1>2, <1>3, StripIs
<1>5. X \subseteq Seq(Files!Commands)
  BY <1>1, TheirsAreCommands
<1>6. u \in Seq(Seq(Files!Commands))
  BY <1>3, <1>5
<1>7. QED
  BY <1>1, <1>3, <1>4, <1>6 DEF Entries

\* Taking out what is not there changes nothing.
LEMMA NothingToStrip ==
    ASSUME NEW s \in Seq(Seq(Files!Theirs)), Range(s) \subseteq Left
    PROVE  Files!StripOurs(s) = s
<1>1. \A i \in DOMAIN s : Kept(s[i]) = s[i]
  <2> SUFFICES ASSUME NEW i \in DOMAIN s PROVE Kept(s[i]) = s[i]
    OBVIOUS
  <2>1. PICK g \in Seq(Files!Theirs) : g = s[i]
    <3>1. s[i] \in Seq(Files!Theirs)
      OBVIOUS
    <3>2. QED
      BY <3>1, Zenon
  <2>2. Range(g) \subseteq Files!Theirs
    BY DEF Range
  <2>3. QED
    BY <2>1, <2>2, WithinAll DEF Kept
<1>2. Stripped(s) = s
  <2>1. [i \in DOMAIN s |-> Kept(s[i])] = [i \in DOMAIN s |-> s[i]]
    BY <1>1
  <2>2. s = [i \in DOMAIN s |-> s[i]]
    OBVIOUS
  <2>3. QED
    BY <2>1, <2>2 DEF Stripped
<1>3. Within(s, Left) = s
  BY WithinAll
<1>4. QED
  BY <1>2, <1>3, StripIs

LEMMA StripTwice == ASSUME NEW s \in Entries PROVE Files!StripOurs(Files!StripOurs(s)) = Files!StripOurs(s)
<1>1. PICK u : u = Files!StripOurs(s)
  OBVIOUS
<1>2. u \in Seq(Seq(Files!Theirs)) /\ Range(u) \subseteq Left
  BY <1>1, StripIsTheirs
<1>3. QED
  BY <1>1, <1>2, NothingToStrip

LEMMA StripConcat ==
    ASSUME NEW s \in Entries, NEW t \in Entries
    PROVE  Files!StripOurs(s \o t) = Files!StripOurs(s) \o Files!StripOurs(t)
<1>1. PICK X : X = Seq(Files!Theirs)
  OBVIOUS
<1>2. PICK a \in Seq(X) : a = Stripped(s) /\ Len(a) = Len(s)
  BY <1>1, StrippedSequence, Zenon
<1>3. PICK b \in Seq(X) : b = Stripped(t) /\ Len(b) = Len(t)
  BY <1>1, StrippedSequence, Zenon
<1>4. PICK c : c = s \o t
  OBVIOUS
<1>5. Stripped(c) = a \o b
  <2>1. PICK m \in Nat, n \in Nat : m = Len(s) /\ n = Len(t)
    BY DEF Entries
  <2>2. /\ DOMAIN c = 1 .. m + n
        /\ \A i \in 1 .. m + n : c[i] = IF i <= m THEN s[i] ELSE t[i - m]
    BY <1>4, <2>1 DEF Entries
  <2>3. /\ DOMAIN (a \o b) = 1 .. m + n
        /\ \A i \in 1 .. m + n : (a \o b)[i] = IF i <= m THEN a[i] ELSE b[i - m]
    BY <1>2, <1>3, <2>1
  <2>4. (\A i \in 1 .. m : a[i] = Kept(s[i])) /\ (\A i \in 1 .. n : b[i] = Kept(t[i]))
    <3>1. DOMAIN s = 1 .. m /\ DOMAIN t = 1 .. n
      BY <2>1 DEF Entries
    <3>2. QED
      BY <1>2, <1>3, <3>1 DEF Stripped
  <2>5. \A i \in 1 .. m + n : Kept(c[i]) = (a \o b)[i]
    <3> SUFFICES ASSUME NEW i \in 1 .. m + n PROVE Kept(c[i]) = (a \o b)[i]
      OBVIOUS
    <3>1. CASE i <= m
      <4>1. i \in 1 .. m
        BY <3>1
      <4>2. c[i] = s[i] /\ (a \o b)[i] = a[i]
        BY <2>2, <2>3, <3>1
      <4>3. QED
        BY <2>4, <4>1, <4>2
    <3>2. CASE ~(i <= m)
      <4>1. i - m \in 1 .. n
        BY <3>2
      <4>2. c[i] = t[i - m] /\ (a \o b)[i] = b[i - m]
        BY <2>2, <2>3, <3>2
      <4>3. QED
        BY <2>4, <4>1, <4>2
    <3>3. QED
      BY <3>1, <3>2
  <2>6. [i \in 1 .. m + n |-> Kept(c[i])] = [i \in 1 .. m + n |-> (a \o b)[i]]
    BY <2>5
  <2>7. a \o b = [i \in 1 .. m + n |-> (a \o b)[i]]
    <3>1. a \o b \in Seq(X)
      OBVIOUS
    <3>2. PICK d \in Seq(X) : d = a \o b
      BY <3>1, Zenon
    <3>3. d = [i \in DOMAIN d |-> d[i]]
      OBVIOUS
    <3>4. QED
      BY <2>3, <3>2, <3>3
  <2>8. QED
    BY <2>2, <2>6, <2>7 DEF Stripped
<1>6. Within(a \o b, Left) = Within(a, Left) \o Within(b, Left)
  BY WithinConcat
<1>7. QED
  BY <1>2, <1>3, <1>4, <1>5, <1>6, StripIs

\* What is the user's of the groups is what _strip_ours leaves of them.
UsersOf(s) == Files!Within(Files!FlattenSeq(s), Files!Theirs)
LEMMA UsersAreLeft ==
    ASSUME NEW s \in Entries
    PROVE  UsersOf(s) = Files!FlattenSeq(Files!StripOurs(s))
<1> DEFINE P == {t \in Entries : UsersOf(t) = Files!FlattenSeq(Files!StripOurs(t))}
<1>1. <<>> \in P
  <2>1. <<>> \in Entries
    BY DEF Entries
  <2>2. UsersOf(<<>>) = <<>>
    BY FlattenEmpty, FilesWithin, WithinEmpty DEF UsersOf
  <2>3. Files!StripOurs(<<>>) = <<>>
    <3>1. <<>> \in Seq(Seq(Files!Theirs)) /\ Range(<<>>) \subseteq Left
      BY DEF Range
    <3>2. QED
      BY <3>1, NothingToStrip
  <2>4. QED
    BY <2>1, <2>2, <2>3, FlattenEmpty
<1>2. ASSUME NEW t \in Entries, NEW g \in Seq(Files!Commands), t \in P
      PROVE  Append(t, g) \in P
  <2>1. PICK X, k : X = Seq(Files!Theirs) /\ k = Kept(g) /\ k \in X
    BY KeptAreTheirs
  <2>2. PICK a \in Seq(X) : a = Stripped(t)
    <3>1. Stripped(t) \in Seq(X)
      BY <2>1, StrippedSequence
    <3>2. QED
      BY <3>1, Zenon
  <2>3. PICK u \in Seq(X) : u = Files!StripOurs(t) /\ u = Within(a, Left)
    <3>1. Files!StripOurs(t) \in Seq(X)
      BY <2>1, StripIsTheirs
    <3>2. QED
      BY <2>2, <3>1, StripIs, Zenon
  <2>4. Stripped(Append(t, g)) = Append(a, k)
    <3>1. PICK n \in Nat : n = Len(t) /\ DOMAIN t = 1 .. n
      BY DEF Entries
    <3>2. /\ DOMAIN Append(t, g) = 1 .. n + 1 /\ Append(t, g)[n + 1] = g
          /\ \A i \in 1 .. n : Append(t, g)[i] = t[i]
      BY <3>1 DEF Entries
    <3>3. a = [i \in 1 .. n |-> Kept(t[i])]
      BY <2>2, <3>1 DEF Stripped
    <3>4. Len(a) = n
      BY <3>3
    <3>5. \A i \in 1 .. n + 1 : Kept(Append(t, g)[i]) = Append(a, k)[i]
      <4>1. \A i \in 1 .. n : a[i] = Kept(t[i])
        BY <3>3
      <4>2. \A i \in 1 .. n : Append(a, k)[i] = a[i]
        BY <3>4
      <4>3. Append(a, k)[n + 1] = k
        BY <3>4
      <4>4. \A i \in 1 .. n : Kept(Append(t, g)[i]) = Append(a, k)[i]
        BY <3>2, <4>1, <4>2
      <4>5. Kept(Append(t, g)[n + 1]) = Append(a, k)[n + 1]
        BY <2>1, <3>2, <4>3
      <4>6. \A i \in 1 .. n + 1 : i \in 1 .. n \/ i = n + 1
        OBVIOUS
      <4>7. QED
        BY <4>4, <4>5, <4>6
    <3>6. [i \in 1 .. n + 1 |-> Kept(Append(t, g)[i])] = [i \in 1 .. n + 1 |-> Append(a, k)[i]]
      BY <3>5
    <3>7. Append(a, k) = [i \in 1 .. n + 1 |-> Append(a, k)[i]]
      <4>1. Append(a, k) \in Seq(X) /\ DOMAIN Append(a, k) = 1 .. n + 1
        BY <2>1, <3>4
      <4>2. PICK d \in Seq(X) : d = Append(a, k)
        BY <4>1, Zenon
      <4>3. d = [i \in DOMAIN d |-> d[i]]
        OBVIOUS
      <4>4. QED
        BY <4>1, <4>2, <4>3
    <3>8. QED
      BY <3>2, <3>6, <3>7 DEF Stripped
  <2>5. PICK v \in Seq(Files!Commands) : v = Files!FlattenSeq(t)
    <3>1. Files!FlattenSeq(t) \in Seq(Files!Commands)
      BY FlattenIsFold DEF Entries
    <3>2. QED
      BY <3>1, Zenon
  <2>6. Files!FlattenSeq(Append(t, g)) = v \o g
    BY <2>5, FlattenAppend DEF Entries
  <2>7. UsersOf(Append(t, g)) = UsersOf(t) \o k
    <3>1. Within(v \o g, Files!Theirs) = Within(v, Files!Theirs) \o Within(g, Files!Theirs)
      BY WithinConcat
    <3>2. QED
      BY <2>1, <2>5, <2>6, <3>1, FilesWithin DEF UsersOf, Kept
  <2>8. PICK w \in Seq(Files!Theirs) : w = Files!FlattenSeq(u)
    <3>1. Files!FlattenSeq(u) \in Seq(Files!Theirs)
      BY <2>1, <2>3, FlattenIsFold
    <3>2. QED
      BY <3>1, Zenon
  <2>9. UsersOf(t) = w
    BY <1>2, <2>3, <2>8
  <2>10. Files!FlattenSeq(Files!StripOurs(Append(t, g))) = w \o k
    <3>1. Passes(a, k, Left)
      BY <2>1, WithinAppend
    <3>2. CASE k = <<>>
      <4>1. k \notin Left
        BY <3>2 DEF Left
      <4>2. Files!StripOurs(Append(t, g)) = u
        BY <2>3, <2>4, <3>1, <4>1, StripIs DEF Passes
      <4>3. w \o k = w
        BY <3>2
      <4>4. QED
        BY <2>8, <4>2, <4>3
    <3>3. CASE k # <<>>
      <4>1. k \in Left
        BY <2>1, <3>3 DEF Left
      <4>2. Files!StripOurs(Append(t, g)) = Append(u, k)
        BY <2>3, <2>4, <3>1, <4>1, StripIs DEF Passes
      <4>3. Files!FlattenSeq(Append(u, k)) = Files!FlattenSeq(u) \o k
        BY <2>1, <2>3, FlattenAppend
      <4>4. QED
        BY <2>8, <4>2, <4>3
    <3>4. QED
      BY <3>2, <3>3
  <2>11. Append(t, g) \in Entries
    BY DEF Entries
  <2>12. QED
    BY <2>7, <2>9, <2>10, <2>11
<1>3. Entries \subseteq P
  <2>1. PICK X : X = Seq(Files!Commands)
    OBVIOUS
  <2>2. \A t \in Seq(X), g \in X : t \in P => Append(t, g) \in P
    BY <1>2, <2>1 DEF Entries
  <2> HIDE DEF P
  <2>3. Seq(X) \subseteq P
    BY <1>1, <2>2, AllSequences
  <2>4. QED
    BY <2>1, <2>3 DEF Entries
<1>4. QED
  BY <1>3

\* What a step of a command makes of a file it is about.
JobSteps == {"hooks", "flag", "notify"}
Actions == {"install", "uninstall"}
PathsOf(k) ==
    IF k = "hooks" THEN {"hooks"} ELSE IF k = "notify" /\ agent = "claude" THEN Files!Paths ELSE {"servers"}
Change(k, a, p, f) ==
    IF k = "hooks" THEN IF a = "install" THEN Files!Merged(f) ELSE Files!Unmerged(f)
    ELSE IF k = "flag" THEN Files!Flagged(f)
    ELSE IF p = "servers" THEN IF a = "install" THEN Files!Registered(f) ELSE Files!Unregistered(f)
    ELSE IF a = "install" THEN Files!Allowed(f) ELSE Files!Disallowed(f)
Changed(p) == Change(job.step, job.action, p, files[p])
IsText(f) == f \in Files!Texts /\ (f.kind = "absent" => f = Files!Blank)
Rests(k, a, p, f) == f.kind # "broken" /\ Change(k, a, p, f) = f

JobTypes ==
    /\ job = [phase |-> job.phase, caller |-> job.caller, action |-> job.action, step |-> job.step,
              plans |-> job.plans, untouched |-> job.untouched]
    /\ job.action \in Actions /\ job.step \in JobSteps
    /\ job.phase \in {"idle", "plan", "asked", "backup", "replace"}
FileTypes ==
    /\ agent \in {"claude", "codex", "cursor"} /\ version \in {"unknown", "early", "gated", "modern"}
    /\ files = [p \in Files!Paths |-> files[p]] /\ \A p \in Files!Paths : IsText(files[p])
    /\ second \in Nat
    /\ backups = [p \in Files!Paths |-> backups[p]]
    /\ \A p \in Files!Paths : DOMAIN backups[p] \subseteq 0 .. second
    /\ wanted = [p \in Files!Paths |-> wanted[p]]
    /\ since \in [Files!Paths -> Nat]
    /\ overtaken \subseteq Files!Paths
    /\ \A p \in overtaken : files[p].kind # "absent"
    /\ settled \in [JobSteps -> Actions \cup {"none"}]
    /\ JobTypes

\* A text of the user's that a plan was overtaken by is in a backup, which has fewer newer
\* ones than were taken since; or the user wrote it in the instant before the rename.
Newer(copies, s) == {t \in DOMAIN copies : t > s}
HasIt(copies, text, n) == \E s \in DOMAIN copies : Files!Users(copies[s]) = text /\ Cardinality(Newer(copies, s)) < n
Saved(p) ==
    /\ p \in overtaken
    /\ p \in hasty \/ since[p] > KeepBackups \/ HasIt(backups[p], wanted[p], since[p])
TextIsKept == \A p \in Files!Paths : Files!Users(files[p]) = wanted[p] \/ Saved(p)

\* Nobody wrote the file since the plans were made, as far as anyone relies on that.
Trusted(p) == job.untouched = TRUE \/ \E k \in JobSteps \ {job.step} : settled[k] # "none" /\ p \in PathsOf(k)

\* A plan that waits: it is at rest when it is written, and has the user's part of the file
\* unless the file was written since.
PlanHolds(q) ==
    /\ q.path \in PathsOf(job.step) /\ IsText(q.after) /\ q.after.kind = "json"
    /\ Rests(job.step, job.action, q.path, q.after)
    /\ Files!Users(q.after) = Files!Users(files[q.path]) \/ q.path \in overtaken
    /\ Trusted(q.path) => q.after = Changed(q.path) /\ files[q.path].kind # "broken"
\* The plan that is next: the only one, when what it is not about is at rest already, or
\* the server's, before the rule's.
OnlyPlan(q) ==
    /\ job.plans = <<q>>
    /\ job.step = "notify" /\ job.untouched = TRUE =>
          \A p \in PathsOf("notify") \ {q.path} : Rests("notify", job.action, p, files[p])
FirstPlan(q) ==
    /\ job.step = "notify" /\ q.path = "servers"
    /\ \E r : job.plans = <<q, r>> /\ PlanHolds(r) /\ r.path = "hooks"
SafeToWrite(q) == Files!Users(q.after) = Files!Users(files[q.path]) \/ Saved(q.path)
Waiting == job.phase \in {"asked", "backup", "replace"}
PlansHold ==
    Waiting => \E q : PlanHolds(q) /\ (OnlyPlan(q) \/ FirstPlan(q)) /\ (job.phase = "replace" => SafeToWrite(q))

\* What was written and not edited since is at rest.
SettledRests ==
    \A k \in JobSteps : settled[k] # "none" => \A p \in PathsOf(k) : Rests(k, settled[k], p, files[p])

FilesInv == FileTypes /\ TextIsKept /\ PlansHold /\ SettledRests

\* What is rendered for an event: groups of one command of ours, and at least one.
Marked == Seq(Files!Commands) \ Seq(Files!Theirs)
OurGroup(g) == \E x \in Files!Does : g = <<Files!Command("us", x)>>
LEMMA GroupIsOurs ==
    ASSUME NEW g, OurGroup(g)
    PROVE  g \in Seq(Files!Commands) /\ g \in Marked /\ Kept(g) = <<>> /\ Files!Points(g)
<1>1. PICK x \in Files!Does : g = <<Files!Command("us", x)>>
  BY DEF OurGroup
<1>2. PICK c : c = Files!Command("us", x) /\ c \in Files!Commands /\ c \notin Files!Theirs /\ c.by = "us"
  <2> DEFINE d == Files!Command("us", x)
  <2>1. d.by = "us" /\ d \in [by : {"user", "us", "old"}, does : Files!Does]
    BY DEF Files!Command
  <2>2. d \notin Files!Theirs
    BY <2>1 DEF Files!Theirs
  <2>3. QED
    BY <2>1, <2>2 DEF Files!Commands
<1>3. g = <<c>> /\ g \in Seq(Files!Commands) /\ DOMAIN g = {1} /\ g[1] = c
  BY <1>1, <1>2
<1>4. g \notin Seq(Files!Theirs)
  <2>1. g \in Seq(Files!Theirs) => g[1] \in Files!Theirs
    BY <1>3
  <2>2. QED
    BY <1>2, <1>3, <2>1
<1>5. Range(g) \cap Files!Theirs = {}
  BY <1>2, <1>3 DEF Range
<1>6. Kept(g) = <<>>
  BY <1>3, <1>5, WithinNone DEF Kept
<1>7. Files!Points(g)
  BY <1>2, <1>3 DEF Files!Points
<1>8. QED
  BY <1>3, <1>4, <1>6, <1>7 DEF Marked

LEMMA RenderedIs ==
    ASSUME Files!FilesAssumption, NEW e \in Files!Events
    PROVE  /\ Files!Rendered(e) \in Entries /\ Files!Rendered(e) # <<>>
           /\ \A i \in DOMAIN Files!Rendered(e) : OurGroup(Files!Rendered(e)[i])
<1> DEFINE B == [event : STRING, does : STRING]
           bound == Within(Bindings, {b \in Range(Bindings) : b.event = e})
<1>1. Bindings \in Seq(B)
  BY DEF Files!FilesAssumption
<1>2. bound \in Seq(B) /\ Range(bound) = Range(Bindings) \cap {b \in Range(Bindings) : b.event = e}
  BY <1>1, WithinRange
<1>3. bound # <<>>
  <2>1. PICK i \in DOMAIN Bindings : Bindings[i].event = e
    BY DEF Files!Events
  <2>2. Bindings[i] \in Range(bound)
    BY <1>2, <2>1 DEF Range
  <2>3. QED
    BY <2>2 DEF Range
<1>4. Files!Rendered(e) = [i \in DOMAIN bound |-> <<Files!Command("us", bound[i].does)>>]
  <2>1. Files!Range(Bindings) = Range(Bindings)
    BY DEF Files!Range, Range
  <2>2. Files!Within(Bindings, {b \in Files!Range(Bindings) : b.event = e}) = bound
    BY <2>1, FilesWithin
  <2>3. QED
    BY <2>2, Zenon DEF Files!Rendered
<1> HIDE DEF bound
<1>5. PICK n \in Nat : n = Len(bound) /\ DOMAIN bound = 1 .. n /\ n # 0
  BY <1>2, <1>3
<1>6. \A i \in 1 .. n : OurGroup(Files!Rendered(e)[i])
  <2> SUFFICES ASSUME NEW i \in 1 .. n PROVE OurGroup(Files!Rendered(e)[i])
    OBVIOUS
  <2>1. PICK Y : Y = B
    OBVIOUS
  <2>2. PICK u \in Seq(Y) : u = bound
    BY <1>2, <2>1, Zenon
  <2>3. bound[i].does \in Files!Does
    <3>1. u[i] \in Range(bound)
      BY <1>5, <2>2 DEF Range
    <3>2. PICK j \in DOMAIN Bindings : u[i] = Bindings[j]
      BY <1>2, <3>1 DEF Range
    <3>3. QED
      BY <2>2, <3>2 DEF Files!Does
  <2>4. Files!Rendered(e)[i] = <<Files!Command("us", bound[i].does)>>
    BY <1>4, <1>5
  <2>5. QED
    BY <2>3, <2>4 DEF OurGroup
<1>7. \A i \in 1 .. n : Files!Rendered(e)[i] \in Seq(Files!Commands)
  BY <1>6, GroupIsOurs
<1>8. PICK r : r = Files!Rendered(e) /\ r = [i \in 1 .. n |-> r[i]]
  BY <1>4, <1>5
<1>9. r \in Entries /\ Len(r) = n
  BY <1>7, <1>8 DEF Entries
<1>10. DOMAIN r = 1 .. n /\ r # <<>>
  BY <1>5, <1>8, <1>9
<1>11. QED
  BY <1>6, <1>8, <1>9, <1>10

LEMMA StripRendered ==
    ASSUME Files!FilesAssumption, NEW e \in Files!Events
    PROVE  Files!StripOurs(Files!Rendered(e)) = <<>>
<1>1. PICK r \in Entries : r = Files!Rendered(e) /\ \A i \in DOMAIN r : OurGroup(r[i])
  BY RenderedIs, Zenon
<1>2. PICK X : X = Seq(Files!Theirs)
  OBVIOUS
<1>3. PICK t \in Seq(X) : t = Stripped(r)
  <2>1. Stripped(r) \in Seq(X)
    BY <1>2, StrippedSequence
  <2>2. QED
    BY <2>1, Zenon
<1>4. \A i \in DOMAIN t : t[i] = <<>>
  BY <1>1, <1>3, GroupIsOurs DEF Stripped
<1>5. Range(t) \cap Left = {}
  BY <1>4 DEF Range, Left
<1>6. QED
  BY <1>1, <1>3, <1>5, WithinNone, StripIs

\* Merging again, and counting the user's commands, after ours were put in or taken out.
LEMMA StripMerged ==
    ASSUME Files!FilesAssumption, NEW e \in Files!Events, NEW s \in Entries
    PROVE  /\ Files!StripOurs(s) \o Files!Rendered(e) \in Entries
           /\ Files!StripOurs(Files!StripOurs(s) \o Files!Rendered(e)) = Files!StripOurs(s)
<1>1. PICK u \in Entries : u = Files!StripOurs(s) /\ Files!StripOurs(u) = u
  <2>1. Files!StripOurs(s) \in Entries /\ Files!StripOurs(Files!StripOurs(s)) = Files!StripOurs(s)
    BY StripIsTheirs, StripTwice
  <2>2. QED
    BY <2>1, Zenon
<1>2. PICK r \in Entries : r = Files!Rendered(e) /\ Files!StripOurs(r) = <<>>
  <2>1. Files!Rendered(e) \in Entries /\ Files!StripOurs(Files!Rendered(e)) = <<>>
    BY RenderedIs, StripRendered
  <2>2. QED
    BY <2>1, Zenon
<1>3. u \o r \in Entries /\ u \o <<>> = u
  BY DEF Entries
<1>4. Files!StripOurs(u \o r) = u \o <<>>
  BY <1>1, <1>2, StripConcat
<1>5. QED
  BY <1>1, <1>2, <1>3, <1>4

LEMMA UsersMerged ==
    ASSUME Files!FilesAssumption, NEW e \in Files!Events, NEW s \in Entries
    PROVE  UsersOf(Files!StripOurs(s) \o Files!Rendered(e)) = UsersOf(s)
<1>1. PICK m : m = Files!StripOurs(s) \o Files!Rendered(e)
  OBVIOUS
<1>2. m \in Entries /\ Files!StripOurs(m) = Files!StripOurs(s)
  BY <1>1, StripMerged
<1>3. UsersOf(m) = Files!FlattenSeq(Files!StripOurs(m)) /\ UsersOf(s) = Files!FlattenSeq(Files!StripOurs(s))
  BY <1>2, UsersAreLeft
<1>4. QED
  BY <1>1, <1>2, <1>3

LEMMA UsersStripped == ASSUME NEW s \in Entries PROVE UsersOf(Files!StripOurs(s)) = UsersOf(s)
<1>1. PICK u : u = Files!StripOurs(s)
  OBVIOUS
<1>2. u \in Entries /\ Files!StripOurs(u) = u
  BY <1>1, StripIsTheirs, StripTwice
<1>3. QED
  BY <1>1, <1>2, UsersAreLeft

\* status's: of what was stripped nothing is ours, of what was merged what was rendered.
LEMMA OursIs == ASSUME NEW f, NEW e PROVE Files!Ours(f, e) = Within(f.hooks[e], Marked)
BY FilesWithin, Zenon DEF Files!Ours, Marked

LEMMA NothingIsOurs ==
    ASSUME NEW f, NEW e, NEW s \in Entries, f.hooks[e] = Files!StripOurs(s)
    PROVE  Files!Ours(f, e) = <<>>
<1>1. PICK u \in Entries : u = Files!StripOurs(s) /\ Range(u) \subseteq Left
  BY StripIsTheirs, Zenon
<1>2. Range(u) \cap Marked = {}
  BY <1>1 DEF Left, Marked
<1>3. Within(u, Marked) = <<>>
  BY <1>2, WithinNone DEF Entries
<1>4. QED
  BY <1>1, <1>3, OursIs

LEMMA RenderedIsOurs ==
    ASSUME Files!FilesAssumption, NEW f, NEW e \in Files!Events, NEW s \in Entries,
           f.hooks[e] = Files!StripOurs(s) \o Files!Rendered(e)
    PROVE  Files!Ours(f, e) = Files!Rendered(e)
<1>1. PICK u \in Entries : u = Files!StripOurs(s) /\ Range(u) \subseteq Left
  BY StripIsTheirs, Zenon
<1>2. Range(u) \cap Marked = {}
  BY <1>1 DEF Left, Marked
<1>3. PICK r \in Entries : r = Files!Rendered(e) /\ \A i \in DOMAIN r : OurGroup(r[i])
  BY RenderedIs, Zenon
<1>4. Range(r) \subseteq Marked
  BY <1>3, GroupIsOurs DEF Range
<1>5. Within(u, Marked) = <<>> /\ Within(r, Marked) = r
  BY <1>2, <1>4, WithinNone, WithinAll DEF Entries
<1>6. Within(u \o r, Marked) = Within(u, Marked) \o Within(r, Marked)
  BY WithinConcat DEF Entries
<1>7. <<>> \o r = r
  BY DEF Entries
<1>8. QED
  BY <1>1, <1>3, <1>5, <1>6, <1>7, OursIs

\* A text, for any set of what its hooks may be.
TextsWith(H) ==
    [kind : {"absent", "json", "broken"}, tidy : BOOLEAN, own : Nat, hooks : H, allow : BOOLEAN,
     server : {"none", "asking", "old", "us"}, legacy : {"none", "on", "off"}, modern : {"none", "on", "off"}]
Tables == [Files!Events -> Entries]
LEMMA TextsAre == Files!Texts = TextsWith(Tables)
BY Zenon DEF Files!Texts, TextsWith, Tables, Entries

LEMMA TextFields ==
    ASSUME NEW H, NEW f \in TextsWith(H)
    PROVE  /\ f.kind \in {"absent", "json", "broken"} /\ f.own \in Nat /\ f.hooks \in H
           /\ f.server \in {"none", "asking", "old", "us"}
BY DEF TextsWith

LEMMA SameUsers ==
    ASSUME NEW f, NEW g, f.own = g.own, \A e \in Files!Events : UsersOf(f.hooks[e]) = UsersOf(g.hooks[e])
    PROVE  Files!Users(f) = Files!Users(g)
<1>1. \A h : Files!Users(h) = [own |-> h.own, commands |-> [e \in Files!Events |-> UsersOf(h.hooks[e])]]
  BY DEF Files!Users, UsersOf
<1>2. [e \in Files!Events |-> UsersOf(f.hooks[e])] = [e \in Files!Events |-> UsersOf(g.hooks[e])]
  BY Zenon
<1>3. QED
  BY <1>1, <1>2, Zenon

LEMMA BlankIsText == Files!Blank \in Files!Texts /\ Files!Blank.kind = "absent"
<1>1. PICK H, h : H = Tables /\ h \in H /\ h = [e \in Files!Events |-> <<>>]
  <2>1. [e \in Files!Events |-> <<>>] \in Tables
    BY DEF Entries, Tables
  <2>2. QED
    BY <2>1, Zenon
<1>2. Files!Blank = [kind |-> "absent", tidy |-> TRUE, own |-> 0, hooks |-> h, allow |-> FALSE,
                     server |-> "none", legacy |-> "none", modern |-> "none"]
  BY <1>1, Zenon DEF Files!Blank
<1>3. h \in H
  BY <1>1
<1>4. Files!Blank \in TextsWith(H) /\ Files!Blank.kind = "absent"
  BY <1>2, <1>3 DEF TextsWith
<1>5. QED
  BY <1>1, <1>4, TextsAre

\* A change is to a text that was written, of which it keeps the user's part, and making
\* it twice is making it once.
Becomes(k, a, p, f, g) ==
    /\ IsText(g) /\ g.kind # "broken" /\ (g # f => g.kind = "json")
    /\ Files!Users(g) = Files!Users(f)
    /\ Change(k, a, p, g) = g

LEMMA MergeBecomes ==
    ASSUME Files!FilesAssumption, NEW f, IsText(f), NEW p
    PROVE  Becomes("hooks", "install", p, f, Files!Merged(f))
<1>1. PICK H : H = Tables /\ f \in TextsWith(H)
  BY TextsAre DEF IsText
<1>2. \A e \in Files!Events : f.hooks[e] \in Entries
  BY <1>1, TextFields DEF Tables
<1>3. PICK h : h = [e \in Files!Events |-> Files!StripOurs(f.hooks[e]) \o Files!Rendered(e)]
  OBVIOUS
<1>4. h \in H
  BY <1>1, <1>2, <1>3, StripMerged DEF Tables
<1>5. \A e \in Files!Events : UsersOf(h[e]) = UsersOf(f.hooks[e])
  BY <1>2, <1>3, UsersMerged
<1>6. [e \in Files!Events |-> Files!StripOurs(h[e]) \o Files!Rendered(e)] = h
  <2>1. \A e \in Files!Events : Files!StripOurs(h[e]) \o Files!Rendered(e) = h[e]
    BY <1>2, <1>3, StripMerged
  <2>2. h = [e \in Files!Events |-> h[e]]
    BY <1>3
  <2>3. QED
    BY <2>1, <2>2
<1>7. PICK g : g = [f EXCEPT !.kind = "json", !.tidy = TRUE, !.hooks = h] /\ g = Files!Merged(f)
  BY <1>3 DEF Files!Merged
<1>8. g \in TextsWith(H) /\ g.kind = "json" /\ g.tidy = TRUE /\ g.own = f.own /\ g.hooks = h
  BY <1>1, <1>4, <1>7 DEF TextsWith
<1>9. Files!Merged(g) = g
  <2>1. Files!Merged(g) = [g EXCEPT !.kind = "json", !.tidy = TRUE, !.hooks = h]
    BY <1>6, <1>8 DEF Files!Merged
  <2>2. [g EXCEPT !.kind = "json", !.tidy = TRUE, !.hooks = h] = g
    BY <1>4, <1>8 DEF TextsWith
  <2>3. QED
    BY <2>1, <2>2
<1>10. Files!Users(g) = Files!Users(f)
  BY <1>5, <1>8, SameUsers
<1>11. QED
  BY <1>1, <1>7, <1>8, <1>9, <1>10, TextsAre DEF Becomes, IsText, Change

LEMMA UnmergeBecomes ==
    ASSUME NEW f, IsText(f), f.kind # "broken", NEW p
    PROVE  Becomes("hooks", "uninstall", p, f, Files!Unmerged(f))
<1>1. PICK H : H = Tables /\ f \in TextsWith(H)
  BY TextsAre DEF IsText
<1>2. CASE f.kind = "absent"
  <2>1. Files!Unmerged(f) = f
    BY <1>2 DEF Files!Unmerged
  <2>2. QED
    BY <1>2, <2>1 DEF Becomes, Change
<1>3. CASE f.kind # "absent"
  <2>1. \A e \in Files!Events : f.hooks[e] \in Entries
    BY <1>1, TextFields DEF Tables
  <2>2. PICK h : h = [e \in Files!Events |-> Files!StripOurs(f.hooks[e])]
    OBVIOUS
  <2>3. h \in H
    BY <1>1, <2>1, <2>2, StripIsTheirs DEF Tables
  <2>4. \A e \in Files!Events : UsersOf(h[e]) = UsersOf(f.hooks[e])
    BY <2>1, <2>2, UsersStripped
  <2>5. [e \in Files!Events |-> Files!StripOurs(h[e])] = h
    <3>1. \A e \in Files!Events : Files!StripOurs(h[e]) = h[e]
      BY <2>1, <2>2, StripTwice
    <3>2. h = [e \in Files!Events |-> h[e]]
      BY <2>2
    <3>3. QED
      BY <3>1, <3>2
  <2>6. PICK g : g = [f EXCEPT !.tidy = TRUE, !.hooks = h] /\ g = Files!Unmerged(f)
    BY <1>3, <2>2 DEF Files!Unmerged
  <2>7. g \in TextsWith(H) /\ g.kind = "json" /\ g.tidy = TRUE /\ g.own = f.own /\ g.hooks = h
    BY <1>1, <1>3, <2>3, <2>6 DEF TextsWith
  <2>8. Files!Unmerged(g) = g
    <3>1. Files!Unmerged(g) = [g EXCEPT !.tidy = TRUE, !.hooks = h]
      BY <2>5, <2>7 DEF Files!Unmerged
    <3>2. [g EXCEPT !.tidy = TRUE, !.hooks = h] = g
      BY <2>3, <2>7 DEF TextsWith
    <3>3. QED
      BY <3>1, <3>2
  <2>9. Files!Users(g) = Files!Users(f)
    BY <2>4, <2>7, SameUsers
  <2>10. QED
    BY <1>1, <2>6, <2>7, <2>8, <2>9, TextsAre DEF Becomes, IsText, Change
<1>4. QED
  BY <1>2, <1>3

LEMMA SmallBecomes ==
    ASSUME NEW H, NEW f \in TextsWith(H), NEW g \in TextsWith(H), H = Tables, NEW k, NEW a, NEW p,
           f.kind # "broken", f.kind = "absent" => f = Files!Blank,
           g.own = f.own, g.hooks = f.hooks, g # f => g.kind = "json", Change(k, a, p, g) = g
    PROVE  Becomes(k, a, p, f, g)
<1>1. Files!Users(g) = Files!Users(f)
  BY SameUsers
<1>2. IsText(g) /\ g.kind # "broken"
  BY TextsAre DEF IsText
<1>3. QED
  BY <1>1, <1>2 DEF Becomes

LEMMA FlagBecomes ==
    ASSUME version \in {"unknown", "early", "gated", "modern"},
           NEW f, IsText(f), f.kind # "broken", NEW a, NEW p
    PROVE  Becomes("flag", a, p, f, Files!Flagged(f))
<1>1. PICK H : H = Tables /\ f \in TextsWith(H)
  BY TextsAre DEF IsText
<1>2. f.kind = "absent" => f.legacy = "none" /\ f.modern = "none"
  BY DEF IsText, Files!Blank
<1>3. PICK g : g = Files!Flagged(f)
  OBVIOUS
<1>4. g \in TextsWith(H) /\ g.own = f.own /\ g.hooks = f.hooks /\ Files!Flagged(g) = g
  <2>1. CASE version = "unknown"
    BY <1>1, <1>3, <2>1 DEF Files!Flagged, TextsWith
  <2>2. CASE version = "early"
    BY <1>1, <1>3, <2>2 DEF Files!Flagged, TextsWith
  <2>3. CASE version = "gated"
    BY <1>1, <1>3, <2>3 DEF Files!Flagged, TextsWith
  <2>4. CASE version = "modern"
    BY <1>1, <1>3, <2>4 DEF Files!Flagged, TextsWith
  <2>5. QED
    BY <2>1, <2>2, <2>3, <2>4
<1>5. g # f => g.kind = "json"
  <2>1. CASE version = "unknown"
    BY <1>1, <1>3, <2>1 DEF Files!Flagged, TextsWith
  <2>2. CASE version = "early"
    BY <1>3, <2>2 DEF Files!Flagged
  <2>3. CASE version = "gated"
    BY <1>1, <1>3, <2>3 DEF Files!Flagged, TextsWith
  <2>4. CASE version = "modern"
    <3>1. g = [f EXCEPT !.legacy = "none"]
      BY <1>3, <2>4 DEF Files!Flagged
    <3>2. f.legacy = "none" => g = f
      BY <1>1, <3>1 DEF TextsWith
    <3>3. g.kind = f.kind /\ f.kind \in {"absent", "json", "broken"}
      BY <1>1, <3>1 DEF TextsWith
    <3>4. QED
      BY <1>2, <3>2, <3>3
  <2>5. QED
    BY <2>1, <2>2, <2>3, <2>4
<1>6. Change("flag", a, p, g) = g
  BY <1>4 DEF Change
<1>7. Becomes("flag", a, p, f, g)
  BY <1>1, <1>4, <1>5, <1>6, SmallBecomes DEF IsText
<1>8. QED
  BY <1>3, <1>7

LEMMA ServerBecomes ==
    ASSUME NEW f, IsText(f), f.kind # "broken"
    PROVE  /\ Becomes("notify", "install", "servers", f, Files!Registered(f))
           /\ Becomes("notify", "uninstall", "servers", f, Files!Unregistered(f))
<1>1. PICK H : H = Tables /\ f \in TextsWith(H)
  BY TextsAre DEF IsText
<1>2. f.kind = "absent" => f.server = "none"
  BY DEF IsText, Files!Blank
<1>3. PICK g : g = [f EXCEPT !.kind = "json", !.server = "us"] /\ g = Files!Registered(f)
  BY DEF Files!Registered
<1>4. g \in TextsWith(H) /\ g.own = f.own /\ g.hooks = f.hooks /\ g.kind = "json" /\ g.server = "us"
  BY <1>1, <1>3 DEF TextsWith
<1>5. [g EXCEPT !.kind = "json", !.server = "us"] = g
  BY <1>4 DEF TextsWith
<1>6. Change("notify", "install", "servers", g) = g
  BY <1>5 DEF Change, Files!Registered
<1>7. Becomes("notify", "install", "servers", f, g)
  BY <1>1, <1>4, <1>6, SmallBecomes DEF IsText
<1>8. PICK h : h = Files!Unregistered(f)
  OBVIOUS
<1>9. h \in TextsWith(H) /\ h.own = f.own /\ h.hooks = f.hooks /\ h.kind = f.kind /\ h.server = "none"
  BY <1>1, <1>8 DEF Files!Unregistered, TextsWith
<1>10. h # f => h.kind = "json"
  <2>1. f.kind \in {"absent", "json", "broken"}
    BY <1>1, TextFields
  <2>2. f.server = "none" => h = f
    BY <1>8 DEF Files!Unregistered
  <2>3. QED
    BY <1>2, <1>9, <2>1, <2>2
<1>11. Change("notify", "uninstall", "servers", h) = h
  BY <1>9 DEF Change, Files!Unregistered
<1>12. Becomes("notify", "uninstall", "servers", f, h)
  BY <1>1, <1>9, <1>10, <1>11, SmallBecomes DEF IsText
<1>13. QED
  BY <1>3, <1>7, <1>8, <1>12

LEMMA AllowBecomes ==
    ASSUME NEW f, IsText(f), f.kind # "broken"
    PROVE  /\ Becomes("notify", "install", "hooks", f, Files!Allowed(f))
           /\ Becomes("notify", "uninstall", "hooks", f, Files!Disallowed(f))
<1>1. PICK H : H = Tables /\ f \in TextsWith(H)
  BY TextsAre DEF IsText
<1>2. f.kind = "absent" => f.allow = FALSE
  BY DEF IsText, Files!Blank
<1>3. PICK g : g = Files!Allowed(f)
  OBVIOUS
<1>4. g \in TextsWith(H) /\ g.own = f.own /\ g.hooks = f.hooks /\ (g # f => g.kind = "json") /\ g.allow = TRUE
  BY <1>1, <1>3 DEF Files!Allowed, TextsWith
<1>5. Change("notify", "install", "hooks", g) = g
  BY <1>4 DEF Change, Files!Allowed
<1>6. Becomes("notify", "install", "hooks", f, g)
  BY <1>1, <1>4, <1>5, SmallBecomes DEF IsText
<1>7. PICK h : h = Files!Disallowed(f)
  OBVIOUS
<1>8. h \in TextsWith(H) /\ h.own = f.own /\ h.hooks = f.hooks /\ h.kind = f.kind /\ h.allow = FALSE
  BY <1>1, <1>7 DEF Files!Disallowed, TextsWith
<1>9. h # f => h.kind = "json"
  <2>1. f.kind \in {"absent", "json", "broken"}
    BY <1>1, TextFields
  <2>2. f.allow = FALSE => h = f
    BY <1>7 DEF Files!Disallowed
  <2>3. QED
    BY <1>2, <1>8, <2>1, <2>2
<1>10. Change("notify", "uninstall", "hooks", h) = h
  BY <1>8 DEF Change, Files!Disallowed
<1>11. Becomes("notify", "uninstall", "hooks", f, h)
  BY <1>1, <1>8, <1>9, <1>10, SmallBecomes DEF IsText
<1>12. QED
  BY <1>3, <1>6, <1>7, <1>11

LEMMA ChangeBecomes ==
    ASSUME Files!FilesAssumption, version \in {"unknown", "early", "gated", "modern"},
           NEW k \in JobSteps, NEW a \in Actions, NEW p \in PathsOf(k), NEW f, IsText(f), f.kind # "broken"
    PROVE  Becomes(k, a, p, f, Change(k, a, p, f))
<1>1. CASE k = "hooks"
  BY <1>1, MergeBecomes, UnmergeBecomes DEF Change, Actions
<1>2. CASE k = "flag"
  BY <1>2, FlagBecomes DEF Change
<1>3. CASE k = "notify"
  <2>1. p \in {"hooks", "servers"}
    BY <1>3 DEF PathsOf, Files!Paths
  <2>2. QED
    BY <1>3, <2>1, ServerBecomes, AllowBecomes DEF Change, Actions
<1>4. QED
  BY <1>1, <1>2, <1>3 DEF JobSteps

\* What is at rest, in the fields of the text.
MergedTable(h) == [e \in Files!Events |-> Files!StripOurs(h[e]) \o Files!Rendered(e)]
StrippedTable(h) == [e \in Files!Events |-> Files!StripOurs(h[e])]
HasOurs(f) == f.kind = "json" /\ f.tidy = TRUE /\ f.hooks = MergedTable(f.hooks)
HasNoneOfOurs(f) == f.kind = "absent" \/ (f.tidy = TRUE /\ f.hooks = StrippedTable(f.hooks))
HasFlag(f) ==
    /\ version = "unknown" => f.modern = "on" /\ f.legacy = "none"
    /\ version = "gated" => f.legacy = "on"
    /\ version = "modern" => f.legacy = "none"

LEMMA HooksAtRest ==
    ASSUME NEW H, NEW f \in TextsWith(H)
    PROVE  /\ Files!Merged(f) = f <=> HasOurs(f)
           /\ Files!Unmerged(f) = f <=> HasNoneOfOurs(f)
<1>1. Files!Merged(f) = f <=> HasOurs(f)
  <2>1. PICK m : m = MergedTable(f.hooks) /\ Files!Merged(f) = [f EXCEPT !.kind = "json", !.tidy = TRUE, !.hooks = m]
    BY DEF MergedTable, Files!Merged
  <2>2. ASSUME Files!Merged(f) = f PROVE f.kind = "json" /\ f.tidy = TRUE /\ f.hooks = m
    BY <2>1, <2>2 DEF TextsWith
  <2>3. ASSUME f.kind = "json", f.tidy = TRUE, f.hooks = m PROVE Files!Merged(f) = f
    <3>1. m \in H
      BY <2>3, TextFields
    <3>2. [f EXCEPT !.kind = "json", !.tidy = TRUE, !.hooks = m] = f
      BY <2>3, <3>1 DEF TextsWith
    <3>3. QED
      BY <2>1, <3>2
  <2>4. QED
    BY <2>1, <2>2, <2>3 DEF HasOurs
<1>2. Files!Unmerged(f) = f <=> HasNoneOfOurs(f)
  <2>1. CASE f.kind = "absent"
    BY <2>1 DEF Files!Unmerged, HasNoneOfOurs
  <2>2. CASE f.kind # "absent"
    <3>1. PICK m : m = StrippedTable(f.hooks) /\ Files!Unmerged(f) = [f EXCEPT !.tidy = TRUE, !.hooks = m]
      BY <2>2 DEF StrippedTable, Files!Unmerged
    <3>2. ASSUME Files!Unmerged(f) = f PROVE f.tidy = TRUE /\ f.hooks = m
      BY <3>1, <3>2 DEF TextsWith
    <3>3. ASSUME f.tidy = TRUE, f.hooks = m PROVE Files!Unmerged(f) = f
      BY <3>1, <3>3 DEF TextsWith
    <3>4. QED
      BY <2>2, <3>1, <3>2, <3>3 DEF HasNoneOfOurs
  <2>3. QED
    BY <2>1, <2>2
<1>3. QED
  BY <1>1, <1>2

LEMMA ToolAtRest ==
    ASSUME NEW H, NEW f \in TextsWith(H)
    PROVE  /\ Files!Registered(f) = f <=> f.kind = "json" /\ f.server = "us"
           /\ Files!Unregistered(f) = f <=> f.server = "none"
           /\ Files!Allowed(f) = f <=> f.allow = TRUE
           /\ Files!Disallowed(f) = f <=> f.allow = FALSE
<1>1. PICK g : g = Files!Registered(f) /\ g = [f EXCEPT !.kind = "json", !.server = "us"]
  BY DEF Files!Registered
<1>2. g.kind = "json" /\ g.server = "us"
  BY <1>1 DEF TextsWith
<1>3. f.kind = "json" /\ f.server = "us" => g = f
  BY <1>1 DEF TextsWith
<1>4. f.allow \in BOOLEAN
  BY DEF TextsWith
<1>5. Files!Unregistered(f) = f <=> f.server = "none"
  BY DEF TextsWith, Files!Unregistered
<1>6. Files!Allowed(f) = f <=> f.allow = TRUE
  BY DEF TextsWith, Files!Allowed
<1>7. Files!Disallowed(f) = f <=> f.allow = FALSE
  BY DEF TextsWith, Files!Disallowed
<1>8. QED
  BY <1>1, <1>2, <1>3, <1>5, <1>6, <1>7

LEMMA FlagAtRest ==
    ASSUME version \in {"unknown", "early", "gated", "modern"}, NEW H, NEW f \in TextsWith(H)
    PROVE  Files!Flagged(f) = f <=> HasFlag(f)
<1>1. CASE version = "unknown"
  BY <1>1 DEF Files!Flagged, HasFlag, TextsWith
<1>2. CASE version = "early"
  BY <1>2 DEF Files!Flagged, HasFlag
<1>3. CASE version = "gated"
  BY <1>3 DEF Files!Flagged, HasFlag, TextsWith
<1>4. CASE version = "modern"
  BY <1>4 DEF Files!Flagged, HasFlag, TextsWith
<1>5. QED
  BY <1>1, <1>2, <1>3, <1>4

\* What each change leaves of the fields that the other steps are about.
Leaves(f, g) == g.kind = f.kind \/ g.kind = "json"
LEMMA ChangesLeave ==
    ASSUME version \in {"unknown", "early", "gated", "modern"}, NEW H, NEW f \in TextsWith(H)
    PROVE  /\ Files!Merged(f).allow = f.allow /\ Files!Unmerged(f).allow = f.allow
           /\ \A g \in {Files!Allowed(f), Files!Disallowed(f)} :
                 g.hooks = f.hooks /\ Leaves(f, g) /\ (g = f \/ g.tidy = TRUE)
           /\ \A g \in {Files!Registered(f), Files!Unregistered(f)} :
                 g.legacy = f.legacy /\ g.modern = f.modern
           /\ Files!Flagged(f).server = f.server /\ Leaves(f, Files!Flagged(f))
<1>1. Files!Merged(f).allow = f.allow
  <2>1. PICK m : Files!Merged(f) = [f EXCEPT !.kind = "json", !.tidy = TRUE, !.hooks = m]
    BY DEF Files!Merged
  <2>2. QED
    BY <2>1 DEF TextsWith
<1>2. Files!Unmerged(f).allow = f.allow
  <2>1. PICK m : Files!Unmerged(f) = f \/ Files!Unmerged(f) = [f EXCEPT !.tidy = TRUE, !.hooks = m]
    BY DEF Files!Unmerged
  <2>2. QED
    BY <2>1 DEF TextsWith
<1>3. PICK g : g = Files!Allowed(f)
  OBVIOUS
<1>4. g.hooks = f.hooks /\ Leaves(f, g) /\ (g = f \/ g.tidy = TRUE)
  BY <1>3 DEF Files!Allowed, TextsWith, Leaves
<1>5. PICK h : h = Files!Disallowed(f)
  OBVIOUS
<1>6. h.hooks = f.hooks /\ Leaves(f, h) /\ (h = f \/ h.tidy = TRUE)
  BY <1>5 DEF Files!Disallowed, TextsWith, Leaves
<1>7. \A i \in {Files!Registered(f), Files!Unregistered(f)} : i.legacy = f.legacy /\ i.modern = f.modern
  <2>1. PICK i : i = Files!Registered(f)
    OBVIOUS
  <2>2. i.legacy = f.legacy /\ i.modern = f.modern
    BY <2>1 DEF Files!Registered, TextsWith
  <2>3. PICK j : j = Files!Unregistered(f)
    OBVIOUS
  <2>4. j.legacy = f.legacy /\ j.modern = f.modern
    BY <2>3 DEF Files!Unregistered, TextsWith
  <2>5. QED
    BY <2>1, <2>2, <2>3, <2>4
<1>8. Files!Flagged(f).server = f.server /\ Leaves(f, Files!Flagged(f))
  <2>1. PICK i : i = Files!Flagged(f)
    OBVIOUS
  <2>2. i.server = f.server /\ Leaves(f, i)
    <3>1. CASE version = "unknown"
      BY <2>1, <3>1 DEF Files!Flagged, TextsWith, Leaves
    <3>2. CASE version = "early"
      BY <2>1, <3>2 DEF Files!Flagged, Leaves
    <3>3. CASE version = "gated"
      BY <2>1, <3>3 DEF Files!Flagged, TextsWith, Leaves
    <3>4. CASE version = "modern"
      BY <2>1, <3>4 DEF Files!Flagged, TextsWith, Leaves
    <3>5. QED
      BY <3>1, <3>2, <3>3, <3>4
  <2>3. QED
    BY <2>1, <2>2
<1>9. QED
  BY <1>1, <1>2, <1>3, <1>4, <1>5, <1>6, <1>7, <1>8

\* Two steps that are about a file undo nothing of each other.
LEMMA NoneOfOurs ==
    ASSUME NEW f, IsText(f), HasNoneOfOurs(f) PROVE f.hooks = StrippedTable(f.hooks)
<1>1. CASE f.kind = "absent"
  <2>1. f.hooks = [e \in Files!Events |-> <<>>]
    BY <1>1 DEF IsText, Files!Blank
  <2>2. Files!StripOurs(<<>>) = <<>>
    <3>1. <<>> \in Seq(Seq(Files!Theirs)) /\ Range(<<>>) \subseteq Left
      BY DEF Range
    <3>2. QED
      BY <3>1, NothingToStrip
  <2>3. QED
    BY <2>1, <2>2 DEF StrippedTable
<1>2. QED
  BY <1>1 DEF HasNoneOfOurs

LEMMA StepsCommute ==
    ASSUME version \in {"unknown", "early", "gated", "modern"},
           NEW k \in JobSteps, NEW l \in JobSteps \ {k}, NEW a \in Actions, NEW b \in Actions,
           NEW p \in PathsOf(k) \cap PathsOf(l),
           NEW f, IsText(f), Change(k, a, p, f) = f, NEW g, IsText(g), g = Change(l, b, p, f)
    PROVE  Change(k, a, p, g) = g
<1>1. PICK H : f \in TextsWith(H) /\ g \in TextsWith(H)
  BY TextsAre DEF IsText
<1>2. CASE p = "hooks" /\ k = "hooks" /\ l = "notify"
  <2>1. g \in {Files!Allowed(f), Files!Disallowed(f)}
    BY <1>2 DEF Change
  <2>2. g.hooks = f.hooks /\ Leaves(f, g) /\ (g = f \/ g.tidy = TRUE)
    BY <1>1, <2>1, ChangesLeave
  <2>3. CASE a = "install"
    <3>1. HasOurs(f)
      BY <1>1, <1>2, <2>3, HooksAtRest DEF Change
    <3>2. HasOurs(g)
      BY <2>2, <3>1 DEF HasOurs, Leaves
    <3>3. QED
      BY <1>1, <1>2, <2>3, <3>2, HooksAtRest DEF Change
  <2>4. CASE a = "uninstall"
    <3>1. HasNoneOfOurs(f)
      BY <1>1, <1>2, <2>4, HooksAtRest DEF Change
    <3>2. g = f \/ HasNoneOfOurs(g)
      BY <2>2, <3>1, NoneOfOurs DEF HasNoneOfOurs
    <3>3. HasNoneOfOurs(g)
      BY <3>1, <3>2
    <3>4. QED
      BY <1>1, <1>2, <2>4, <3>3, HooksAtRest DEF Change
  <2>5. QED
    BY <2>3, <2>4 DEF Actions
<1>3. CASE p = "hooks" /\ k = "notify" /\ l = "hooks"
  <2>1. g \in {Files!Merged(f), Files!Unmerged(f)}
    BY <1>3 DEF Change
  <2>2. g.allow = f.allow
    BY <1>1, <2>1, ChangesLeave
  <2>3. QED
    BY <1>1, <1>3, <2>2, ToolAtRest DEF Change, Actions
<1>4. CASE p = "servers" /\ k = "flag" /\ l = "notify"
  <2>1. g \in {Files!Registered(f), Files!Unregistered(f)}
    BY <1>4 DEF Change
  <2>2. g.legacy = f.legacy /\ g.modern = f.modern
    BY <1>1, <2>1, ChangesLeave
  <2>3. HasFlag(f)
    BY <1>1, <1>4, FlagAtRest DEF Change
  <2>4. HasFlag(g)
    BY <2>2, <2>3 DEF HasFlag
  <2>5. QED
    BY <1>1, <1>4, <2>4, FlagAtRest DEF Change
<1>5. CASE p = "servers" /\ k = "notify" /\ l = "flag"
  <2>1. g.server = f.server /\ Leaves(f, g)
    BY <1>1, <1>5, ChangesLeave DEF Change
  <2>2. CASE a = "install"
    <3>1. f.kind = "json" /\ f.server = "us"
      BY <1>1, <1>5, <2>2, ToolAtRest DEF Change
    <3>2. g.kind = "json" /\ g.server = "us"
      BY <2>1, <3>1 DEF Leaves
    <3>3. QED
      BY <1>1, <1>5, <2>2, <3>2, ToolAtRest DEF Change
  <2>3. CASE a = "uninstall"
    <3>1. f.server = "none"
      BY <1>1, <1>5, <2>3, ToolAtRest DEF Change
    <3>2. QED
      BY <1>1, <1>5, <2>1, <2>3, <3>1, ToolAtRest DEF Change
  <2>4. QED
    BY <2>2, <2>3 DEF Actions
<1>6. \/ p = "hooks" /\ k = "hooks" /\ l = "notify"
      \/ p = "hooks" /\ k = "notify" /\ l = "hooks"
      \/ p = "servers" /\ k = "flag" /\ l = "notify"
      \/ p = "servers" /\ k = "notify" /\ l = "flag"
  BY DEF PathsOf, JobSteps, Files!Paths
<1>7. QED
  BY <1>2, <1>3, <1>4, <1>5, <1>6

\* What rests is what status and doctor call installed, or removed.
LEMMA EventsThere == ASSUME Files!FilesAssumption PROVE Files!Events # {}
<1>1. PICK B : Bindings \in Seq(B) /\ Bindings # <<>>
  BY DEF Files!FilesAssumption
<1>2. 1 \in DOMAIN Bindings
  BY <1>1
<1>3. QED
  BY <1>2 DEF Files!Events

LEMMA StatusSays ==
    ASSUME Files!FilesAssumption, NEW f, IsText(f), f.kind # "broken"
    PROVE  /\ Files!Merged(f) = f => Files!Status(f) = "installed"
           /\ Files!Unmerged(f) = f => Files!Status(f) = "missing"
<1>1. PICK H : H = Tables /\ f \in TextsWith(H)
  BY TextsAre DEF IsText
<1>2. \A e \in Files!Events : f.hooks[e] \in Entries
  BY <1>1, TextFields DEF Tables
<1>3. ASSUME Files!Merged(f) = f PROVE Files!Status(f) = "installed"
  <2>1. f.kind = "json" /\ f.hooks = MergedTable(f.hooks)
    BY <1>1, <1>3, HooksAtRest DEF HasOurs
  <2>2. \A e \in Files!Events : f.hooks[e] = Files!StripOurs(f.hooks[e]) \o Files!Rendered(e)
    BY <2>1 DEF MergedTable
  <2>3. \A e \in Files!Events : Files!Ours(f, e) = Files!Rendered(e)
    BY <1>2, <2>2, RenderedIsOurs
  <2>4. \A e \in Files!Events : Files!Ours(f, e) # <<>>
    BY <2>3, RenderedIs
  <2>5. \E e \in Files!Events : \E i \in DOMAIN Files!Ours(f, e) : Files!Points(Files!Ours(f, e)[i])
    <3>1. PICK e \in Files!Events : TRUE
      BY EventsThere
    <3>2. PICK r \in Entries : r = Files!Rendered(e) /\ r # <<>> /\ \A i \in DOMAIN r : OurGroup(r[i])
      BY RenderedIs, Zenon
    <3>3. 1 \in DOMAIN r
      BY <3>2 DEF Entries
    <3>4. Files!Points(r[1])
      BY <3>2, <3>3, GroupIsOurs
    <3>5. QED
      BY <2>3, <3>2, <3>3, <3>4
  <2>6. \A e \in Files!Events : Files!SameSignatures(Files!Rendered(e), Files!Ours(f, e))
    BY <2>3 DEF Files!SameSignatures
  <2>7. ~\A e \in Files!Events : Files!Ours(f, e) = <<>>
    BY <2>4, EventsThere
  <2>8. QED
    BY <2>1, <2>4, <2>5, <2>6, <2>7, Zenon DEF Files!Status
<1>4. ASSUME Files!Unmerged(f) = f PROVE Files!Status(f) = "missing"
  <2>1. f.hooks = StrippedTable(f.hooks)
    BY <1>1, <1>4, HooksAtRest, NoneOfOurs
  <2>2. \A e \in Files!Events : f.hooks[e] = Files!StripOurs(f.hooks[e])
    BY <2>1 DEF StrippedTable
  <2>3. \A e \in Files!Events : Files!Ours(f, e) = <<>>
    BY <1>2, <2>2, NothingIsOurs
  <2>4. QED
    BY <2>3, Zenon DEF Files!Status
<1>5. QED
  BY <1>3, <1>4

LEMMA FilesSuffice ==
    ASSUME Files!FilesAssumption, FilesInv PROVE Files!NobodysTextIsLost /\ Files!WrittenIsSettled
<1>1. ASSUME NEW p \in Files!Paths PROVE IsText(files[p])
  BY DEF FilesInv, FileTypes
<1>2. Files!NobodysTextIsLost
  BY DEF FilesInv, TextIsKept, Saved, HasIt, Files!NobodysTextIsLost
<1>3. "hooks" \in JobSteps /\ "flag" \in JobSteps /\ "notify" \in JobSteps /\ "hooks" \in PathsOf("hooks")
      /\ "servers" \in PathsOf("flag") /\ "servers" \in PathsOf("notify")
      /\ (agent = "claude" => "hooks" \in PathsOf("notify")) /\ "none" \notin Actions
  BY DEF JobSteps, PathsOf, Files!Paths, Actions
<1>4. PICK f, g : f = files["hooks"] /\ g = files["servers"] /\ IsText(f) /\ IsText(g)
  BY <1>1 DEF Files!Paths
<1>5. PICK H : f \in TextsWith(H) /\ g \in TextsWith(H)
  BY <1>4, TextsAre DEF IsText
<1>6. /\ settled["hooks"] = "install" => Files!Status(f) = "installed" /\ Files!Merged(f) = f
      /\ settled["hooks"] = "uninstall" => Files!Status(f) = "missing" /\ Files!Unmerged(f) = f
  <2>1. settled["hooks"] # "none" => Rests("hooks", settled["hooks"], "hooks", f)
    BY <1>3, <1>4 DEF FilesInv, SettledRests
  <2>2. QED
    BY <1>4, <2>1, StatusSays DEF Rests, Change
<1>7. settled["flag"] # "none" => Files!Flagged(g) = g
  BY <1>3, <1>4 DEF FilesInv, SettledRests, Rests, Change
<1>8. settled["notify"] # "none" =>
        /\ Rests("notify", settled["notify"], "servers", g)
        /\ agent = "claude" => Rests("notify", settled["notify"], "hooks", f)
  BY <1>3, <1>4 DEF FilesInv, SettledRests
<1>9. settled["notify"] = "install" => Files!NotifyStatus = "installed"
  <2> SUFFICES ASSUME settled["notify"] = "install" PROVE Files!NotifyStatus = "installed"
    OBVIOUS
  <2>1. g.kind # "broken" /\ g.server = "us"
    BY <1>5, <1>8, ToolAtRest DEF Rests, Change
  <2>2. agent = "claude" => f.kind # "broken" /\ f.allow = TRUE
    BY <1>5, <1>8, ToolAtRest DEF Rests, Change
  <2>3. QED
    BY <1>4, <2>1, <2>2 DEF Files!NotifyStatus
<1>10. settled["notify"] = "uninstall" =>
          Files!NotifyStatus = "missing" /\ ~(agent = "claude" /\ files["hooks"].allow)
  <2> SUFFICES ASSUME settled["notify"] = "uninstall"
               PROVE  Files!NotifyStatus = "missing" /\ ~(agent = "claude" /\ files["hooks"].allow)
    OBVIOUS
  <2>1. g.kind # "broken" /\ g.server = "none"
    BY <1>5, <1>8, ToolAtRest DEF Rests, Change
  <2>2. agent = "claude" => f.allow = FALSE
    BY <1>5, <1>8, ToolAtRest DEF Rests, Change
  <2>3. Files!NotifyStatus = "missing"
    BY <1>4, <2>1 DEF Files!NotifyStatus
  <2>4. QED
    BY <1>4, <2>2, <2>3
<1>11. QED
  BY <1>2, <1>4, <1>6, <1>7, <1>9, <1>10 DEF Files!WrittenIsSettled

\* What a step leaves alone stays as it is said to be.
LEMMA RestsThen ==
    ASSUME UNCHANGED <<agent, version>>, NEW k, NEW a, a = settled'[k], NEW p, NEW f, f = files'[p]
    PROVE  Rests(k, settled[k], p, files[p])' <=> Rests(k, a, p, f)
BY DEF Rests, Change, Files!Flagged

SettledOn(k, a, p, f) == a # "none" => Rests(k, a, p, f)
LEMMA SettledThen ==
    ASSUME UNCHANGED <<agent, version>>,
           \A k \in JobSteps : \A p \in PathsOf(k) : \A a, f : a = settled'[k] /\ f = files'[p] => SettledOn(k, a, p, f)
    PROVE  SettledRests'
<1>1. ASSUME NEW k \in JobSteps, settled'[k] # "none", NEW p \in PathsOf(k)
      PROVE  Rests(k, settled[k], p, files[p])'
  <2>1. PICK a, f : a = settled'[k] /\ f = files'[p]
    OBVIOUS
  <2>2. Rests(k, a, p, f)
    BY <1>1, <2>1 DEF SettledOn
  <2>3. QED
    BY <2>1, <2>2, RestsThen
<1>2. \A k \in JobSteps : PathsOf(k)' = PathsOf(k)
  BY DEF PathsOf, JobSteps
<1>3. QED
  BY <1>1, <1>2, Zenon DEF SettledRests

LEMMA SettledStays ==
    ASSUME SettledRests, UNCHANGED <<agent, version, files, settled>> PROVE SettledRests'
BY DEF SettledRests, Rests, PathsOf, Change, Files!Flagged

LEMMA TextStays ==
    ASSUME TextIsKept, UNCHANGED <<files, backups, wanted, since, overtaken, hasty>> PROVE TextIsKept'
BY DEF TextIsKept, Saved, HasIt, Newer

LEMMA PlanStays ==
    ASSUME UNCHANGED <<agent, version>>, job'.step = job.step, job'.action = job.action, NEW q, PlanHolds(q),
           files'[q.path] = files[q.path], q.path \in overtaken => q.path \in overtaken',
           Trusted(q.path)' => Trusted(q.path)
    PROVE  PlanHolds(q)'
<1>1. PathsOf(job.step)' = PathsOf(job.step)
  BY DEF PathsOf
<1>2. Rests(job.step, job.action, q.path, q.after)' <=> Rests(job.step, job.action, q.path, q.after)
  BY DEF Rests, Change, Files!Flagged
<1>3. Changed(q.path)' = Changed(q.path)
  BY DEF Changed, Change, Files!Flagged
<1>4. (Files!Users(q.after) = Files!Users(files[q.path]) \/ q.path \in overtaken)'
  BY DEF PlanHolds
<1>5. (IsText(q.after) /\ q.after.kind = "json")'
  BY DEF PlanHolds, IsText
<1>6. QED
  BY <1>1, <1>2, <1>3, <1>4, <1>5 DEF PlanHolds

LEMMA OnlyStays ==
    ASSUME UNCHANGED <<agent, version, files>>, job'.step = job.step, job'.action = job.action,
           job'.untouched = TRUE => job.untouched = TRUE, job'.plans = job.plans, NEW q, OnlyPlan(q)
    PROVE  OnlyPlan(q)'
BY DEF OnlyPlan, PathsOf, Rests, Change, Files!Flagged

LEMMA TrustStays ==
    ASSUME UNCHANGED <<agent, settled>>, job'.step = job.step, job'.untouched = TRUE => job.untouched = TRUE,
           NEW p, Trusted(p)'
    PROVE  Trusted(p)
BY DEF Trusted, PathsOf

\* The plans of a command that waits still hold when nothing is written meanwhile.
LEMMA PlansStay ==
    ASSUME PlansHold, Waiting, UNCHANGED <<agent, version, files, settled>>,
           overtaken \subseteq overtaken', UNCHANGED <<job.step, job.action, job.plans, job.untouched>>,
           \A q : PlanHolds(q) /\ (OnlyPlan(q) \/ FirstPlan(q)) /\ (job.phase = "replace" => SafeToWrite(q)) =>
              (job.phase = "replace" => SafeToWrite(q))'
    PROVE  PlansHold'
<1>1. PICK q : PlanHolds(q) /\ (OnlyPlan(q) \/ FirstPlan(q)) /\ (job.phase = "replace" => SafeToWrite(q))
  BY DEF PlansHold
<1>2. \A p : Trusted(p)' => Trusted(p)
  <2>1. ASSUME NEW p, Trusted(p)' PROVE Trusted(p)
    BY <2>1, TrustStays
  <2>2. QED
    BY <2>1
<1>3. ASSUME NEW r, PlanHolds(r) PROVE PlanHolds(r)'
  <2>1. Trusted(r.path)' => Trusted(r.path)
    <3>1. PICK p : p = r.path
      OBVIOUS
    <3>2. QED
      BY <1>2, <3>1
  <2>2. QED
    BY <1>3, <2>1, PlanStays
<1>4. OnlyPlan(q) => OnlyPlan(q)'
  BY OnlyStays
<1>5. FirstPlan(q) => FirstPlan(q)'
  BY <1>3 DEF FirstPlan
<1>6. (job.phase = "replace" => SafeToWrite(q))'
  BY <1>1
<1>7. PlanHolds(q)'
  BY <1>1, <1>3
<1>8. QED
  BY <1>1, <1>4, <1>5, <1>6, <1>7 DEF PlansHold

\* A step that writes nothing.
LEMMA NothingWritten ==
    ASSUME FilesInv, UNCHANGED <<agent, version, files, backups, wanted, since, overtaken, hasty, settled>>,
           second' \in Nat, second <= second', JobTypes', PlansHold'
    PROVE  FilesInv'
<1>1. FileTypes'
  <2>1. FileTypes /\ \A p \in Files!Paths : DOMAIN backups'[p] \subseteq 0 .. second'
    <3>1. FileTypes
      BY DEF FilesInv
    <3>2. PICK m \in Nat, n \in Nat : m = second /\ n = second' /\ m <= n
      BY <3>1 DEF FileTypes
    <3>3. 0 .. m \subseteq 0 .. n
      BY <3>2
    <3>4. \A p \in Files!Paths : DOMAIN backups[p] \subseteq 0 .. m
      BY <3>1, <3>2 DEF FileTypes
    <3>5. QED
      BY <3>1, <3>2, <3>3, <3>4
  <2>2. \A p \in Files!Paths : IsText(files[p])'
    BY <2>1 DEF FileTypes, IsText
  <2>3. QED
    BY <2>1, <2>2 DEF FileTypes
<1>2. TextIsKept' /\ SettledRests'
  BY TextStays, SettledStays DEF FilesInv
<1>3. QED
  BY <1>1, <1>2 DEF FilesInv

LEMMA NotWaiting == ASSUME ~(job'.phase \in {"asked", "backup", "replace"}) PROVE PlansHold'
BY DEF PlansHold, Waiting

LEMMA FilesBegin == ASSUME Files!FilesAssumption, Files!Init PROVE FilesInv
<1>1. PICK pair \in Starts : files = [p \in Files!Paths |-> IF p = "hooks" THEN pair[1] ELSE pair[2]]
  BY DEF Files!Init
<1>2. IsText(pair[1]) /\ IsText(pair[2])
  BY DEF Files!FilesAssumption, IsText
<1>3. job.phase = "idle" /\ JobTypes
  BY DEF Files!Init, Files!Idle, JobTypes, Actions, JobSteps
<1>4. FileTypes
  <2>1. \A p \in Files!Paths : IsText(files[p])
    BY <1>1, <1>2
  <2>2. agent \in {"claude", "codex", "cursor"} /\ version \in {"unknown", "early", "gated", "modern"}
    BY DEF Files!Init
  <2>3. files = [p \in Files!Paths |-> files[p]]
    BY <1>1
  <2>4. backups = [p \in Files!Paths |-> backups[p]] /\ \A p \in Files!Paths : DOMAIN backups[p] \subseteq 0 .. second
    BY DEF Files!Init
  <2>5. wanted = [p \in Files!Paths |-> wanted[p]] /\ since \in [Files!Paths -> Nat]
    BY DEF Files!Init
  <2>6. settled \in [JobSteps -> Actions \cup {"none"}] /\ second \in Nat /\ overtaken = {}
    BY DEF Files!Init, JobSteps, Actions
  <2>7. QED
    BY <1>3, <2>1, <2>2, <2>3, <2>4, <2>5, <2>6 DEF FileTypes
<1>5. TextIsKept
  BY DEF Files!Init, TextIsKept
<1>6. PlansHold
  BY <1>3 DEF PlansHold, Waiting
<1>7. SettledRests
  BY DEF Files!Init, SettledRests, JobSteps
<1>8. QED
  BY <1>4, <1>5, <1>6, <1>7 DEF FilesInv

LEMMA RunFiles == ASSUME FilesInv, Files!Run PROVE FilesInv'
<1>1. PICK caller \in {"cli", "wizard"}, action \in {"install", "uninstall"} :
        job' = [Files!Idle EXCEPT !.phase = "plan", !.caller = caller, !.action = action]
  BY DEF Files!Run
<1>2. job'.phase = "plan" /\ JobTypes'
  BY <1>1 DEF Files!Idle, JobTypes, Actions, JobSteps
<1>3. PlansHold'
  BY <1>2, NotWaiting
<1>4. second \in Nat
  BY DEF FilesInv, FileTypes
<1>5. QED
  BY <1>2, <1>3, <1>4, NothingWritten DEF Files!Run, Files!history

\* A command that goes on to its next step, or ends, has no plans.
LEMMA NextStepIs ==
    ASSUME JobTypes, NEW w \in BOOLEAN, job' = Files!NextStep(w) \/ job' = Files!Idle
    PROVE  JobTypes' /\ PlansHold'
<1>1. PICK j : j = job'
  OBVIOUS
<1>2. /\ j.phase \in {"plan", "idle"} /\ j.action \in Actions /\ j.step \in JobSteps
      /\ j = [phase |-> j.phase, caller |-> j.caller, action |-> j.action, step |-> j.step,
              plans |-> j.plans, untouched |-> j.untouched]
  <2>1. CASE j = Files!Idle
    BY <2>1 DEF Files!Idle, Actions, JobSteps
  <2>2. CASE j # Files!Idle
    <3>1. PICK s : s \in {"flag", "notify"}
             /\ j = [job EXCEPT !.phase = "plan", !.plans = <<>>, !.untouched = TRUE, !.step = s]
      BY <1>1, <2>2 DEF Files!NextStep
    <3>2. QED
      BY <3>1 DEF JobTypes, JobSteps
  <2>3. QED
    BY <2>1, <2>2
<1>3. JobTypes'
  BY <1>1, <1>2 DEF JobTypes
<1>4. QED
  BY <1>1, <1>2, <1>3, NotWaiting

LEMMA AnswerFiles == ASSUME FilesInv, Files!Answer PROVE FilesInv'
<1>1. JobTypes /\ PlansHold /\ second \in Nat
  BY DEF FilesInv, FileTypes
<1>2. CASE job' = [job EXCEPT !.phase = "backup"]
  <2>1. JobTypes' /\ job'.phase = "backup" /\ UNCHANGED <<job.step, job.action, job.plans, job.untouched>>
    BY <1>1, <1>2 DEF JobTypes
  <2>2. PlansHold'
    BY <1>1, <2>1, PlansStay DEF Files!Answer, Files!history, Waiting
  <2>3. QED
    BY <1>1, <2>1, <2>2, NothingWritten DEF Files!Answer, Files!history
<1>3. CASE job' = Files!NextStep(FALSE)
  <2>1. JobTypes' /\ PlansHold'
    BY <1>1, <1>3, NextStepIs
  <2>2. QED
    BY <1>1, <2>1, NothingWritten DEF Files!Answer, Files!history
<1>4. QED
  BY <1>2, <1>3 DEF Files!Answer

LEMMA KilledFiles == ASSUME FilesInv, Files!Killed PROVE FilesInv'
<1>1. JobTypes /\ second \in Nat
  BY DEF FilesInv, FileTypes
<1>2. JobTypes' /\ PlansHold'
  BY <1>1, NextStepIs DEF Files!Killed
<1>3. QED
  BY <1>1, <1>2, NothingWritten DEF Files!Killed, Files!history

LEMMA TickFiles == ASSUME FilesInv, Files!Tick PROVE FilesInv'
<1>1. JobTypes /\ PlansHold /\ second \in Nat
  BY DEF FilesInv, FileTypes
<1>2. JobTypes' /\ job'.phase = "backup" /\ UNCHANGED <<job.step, job.action, job.plans, job.untouched>>
  BY <1>1 DEF Files!Tick, JobTypes
<1>3. PlansHold'
  BY <1>1, <1>2, PlansStay DEF Files!Tick, Files!history, Waiting
<1>4. QED
  BY <1>1, <1>2, <1>3, NothingWritten DEF Files!Tick, Files!history

\* What is to be asked about: the changes that change something.
PlanOf(p) == [path |-> p, after |-> Changed(p)]
IsFresh(q) == \E p \in PathsOf(job.step) : q = PlanOf(p) /\ Changed(p) # files[p]
LEMMA PlanFields == ASSUME NEW p PROVE PlanOf(p).path = p /\ PlanOf(p).after = Changed(p)
BY DEF PlanOf

LEMMA WithinOne ==
    ASSUME NEW x, NEW S
    PROVE  Within(<<x>>, S) = IF x \in S THEN <<x>> ELSE <<>>
<1>1. PICK X : X = {x}
  OBVIOUS
<1>2. x \in X /\ <<>> \in Seq(X) /\ Append(<<>>, x) = <<x>>
  BY <1>1
<1>3. Within(<<>>, S) = <<>>
  BY WithinEmpty
<1>4. Passes(<<>>, x, S)
  BY <1>2, WithinAppend
<1>5. QED
  BY <1>2, <1>3, <1>4 DEF Passes

LEMMA TwoAre == ASSUME NEW x, NEW y PROVE Append(<<x>>, y) = <<x, y>> /\ <<x>> \o <<y>> = <<x, y>>
<1>1. PICK X : X = {x, y}
  OBVIOUS
<1>2. PICK t \in Seq(X) : t = <<x, y>> /\ Len(t) = 2 /\ t[1] = x /\ t[2] = y
  <2>1. <<x, y>> \in Seq(X) /\ Len(<<x, y>>) = 2
    BY <1>1
  <2>2. QED
    BY <2>1
<1>3. PICK u \in Seq(X) : u = Append(<<x>>, y) /\ Len(u) = 2 /\ u[1] = x /\ u[2] = y
  <2>1. <<x>> \in Seq(X) /\ y \in X /\ Len(<<x>>) = 1
    BY <1>1
  <2>2. Append(<<x>>, y) \in Seq(X) /\ Len(Append(<<x>>, y)) = 2
    BY <2>1
  <2>3. Append(<<x>>, y)[1] = x /\ Append(<<x>>, y)[2] = y
    BY <2>1
  <2>4. QED
    BY <2>2, <2>3
<1>4. PICK v \in Seq(X) : v = <<x>> \o <<y>> /\ Len(v) = 2 /\ v[1] = x /\ v[2] = y
  <2>1. <<x>> \in Seq(X) /\ <<y>> \in Seq(X) /\ Len(<<x>>) = 1 /\ Len(<<y>>) = 1
    BY <1>1
  <2>2. <<x>> \o <<y>> \in Seq(X) /\ Len(<<x>> \o <<y>>) = 2
    BY <2>1
  <2>3. (<<x>> \o <<y>>)[1] = x /\ (<<x>> \o <<y>>)[2] = y
    BY <2>1
  <2>4. QED
    BY <2>2, <2>3
<1>5. t = u
  <2>1. Len(t) = Len(u) /\ \A i \in 1 .. Len(t) : t[i] = u[i]
    BY <1>2, <1>3
  <2>2. QED
    BY <2>1, SeqEqual
<1>6. t = v
  <2>1. Len(v) = 2 /\ v[1] = x /\ v[2] = y
    BY <1>4, Zenon
  <2>2. Len(t) = 2 /\ t[1] = x /\ t[2] = y
    BY <1>2, Zenon
  <2>3. Len(t) = Len(v) /\ \A i \in 1 .. Len(t) : t[i] = v[i]
    BY <2>1, <2>2
  <2>4. QED
    BY <2>3, SeqEqual
<1>7. QED
  BY <1>2, <1>3, <1>4, <1>5, <1>6

LEMMA WithinTwo ==
    ASSUME NEW x, NEW y, NEW S
    PROVE  Within(<<x, y>>, S) = IF x \in S THEN IF y \in S THEN <<x, y>> ELSE <<x>>
                                 ELSE IF y \in S THEN <<y>> ELSE <<>>
<1>1. PICK X : X = {x, y}
  OBVIOUS
<1>2. y \in X /\ <<x>> \in Seq(X) /\ Append(<<x>>, y) = <<x, y>> /\ Append(<<>>, y) = <<y>>
  <2>1. y \in X /\ <<x>> \in Seq(X)
    BY <1>1
  <2>2. Append(<<>>, y) = <<y>>
    OBVIOUS
  <2>3. QED
    BY <2>1, <2>2, TwoAre
<1>3. Passes(<<x>>, y, S)
  BY <1>2, WithinAppend
<1>4. Within(<<x>>, S) = IF x \in S THEN <<x>> ELSE <<>>
  BY WithinOne
<1>5. QED
  BY <1>2, <1>3, <1>4 DEF Passes

LEMMA PlansAre ==
    ASSUME FileTypes, Files!Plans # <<>>, \A p \in PathsOf(job.step) : files[p].kind # "broken"
    PROVE  \E q : /\ IsFresh(q)
                  /\ \/ /\ Files!Plans = <<q>>
                        /\ \A p \in PathsOf(job.step) \ {q.path} : Rests(job.step, job.action, p, files[p])
                     \/ /\ job.step = "notify" /\ q.path = "servers"
                        /\ \E r : Files!Plans = <<q, r>> /\ IsFresh(r) /\ r.path = "hooks"
<1> DEFINE Asked(all) == {q \in Files!Range(all) : q.after # files[q.path]}
<1>1. ASSUME NEW p, PathsOf(job.step) = {p}, Files!Plans = Within(<<PlanOf(p)>>, Asked(<<PlanOf(p)>>))
      PROVE  IsFresh(PlanOf(p)) /\ Files!Plans = <<PlanOf(p)>> /\ PlanOf(p).path = p
  <2>1. PICK q : q = PlanOf(p) /\ q.path = p /\ q.after = Changed(p)
    BY PlanFields
  <2>2. Files!Range(<<q>>) = {q}
    BY DEF Files!Range
  <2>3. q \in Asked(<<q>>) <=> Changed(p) # files[p]
    BY <2>1, <2>2
  <2> HIDE DEF Asked
  <2>4. Files!Plans = IF q \in Asked(<<q>>) THEN <<q>> ELSE <<>>
    BY <1>1, <2>1, WithinOne
  <2>5. QED
    BY <1>1, <2>1, <2>3, <2>4 DEF IsFresh
<1>2. CASE job.step \in {"hooks", "flag"} \/ agent # "claude"
  <2>1. PICK p : PathsOf(job.step) = {p} /\ Files!Plans = Within(<<PlanOf(p)>>, Asked(<<PlanOf(p)>>))
    <3>1. CASE job.step = "hooks"
      <4>1. Files!Plans = Files!Within(<<PlanOf("hooks")>>, Asked(<<PlanOf("hooks")>>))
        BY <3>1 DEF Files!Plans, PlanOf, Changed, Change
      <4>2. QED
        BY <3>1, <4>1, FilesWithin DEF PathsOf
    <3>2. CASE job.step = "flag"
      <4>1. Files!Plans = Files!Within(<<PlanOf("servers")>>, Asked(<<PlanOf("servers")>>))
        BY <3>2 DEF Files!Plans, PlanOf, Changed, Change
      <4>2. QED
        BY <3>2, <4>1, FilesWithin DEF PathsOf
    <3>3. CASE job.step = "notify" /\ agent # "claude"
      <4>1. <<PlanOf("servers")>> \o <<>> = <<PlanOf("servers")>>
        OBVIOUS
      <4>2. Files!Plans = Files!Within(<<PlanOf("servers")>> \o <<>>, Asked(<<PlanOf("servers")>> \o <<>>))
        BY <3>3 DEF Files!Plans, PlanOf, Changed, Change
      <4>3. QED
        BY <3>3, <4>1, <4>2, FilesWithin DEF PathsOf
    <3>4. QED
      BY <1>2, <3>1, <3>2, <3>3 DEF FileTypes, JobTypes, JobSteps
  <2> HIDE DEF Asked
  <2>2. QED
    BY <1>1, <2>1
<1>3. CASE job.step = "notify" /\ agent = "claude"
  <2>1. PICK x, y : x = PlanOf("servers") /\ y = PlanOf("hooks") /\ x.path = "servers" /\ y.path = "hooks"
                    /\ x.after = Changed("servers") /\ y.after = Changed("hooks")
    <3>1. PICK x : x = PlanOf("servers")
      OBVIOUS
    <3>2. PICK y : y = PlanOf("hooks")
      OBVIOUS
    <3>3. QED
      BY <3>1, <3>2, PlanFields
  <2>2. <<x>> \o <<y>> = <<x, y>>
    BY TwoAre
  <2>3. Files!Plans = Files!Within(<<x>> \o <<y>>, Asked(<<x>> \o <<y>>))
    BY <1>3, <2>1 DEF Files!Plans, PlanOf, Changed, Change
  <2>4. Files!Range(<<x, y>>) = {x, y}
    BY DEF Files!Range
  <2>5. /\ x \in Asked(<<x, y>>) <=> Changed("servers") # files["servers"]
        /\ y \in Asked(<<x, y>>) <=> Changed("hooks") # files["hooks"]
    BY <2>1, <2>4
  <2> HIDE DEF Asked
  <2>6. Files!Plans = Within(<<x, y>>, Asked(<<x, y>>))
    BY <2>2, <2>3, FilesWithin
  <2>7. PathsOf(job.step) = {"servers", "hooks"}
    BY <1>3 DEF PathsOf, Files!Paths
  <2>8. /\ x \in Asked(<<x, y>>) => IsFresh(x)
        /\ y \in Asked(<<x, y>>) => IsFresh(y)
    BY <2>1, <2>5, <2>7 DEF IsFresh
  <2>9. /\ x \notin Asked(<<x, y>>) => Rests(job.step, job.action, "servers", files["servers"])
        /\ y \notin Asked(<<x, y>>) => Rests(job.step, job.action, "hooks", files["hooks"])
    BY <2>5, <2>7 DEF Rests, Changed
  <2>10. Files!Plans = IF x \in Asked(<<x, y>>) THEN IF y \in Asked(<<x, y>>) THEN <<x, y>> ELSE <<x>>
                       ELSE IF y \in Asked(<<x, y>>) THEN <<y>> ELSE <<>>
    BY <2>6, WithinTwo
  <2>11. CASE x \in Asked(<<x, y>>) /\ y \in Asked(<<x, y>>)
    BY <1>3, <2>1, <2>8, <2>10, <2>11
  <2>12. CASE x \in Asked(<<x, y>>) /\ y \notin Asked(<<x, y>>)
    BY <2>1, <2>7, <2>8, <2>9, <2>10, <2>12
  <2>13. CASE x \notin Asked(<<x, y>>)
    <3>1. y \in Asked(<<x, y>>) /\ Files!Plans = <<y>>
      BY <2>10, <2>13
    <3>2. QED
      BY <2>1, <2>7, <2>8, <2>9, <2>13, <3>1
  <2>14. QED
    BY <2>11, <2>12, <2>13
<1>4. QED
  BY <1>2, <1>3 DEF FileTypes, JobTypes, JobSteps

LEMMA FreshHolds ==
    ASSUME Files!FilesAssumption, FileTypes, NEW q, IsFresh(q), files[q.path].kind # "broken"
    PROVE  PlanHolds(q)
<1>1. PICK p \in PathsOf(job.step) : q = PlanOf(p) /\ Changed(p) # files[p]
  BY DEF IsFresh
<1>2. q.path = p /\ q.after = Changed(p) /\ p \in Files!Paths
  BY <1>1 DEF PlanOf, PathsOf, Files!Paths
<1>3. PICK k, a, f : k \in JobSteps /\ a \in Actions /\ k = job.step /\ a = job.action /\ f = files[p] /\ IsText(f)
  BY <1>2 DEF FileTypes, JobTypes
<1>4. Becomes(k, a, p, f, Change(k, a, p, f))
  BY <1>1, <1>2, <1>3, ChangeBecomes DEF FileTypes
<1>5. PICK g : g = q.after /\ g = Change(k, a, p, f) /\ g # f
  BY <1>1, <1>2, <1>3 DEF Changed
<1>6. IsText(g) /\ g.kind = "json" /\ Files!Users(g) = Files!Users(f) /\ Change(k, a, p, g) = g
  BY <1>4, <1>5 DEF Becomes
<1>7. Rests(k, a, p, g)
  BY <1>6 DEF Rests
<1>8. QED
  BY <1>1, <1>2, <1>3, <1>5, <1>6, <1>7 DEF PlanHolds

LEMMA MakeFiles == ASSUME Files!FilesAssumption, FilesInv, Files!MakePlans PROVE FilesInv'
<1>1. FileTypes /\ JobTypes /\ second \in Nat
  BY DEF FilesInv, FileTypes
<1>2. CASE job' \in {Files!Idle, Files!NextStep(FALSE)}
  <2>1. JobTypes' /\ PlansHold'
    BY <1>1, <1>2, NextStepIs
  <2>2. QED
    BY <1>1, <2>1, NothingWritten DEF Files!MakePlans, Files!history
<1>3. CASE job' \notin {Files!Idle, Files!NextStep(FALSE)}
  <2>1. /\ \A p \in Files!Read : files[p].kind # "broken"
        /\ Files!Plans # <<>> /\ job' = [job EXCEPT !.phase = "asked", !.plans = Files!Plans]
    BY <1>3 DEF Files!MakePlans
  <2>2. Files!Read = PathsOf(job.step)
    BY DEF Files!Read, PathsOf
  <2>3. JobTypes' /\ job'.phase = "asked" /\ job'.plans = Files!Plans
        /\ UNCHANGED <<job.step, job.action, job.untouched>>
    BY <1>1, <2>1 DEF JobTypes
  <2>4. PICK q : /\ IsFresh(q)
                 /\ \/ /\ Files!Plans = <<q>>
                       /\ \A p \in PathsOf(job.step) \ {q.path} : Rests(job.step, job.action, p, files[p])
                    \/ /\ job.step = "notify" /\ q.path = "servers"
                       /\ \E r : Files!Plans = <<q, r>> /\ IsFresh(r) /\ r.path = "hooks"
    BY <1>1, <2>1, <2>2, PlansAre
  <2>5. \A p : Trusted(p)' => Trusted(p)
    <3>1. ASSUME NEW p, Trusted(p)' PROVE Trusted(p)
      BY <2>3, <3>1, TrustStays DEF Files!MakePlans
    <3>2. QED
      BY <3>1
  <2>6. ASSUME NEW r, IsFresh(r) PROVE PlanHolds(r)'
    <3>1. r.path \in PathsOf(job.step)
      BY <2>6 DEF IsFresh, PlanOf
    <3>2. PlanHolds(r)
      BY <1>1, <2>1, <2>2, <2>6, <3>1, FreshHolds
    <3>3. Trusted(r.path)' => Trusted(r.path)
      <4>1. PICK p : p = r.path
        OBVIOUS
      <4>2. QED
        BY <2>5, <4>1
    <3>4. QED
      BY <2>3, <3>2, <3>3, PlanStays DEF Files!MakePlans, Files!history
  <2>7. PlanHolds(q)'
    BY <2>4, <2>6
  <2>8. (OnlyPlan(q) \/ FirstPlan(q))'
    <3>1. CASE Files!Plans = <<q>> /\ \A p \in PathsOf(job.step) \ {q.path} : Rests(job.step, job.action, p, files[p])
      <4>1. job'.plans = <<q>>
        BY <2>3, <3>1
      <4>2. OnlyPlan(q)'
        BY <2>3, <3>1, <4>1 DEF OnlyPlan, PathsOf, Rests, Change, Files!Flagged, Files!MakePlans
      <4>3. QED
        BY <4>2
    <3>2. CASE /\ job.step = "notify" /\ q.path = "servers"
               /\ \E r : Files!Plans = <<q, r>> /\ IsFresh(r) /\ r.path = "hooks"
      BY <2>3, <2>6, <3>2 DEF FirstPlan
    <3>3. QED
      BY <2>4, <3>1, <3>2
  <2>9. PlansHold'
    BY <2>3, <2>7, <2>8 DEF PlansHold
  <2>10. QED
    BY <1>1, <2>3, <2>9, NothingWritten DEF Files!MakePlans, Files!history
<1>4. QED
  BY <1>2, <1>3

\* The flag's plan of a file that could not be read: nobody relies on what it was.
LEMMA FailsFiles == ASSUME Files!FilesAssumption, FilesInv, Files!ReadFails PROVE FilesInv'
<1>1. FileTypes /\ JobTypes /\ second \in Nat /\ TextIsKept /\ SettledRests
  BY DEF FilesInv, FileTypes
<1>2. UNCHANGED <<agent, version, files, backups, second, wanted, since, hasty>>
  BY DEF Files!ReadFails
<1>3. PICK b, f : b = Files!Blank /\ f = Files!Flagged(b)
  OBVIOUS
<1>4. CASE ~(job.step = "flag" /\ f # b)
  <2>1. job' \in {Files!Idle, Files!NextStep(FALSE)} /\ UNCHANGED <<overtaken, settled>>
    BY <1>3, <1>4 DEF Files!ReadFails
  <2>2. JobTypes' /\ PlansHold'
    BY <1>1, <2>1, NextStepIs
  <2>3. QED
    BY <1>1, <1>2, <2>1, <2>2, NothingWritten
<1>5. CASE job.step = "flag" /\ f # b
  <2>1. PICK q : q = [path |-> "servers", after |-> f]
    OBVIOUS
  <2>2. /\ job' = [job EXCEPT !.phase = "asked", !.untouched = FALSE, !.plans = <<q>>]
        /\ overtaken' = overtaken \cup {"servers"}
        /\ settled' = [settled EXCEPT !["flag"] = "none", !["notify"] = "none"]
        /\ files["servers"].kind # "absent"
    BY <1>3, <1>5, <2>1 DEF Files!ReadFails, Files!Read
  <2>3. /\ JobTypes' /\ job'.phase = "asked" /\ job'.step = "flag" /\ job'.action = job.action
        /\ job'.plans = <<q>> /\ job'.untouched = FALSE
    BY <1>1, <1>5, <2>2 DEF JobTypes
  <2>4. \A k \in JobSteps : settled'[k] # "none" => settled'[k] = settled[k] /\ k = "hooks"
    BY <1>1, <2>2 DEF FileTypes, JobSteps
  <2>5. /\ settled' \in [JobSteps -> Actions \cup {"none"}]
        /\ overtaken' \subseteq Files!Paths /\ \A p \in overtaken' : files[p].kind # "absent"
    BY <1>1, <2>2 DEF FileTypes, Files!Paths
  <2>6. IsText(b) /\ b.kind # "broken"
    BY <1>3, BlankIsText DEF IsText
  <2>7. Becomes("flag", job.action, "servers", b, f)
    <3>1. "servers" \in PathsOf("flag") /\ "flag" \in JobSteps /\ job.action \in Actions
      BY <1>1 DEF PathsOf, JobSteps, JobTypes
    <3>2. Change("flag", job.action, "servers", b) = f
      BY <1>3 DEF Change
    <3>3. Becomes("flag", job.action, "servers", b, Change("flag", job.action, "servers", b))
      BY <1>1, <2>6, <3>1, ChangeBecomes DEF FileTypes
    <3>4. QED
      BY <3>2, <3>3
  <2>8. IsText(f) /\ f.kind = "json" /\ Files!Flagged(f) = f
    BY <1>5, <2>7 DEF Becomes, Change
  <2>9. PlanHolds(q)'
    <3>1. q.path = "servers" /\ q.after = f
      BY <2>1
    <3>2. (q.path \in PathsOf(job.step))'
      BY <2>3, <3>1 DEF PathsOf
    <3>3. (IsText(q.after) /\ q.after.kind = "json")'
      BY <2>8, <3>1 DEF IsText
    <3>4. Rests(job.step, job.action, q.path, q.after)'
      BY <1>2, <2>3, <2>8, <3>1 DEF Rests, Change, Files!Flagged
    <3>5. (q.path \in overtaken)'
      BY <2>2, <3>1
    <3>6. ~Trusted(q.path)'
      <4> SUFFICES ASSUME Trusted(q.path)' PROVE FALSE
        OBVIOUS
      <4>1. PICK k \in JobSteps : settled'[k] # "none" /\ q.path \in PathsOf(k)'
        BY <2>3 DEF Trusted
      <4>2. k = "hooks"
        BY <2>4, <4>1
      <4>3. QED
        BY <3>1, <4>1, <4>2 DEF PathsOf
    <3>7. QED
      BY <3>2, <3>3, <3>4, <3>5, <3>6 DEF PlanHolds
  <2>10. OnlyPlan(q)'
    BY <2>3 DEF OnlyPlan
  <2>11. PlansHold'
    BY <2>3, <2>9, <2>10 DEF PlansHold
  <2>12. TextIsKept'
    <3>1. overtaken \subseteq overtaken'
      BY <2>2
    <3>2. QED
      BY <1>1, <1>2, <3>1 DEF TextIsKept, Saved, HasIt, Newer
  <2>13. SettledRests'
    <3>1. ASSUME NEW k \in JobSteps, NEW p \in PathsOf(k), NEW a, NEW g, a = settled'[k], g = files'[p]
          PROVE  SettledOn(k, a, p, g)
      BY <1>1, <1>2, <2>4, <3>1 DEF SettledOn, SettledRests
    <3>2. QED
      BY <1>2, <3>1, SettledThen
  <2>14. FileTypes'
    <3>1. \A p \in Files!Paths : IsText(files[p])'
      BY <1>1, <1>2 DEF FileTypes, IsText
    <3>2. QED
      BY <1>1, <1>2, <2>3, <2>5, <3>1 DEF FileTypes
  <2>15. QED
    BY <2>11, <2>12, <2>13, <2>14 DEF FilesInv
<1>6. QED
  BY <1>4, <1>5

\* The backup that is taken has the text, and so does the one that had it, unless it was
\* taken in the same second or there are newer ones enough.
LEMMA CountIs == ASSUME NEW S PROVE Files!Cardinality(S) = Cardinality(S)
BY DEF Files!Cardinality, Cardinality

LEMMA BackupKeeps ==
    ASSUME Files!FilesAssumption, NEW n \in Nat, NEW c, DOMAIN c \subseteq 0 .. n, NEW f,
           NEW d, d = Files!Pruned([s \in DOMAIN c \cup {n} |-> IF s = n THEN f ELSE c[s]])
    PROVE  /\ DOMAIN d \subseteq 0 .. n
           /\ \A m \in Nat : HasIt(d, Files!Users(f), m + 1)
           /\ \A text : \A m \in Nat : n \notin DOMAIN c /\ HasIt(c, text, m) =>
                 HasIt(d, text, m + 1) \/ m + 1 > KeepBackups
<1>1. PICK b : b = [s \in DOMAIN c \cup {n} |-> IF s = n THEN f ELSE c[s]]
  OBVIOUS
<1>2. /\ DOMAIN b = DOMAIN c \cup {n} /\ DOMAIN b \subseteq 0 .. n
      /\ b[n] = f /\ \A s \in DOMAIN c : s # n => b[s] = c[s]
  BY <1>1
<1>3. IsFiniteSet(DOMAIN b) /\ IsFiniteSet(DOMAIN c)
  <2>1. IsFiniteSet(0 .. n)
    BY FS_Interval
  <2>2. QED
    BY <1>2, <2>1, FS_Subset
<1>4. PICK K : K = {s \in DOMAIN b : Cardinality(Newer(b, s)) < KeepBackups} /\ d = [s \in K |-> b[s]]
  <2>1. d = Files!Pruned(b)
    BY <1>1
  <2>2. PICK K : K = {s \in DOMAIN b : Cardinality({t \in DOMAIN b : t > s}) < KeepBackups}
                 /\ Files!Pruned(b) = [s \in K |-> b[s]]
    <3> DEFINE L == {s \in DOMAIN b : Cardinality({t \in DOMAIN b : t > s}) < KeepBackups}
    <3>1. \A s : Files!Cardinality({t \in DOMAIN b : t > s}) = Cardinality({t \in DOMAIN b : t > s})
      BY CountIs
    <3>2. L = {s \in DOMAIN b : Files!Cardinality({t \in DOMAIN b : t > s}) < KeepBackups}
      BY <3>1
    <3>3. Files!Pruned(b) = [s \in L |-> b[s]]
      BY <3>2, Zenon DEF Files!Pruned
    <3>4. QED
      BY <3>3
  <2>3. K = {s \in DOMAIN b : Cardinality(Newer(b, s)) < KeepBackups}
    BY <2>2 DEF Newer
  <2>4. QED
    BY <2>1, <2>2, <2>3
<1>5. DOMAIN d = K /\ \A s \in K : d[s] = b[s]
  BY <1>4
<1>6. \A s : /\ IsFiniteSet(Newer(b, s)) /\ IsFiniteSet(Newer(c, s))
             /\ Cardinality(Newer(b, s)) \in Nat /\ Cardinality(Newer(c, s)) \in Nat
             /\ Cardinality(Newer(d, s)) \in Nat /\ Cardinality(Newer(d, s)) <= Cardinality(Newer(b, s))
  <2> SUFFICES ASSUME NEW s
               PROVE  /\ IsFiniteSet(Newer(b, s)) /\ IsFiniteSet(Newer(c, s))
                      /\ Cardinality(Newer(b, s)) \in Nat /\ Cardinality(Newer(c, s)) \in Nat
                      /\ Cardinality(Newer(d, s)) \in Nat /\ Cardinality(Newer(d, s)) <= Cardinality(Newer(b, s))
    OBVIOUS
  <2>1. Newer(b, s) \subseteq DOMAIN b /\ Newer(c, s) \subseteq DOMAIN c /\ Newer(d, s) \subseteq Newer(b, s)
    BY <1>4, <1>5 DEF Newer
  <2>2. IsFiniteSet(Newer(b, s)) /\ IsFiniteSet(Newer(c, s))
    BY <1>3, <2>1, FS_Subset
  <2>3. IsFiniteSet(Newer(d, s)) /\ Cardinality(Newer(d, s)) <= Cardinality(Newer(b, s))
    BY <2>1, <2>2, FS_Subset
  <2>4. QED
    BY <2>2, <2>3, FS_CardinalityType
<1>7. n \in K /\ Cardinality(Newer(d, n)) = 0
  <2>1. Newer(b, n) = {} /\ Newer(d, n) = {}
    <3>1. DOMAIN b \subseteq 0 .. n /\ DOMAIN d \subseteq DOMAIN b
      BY <1>2, <1>4, <1>5, Zenon
    <3>2. \A t \in 0 .. n : ~(t > n)
      OBVIOUS
    <3>3. QED
      BY <3>1, <3>2 DEF Newer
  <2>2. Cardinality(Newer(b, n)) = 0 /\ Cardinality(Newer(d, n)) = 0
    BY <2>1, FS_EmptySet
  <2>3. QED
    BY <1>2, <1>4, <2>2 DEF Files!FilesAssumption
<1>8. ASSUME NEW m \in Nat PROVE HasIt(d, Files!Users(f), m + 1)
  <2>1. d[n] = f
    BY <1>2, <1>5, <1>7
  <2>2. QED
    BY <1>5, <1>7, <2>1 DEF HasIt
<1>9. ASSUME NEW text, NEW m \in Nat, n \notin DOMAIN c, HasIt(c, text, m)
      PROVE  HasIt(d, text, m + 1) \/ m + 1 > KeepBackups
  <2>1. PICK s \in DOMAIN c : Files!Users(c[s]) = text /\ Cardinality(Newer(c, s)) < m
    BY <1>9 DEF HasIt
  <2>2. s # n /\ s \in 0 .. n /\ s \in DOMAIN b /\ b[s] = c[s]
    BY <1>2, <1>9
  <2>3. Newer(b, s) = Newer(c, s) \cup {n} /\ n \notin Newer(c, s)
    BY <1>2, <1>9, <2>2 DEF Newer
  <2>4. Cardinality(Newer(b, s)) = Cardinality(Newer(c, s)) + 1
    BY <1>6, <2>3, FS_AddElement
  <2>5. Cardinality(Newer(b, s)) < m + 1
    BY <1>6, <2>1, <2>4
  <2>6. CASE s \in K
    <3>1. d[s] = c[s] /\ Cardinality(Newer(d, s)) < m + 1
      BY <1>5, <1>6, <2>2, <2>5, <2>6
    <3>2. QED
      BY <1>5, <2>1, <2>6, <3>1 DEF HasIt
  <2>7. CASE s \notin K
    <3>1. ~(Cardinality(Newer(b, s)) < KeepBackups)
      BY <1>4, <2>2, <2>7
    <3>2. PICK u \in Nat : u = Cardinality(Newer(b, s))
      BY <1>6
    <3>3. KeepBackups \in Nat
      BY DEF Files!FilesAssumption
    <3>4. QED
      BY <2>5, <3>1, <3>2, <3>3
  <2>8. QED
    BY <2>6, <2>7
<1>10. QED
  BY <1>2, <1>4, <1>5, <1>8, <1>9

LEMMA SavedThen ==
    ASSUME NEW p, NEW d, d = backups'[p], NEW w, w = wanted'[p], NEW m, m = since'[p], p \in overtaken',
           p \in hasty' \/ m > KeepBackups \/ HasIt(d, w, m)
    PROVE  Saved(p)'
BY DEF Saved, HasIt, Newer

LEMMA TargetIs ==
    ASSUME NEW q, OnlyPlan(q) \/ FirstPlan(q)
    PROVE  Head(job.plans) = q /\ Files!Target = q.path /\ \E i \in DOMAIN job.plans : job.plans[i] = q
<1>1. Head(job.plans) = q /\ \E i \in DOMAIN job.plans : job.plans[i] = q
  <2>1. CASE job.plans = <<q>>
    BY <2>1
  <2>2. CASE FirstPlan(q)
    <3>1. PICK r : job.plans = <<q, r>>
      BY <2>2 DEF FirstPlan
    <3>2. QED
      BY <3>1
  <2>3. QED
    BY <2>1, <2>2 DEF OnlyPlan
<1>2. QED
  BY <1>1 DEF Files!Target

LEMMA BackupFiles == ASSUME Files!FilesAssumption, FilesInv, Files!Backup PROVE FilesInv'
<1>1. FileTypes /\ JobTypes /\ second \in Nat /\ PlansHold
  BY DEF FilesInv, FileTypes
<1>2. /\ Waiting /\ job'.phase = "replace" /\ JobTypes' /\ UNCHANGED <<job.step, job.action, job.plans, job.untouched>>
      /\ UNCHANGED <<agent, version, files, second, wanted, overtaken, settled>>
  BY <1>1 DEF Files!Backup, JobTypes, Waiting
<1>3. PICK q : PlanHolds(q) /\ (OnlyPlan(q) \/ FirstPlan(q))
  BY <1>1, <1>2 DEF PlansHold
<1>4. PICK p \in Files!Paths : p = q.path /\ p = Files!Target
  BY <1>3, TargetIs DEF PlanHolds, PathsOf, Files!Paths
<1>5. \A r : OnlyPlan(r) \/ FirstPlan(r) => r.path = p
  BY <1>4, TargetIs
<1>6. CASE files[p].kind = "absent"
  <2>1. UNCHANGED <<backups, since, hasty>>
    BY <1>4, <1>6 DEF Files!Backup
  <2>2. p \notin overtaken
    BY <1>1, <1>6 DEF FileTypes
  <2>3. \A r : PlanHolds(r) /\ r.path = p => SafeToWrite(r)'
    BY <1>2, <2>2 DEF PlanHolds, SafeToWrite
  <2>4. PlansHold'
    BY <1>1, <1>2, <1>5, <2>3, PlansStay
  <2>5. QED
    BY <1>1, <1>2, <2>1, <2>4, NothingWritten
<1>7. CASE files[p].kind # "absent"
  <2>1. PICK c, f : c = backups[p] /\ f = files[p]
    OBVIOUS
  <2>2. PICK n \in Nat : n = second
    BY <1>1
  <2>3. PICK d : d = Files!Pruned([s \in DOMAIN c \cup {n} |-> IF s = n THEN f ELSE c[s]])
    OBVIOUS
  <2>4. /\ backups' = [backups EXCEPT ![p] = d]
        /\ since' = [since EXCEPT ![p] = @ + 1]
        /\ hasty' = IF n \in DOMAIN c THEN hasty \cup {p} ELSE hasty
    BY <1>4, <1>7, <2>1, <2>2, <2>3 DEF Files!Backup
  <2>5. DOMAIN c \subseteq 0 .. n
    BY <1>1, <2>1, <2>2 DEF FileTypes
  <2>6. PICK m \in Nat : m = since[p]
    BY <1>1 DEF FileTypes
  <2>7. backups'[p] = d /\ since'[p] = m + 1
    BY <1>1, <2>4, <2>6 DEF FileTypes
  <2>8. \A r \in Files!Paths : r # p => backups'[r] = backups[r] /\ since'[r] = since[r]
    BY <1>1, <2>4 DEF FileTypes
  <2>9. hasty \subseteq hasty' /\ (n \in DOMAIN c => p \in hasty')
    BY <2>4
  <2>10. PICK w : w = wanted'[p] /\ w = wanted[p]
    BY <1>2
  <2>11. /\ DOMAIN d \subseteq 0 .. n /\ HasIt(d, Files!Users(f), m + 1)
         /\ n \notin DOMAIN c /\ HasIt(c, w, m) => HasIt(d, w, m + 1) \/ m + 1 > KeepBackups
    BY <2>3, <2>5, BackupKeeps
  <2>12. KeepBackups \in Nat
    BY DEF Files!FilesAssumption
  <2>13. p \in overtaken /\ (Files!Users(f) = w \/ Saved(p)) => Saved(p)'
    <3> SUFFICES ASSUME p \in overtaken, Files!Users(f) = w \/ Saved(p) PROVE Saved(p)'
      OBVIOUS
    <3>1. p \in hasty' \/ m + 1 > KeepBackups \/ HasIt(d, w, m + 1)
      <4>1. CASE Files!Users(f) = w
        BY <2>11, <4>1
      <4>2. CASE Saved(p)
        <5>1. p \in hasty \/ m > KeepBackups \/ HasIt(c, w, m)
          BY <2>1, <2>6, <2>10, <4>2 DEF Saved
        <5>2. m > KeepBackups => m + 1 > KeepBackups
          BY <2>12
        <5>3. QED
          BY <2>9, <2>11, <5>1, <5>2
      <4>3. QED
        BY <4>1, <4>2
    <3>2. QED
      BY <1>2, <2>7, <2>10, <3>1, SavedThen
  <2>14. Files!Users(f) = w \/ Saved(p)
    BY <2>1, <2>10 DEF FilesInv, TextIsKept
  <2>15. ASSUME NEW r, PlanHolds(r), r.path = p PROVE SafeToWrite(r)'
    <3>1. Files!Users(r.after) = Files!Users(files[p]) \/ p \in overtaken
      BY <2>15 DEF PlanHolds
    <3>2. (Files!Users(r.after) = Files!Users(files[r.path]))' \/ Saved(p)'
      BY <1>2, <2>13, <2>14, <2>15, <3>1
    <3>3. Saved(p)' => Saved(r.path)'
      BY <2>15
    <3>4. QED
      BY <3>2, <3>3 DEF SafeToWrite
  <2>16. PlansHold'
    BY <1>1, <1>2, <1>5, <2>15, PlansStay
  <2>17. TextIsKept'
    <3> SUFFICES ASSUME NEW r \in Files!Paths PROVE (Files!Users(files[r]) = wanted[r] \/ Saved(r))'
      BY DEF TextIsKept
    <3>1. Files!Users(files[r]) = wanted[r] \/ Saved(r)
      BY DEF FilesInv, TextIsKept
    <3>2. CASE r = p
      <4>1. Files!Users(files[p]) = wanted[p] \/ Saved(p)'
        <5>1. Saved(p) => p \in overtaken
          BY DEF Saved
        <5>2. QED
          BY <2>13, <3>1, <3>2, <5>1
      <4>2. QED
        BY <1>2, <3>2, <4>1
    <3>3. CASE r # p
      BY <1>2, <2>8, <2>9, <3>1, <3>3 DEF Saved, HasIt, Newer
    <3>4. QED
      BY <3>2, <3>3
  <2>18. FileTypes'
    <3>1. backups' = [r \in Files!Paths |-> backups'[r]]
      BY <1>1, <2>4 DEF FileTypes
    <3>2. \A r \in Files!Paths : DOMAIN backups'[r] \subseteq 0 .. second'
      BY <1>1, <1>2, <2>2, <2>7, <2>8, <2>11 DEF FileTypes
    <3>3. since' \in [Files!Paths -> Nat]
      BY <1>1, <2>4 DEF FileTypes
    <3>4. \A r \in Files!Paths : IsText(files[r])'
      BY <1>1, <1>2 DEF FileTypes, IsText
    <3>5. QED
      BY <1>1, <1>2, <3>1, <3>2, <3>3, <3>4 DEF FileTypes
  <2>19. SettledRests'
    BY <1>2, SettledStays DEF FilesInv
  <2>20. QED
    BY <2>16, <2>17, <2>18, <2>19 DEF FilesInv
<1>8. QED
  BY <1>6, <1>7

\* The text that is written leaves at rest what the other steps wrote.
LEMMA ReplaceFiles == ASSUME Files!FilesAssumption, FilesInv, Files!Replace PROVE FilesInv'
<1>1. FileTypes /\ JobTypes /\ second \in Nat /\ PlansHold /\ SettledRests /\ TextIsKept
  BY DEF FilesInv, FileTypes
<1>2. Waiting /\ UNCHANGED <<agent, version, backups, second, wanted, since, overtaken, hasty>>
  BY DEF Files!Replace, Files!history, Waiting
<1>3. PICK q : PlanHolds(q) /\ (OnlyPlan(q) \/ FirstPlan(q)) /\ SafeToWrite(q)
  BY <1>1, <1>2 DEF PlansHold, Files!Replace
<1>4. PICK p \in Files!Paths : p = q.path /\ p = Files!Target /\ p \in PathsOf(job.step)
  BY <1>3, TargetIs DEF PlanHolds, PathsOf, Files!Paths
<1>5. PICK g : g = q.after /\ IsText(g) /\ g.kind = "json" /\ Rests(job.step, job.action, p, g)
  BY <1>3, <1>4 DEF PlanHolds
<1>6. files' = [files EXCEPT ![p] = g]
  BY <1>3, <1>4, <1>5, TargetIs DEF Files!Replace
<1>7. files'[p] = g /\ \A r \in Files!Paths : r # p => files'[r] = files[r]
  BY <1>1, <1>6 DEF FileTypes
<1>8. TextIsKept'
  <2> SUFFICES ASSUME NEW r \in Files!Paths PROVE (Files!Users(files[r]) = wanted[r] \/ Saved(r))'
    BY DEF TextIsKept
  <2>1. Files!Users(files[r]) = wanted[r] \/ Saved(r)
    BY <1>1 DEF TextIsKept
  <2>2. Saved(r) => Saved(r)'
    BY <1>2 DEF Saved, HasIt, Newer
  <2>3. CASE r # p
    BY <1>2, <1>7, <2>1, <2>2, <2>3
  <2>4. CASE r = p
    <3>1. Files!Users(g) = Files!Users(files[p]) \/ Saved(p)
      BY <1>3, <1>4, <1>5 DEF SafeToWrite
    <3>2. QED
      BY <1>2, <1>7, <2>1, <2>2, <2>4, <3>1
  <2>5. QED
    BY <2>3, <2>4
<1>9. \A k \in JobSteps \ {job.step} : settled'[k] = settled[k]
  BY <1>1 DEF Files!Replace, FileTypes
<1>10. settled' \in [JobSteps -> Actions \cup {"none"}]
  BY <1>1 DEF Files!Replace, FileTypes, JobTypes
<1>11. ASSUME settled'[job.step] # "none", NEW r \in PathsOf(job.step)
       PROVE  settled'[job.step] = job.action /\ Rests(job.step, job.action, r, files'[r])
  <2>1. /\ settled'[job.step] = job.action
        /\ job.step = "notify" => Len(job.plans) = 1 /\ job.untouched = TRUE
    BY <1>1, <1>11 DEF Files!Replace, FileTypes, JobTypes
  <2>2. CASE r = p
    BY <1>5, <1>7, <2>1, <2>2
  <2>3. CASE r # p
    <3>1. job.step = "notify"
      BY <1>4, <1>11, <2>3 DEF PathsOf
    <3>2. OnlyPlan(q)
      <4>1. ~FirstPlan(q)
        <5>1. \A x, y : Len(<<x, y>>) # 1
          OBVIOUS
        <5>2. QED
          BY <2>1, <3>1, <5>1 DEF FirstPlan
      <4>2. QED
        BY <1>3, <4>1
    <3>3. Rests(job.step, job.action, r, files[r]) /\ r \in Files!Paths
      BY <1>4, <1>11, <2>1, <2>3, <3>1, <3>2 DEF OnlyPlan, PathsOf, Files!Paths
    <3>4. QED
      BY <1>7, <2>1, <2>3, <3>3
  <2>4. QED
    BY <2>2, <2>3
<1>12. ASSUME NEW k \in JobSteps \ {job.step}, settled[k] # "none", NEW r \in PathsOf(k)
       PROVE  Rests(k, settled[k], r, files'[r])
  <2>1. PICK a, f : a \in Actions /\ a = settled[k] /\ f = files[r]
    <3>1. settled[k] \in Actions
      BY <1>1, <1>12 DEF FileTypes
    <3>2. QED
      BY <3>1
  <2>2. Rests(k, a, r, f) /\ r \in Files!Paths /\ IsText(f)
    <3>1. Rests(k, settled[k], r, files[r]) /\ r \in Files!Paths
      BY <1>1, <1>12 DEF SettledRests, PathsOf, Files!Paths
    <3>2. QED
      BY <1>1, <2>1, <3>1 DEF FileTypes
  <2>3. CASE r # p
    BY <1>7, <2>1, <2>2, <2>3
  <2>4. CASE r = p
    <3>1. Trusted(p)
      BY <1>12, <2>4 DEF Trusted
    <3>2. g = Change(job.step, job.action, p, f)
      BY <1>3, <1>4, <1>5, <2>1, <2>4, <3>1 DEF PlanHolds, Changed
    <3>3. PICK l \in JobSteps \ {k}, b \in Actions : l = job.step /\ b = job.action
      BY <1>1, <1>12 DEF JobTypes
    <3>4. p \in PathsOf(k) \cap PathsOf(l) /\ version \in {"unknown", "early", "gated", "modern"}
      BY <1>1, <1>4, <1>12, <2>4, <3>3 DEF FileTypes
    <3>5. Change(k, a, p, f) = f
      BY <2>2, <2>4 DEF Rests
    <3>6. Change(k, a, p, g) = g
      <4>1. g = Change(l, b, p, f) /\ IsText(g) /\ IsText(f) /\ a \in Actions
        BY <1>5, <2>1, <2>2, <3>2, <3>3
      <4>2. QED
        BY <3>4, <3>5, <4>1, StepsCommute
    <3>7. QED
      BY <1>5, <1>7, <2>1, <2>4, <3>6 DEF Rests
  <2>5. QED
    BY <2>3, <2>4
<1>13. SettledRests'
  <2>1. ASSUME NEW k \in JobSteps, NEW r \in PathsOf(k), NEW a, NEW f, a = settled'[k], f = files'[r]
        PROVE  SettledOn(k, a, r, f)
    BY <1>9, <1>11, <1>12, <2>1 DEF SettledOn
  <2>2. QED
    BY <1>2, <2>1, SettledThen
<1>14. JobTypes' /\ PlansHold'
  <2>1. CASE OnlyPlan(q)
    <3>1. ~(Len(job.plans) > 1)
      BY <2>1 DEF OnlyPlan
    <3>2. job' = Files!NextStep(TRUE)
      BY <3>1 DEF Files!Replace
    <3>3. QED
      BY <1>1, <3>2, NextStepIs
  <2>2. CASE FirstPlan(q)
    <3>1. PICK r : job.plans = <<q, r>> /\ PlanHolds(r) /\ r.path = "hooks" /\ job.step = "notify" /\ p = "servers"
      BY <1>4, <2>2 DEF FirstPlan
    <3>2. Len(job.plans) > 1 /\ Tail(job.plans) = <<r>>
      BY <3>1
    <3>3. job' = [job EXCEPT !.phase = "backup", !.plans = <<r>>]
      BY <3>2 DEF Files!Replace
    <3>4. /\ JobTypes' /\ job'.phase = "backup" /\ job'.plans = <<r>>
          /\ UNCHANGED <<job.step, job.action, job.untouched>>
      BY <1>1, <3>3 DEF JobTypes
    <3>5. Trusted(r.path)' => Trusted(r.path)
      <4>1. PICK h : h = r.path
        OBVIOUS
      <4>2. Trusted(h)' => Trusted(h)
        BY <1>2, <1>9, <3>4 DEF Trusted, PathsOf
      <4>3. QED
        BY <4>1, <4>2
    <3>6. files'[r.path] = files[r.path]
      BY <1>7, <3>1 DEF Files!Paths
    <3>7. PlanHolds(r)'
      BY <1>2, <3>1, <3>4, <3>5, <3>6, PlanStays
    <3>8. OnlyPlan(r)'
      <4>1. ASSUME NEW s \in PathsOf("notify")', s # r.path PROVE Rests("notify", job.action, s, files[s])'
        <5>1. s = p
          BY <3>1, <4>1 DEF PathsOf, Files!Paths
        <5>2. Rests("notify", job.action, s, g)
          BY <1>5, <3>1, <5>1
        <5>3. files'[s] = g /\ job'.action = job.action
          BY <1>7, <3>4, <5>1
        <5>4. QED
          BY <1>2, <5>2, <5>3 DEF Rests, Change, Files!Flagged
      <4>2. QED
        BY <3>4, <4>1 DEF OnlyPlan
    <3>9. QED
      BY <3>4, <3>7, <3>8 DEF PlansHold
  <2>3. QED
    BY <1>3, <2>1, <2>2
<1>15. FileTypes'
  <2>1. \A r \in Files!Paths : IsText(files[r])'
    <3>1. \A r \in Files!Paths : IsText(files'[r])
      BY <1>1, <1>5, <1>7 DEF FileTypes
    <3>2. QED
      BY <3>1 DEF IsText
  <2>2. files' = [r \in Files!Paths |-> files'[r]]
    BY <1>1, <1>6 DEF FileTypes
  <2>3. \A r \in overtaken' : files'[r].kind # "absent"
    BY <1>1, <1>2, <1>5, <1>7 DEF FileTypes
  <2>4. QED
    BY <1>1, <1>2, <1>10, <1>14, <2>1, <2>2, <2>3 DEF FileTypes
<1>16. QED
  BY <1>8, <1>13, <1>14, <1>15 DEF FilesInv

\* Whatever the user and the agent write is a text.
LEMMA TheirTable ==
    ASSUME NEW f, IsText(f), NEW h \in Tables, NEW g, g = [f EXCEPT !.kind = "json", !.hooks = h]
    PROVE  IsText(g) /\ g.kind = "json"
<1>1. PICK H : H = Tables /\ f \in TextsWith(H) /\ h \in H
  BY TextsAre DEF IsText
<1>2. g \in TextsWith(H) /\ g.kind = "json"
  BY <1>1 DEF TextsWith
<1>3. QED
  BY <1>1, <1>2, TextsAre DEF IsText

LEMMA TableExcept ==
    ASSUME NEW h \in Tables, NEW e \in Files!Events, NEW t \in Entries
    PROVE  [h EXCEPT ![e] = t] \in Tables
BY DEF Tables

LEMMA WrittenIsText ==
    ASSUME NEW f, IsText(f), NEW g \in Files!Written(f)
    PROVE  IsText(g) /\ g.kind \in {"json", "broken"}
<1>1. PICK H : H = Tables /\ f \in TextsWith(H)
  BY TextsAre DEF IsText
<1>2. PICK h \in Tables : h = f.hooks
  BY <1>1, TextFields
<1>3. PICK c \in Files!Commands : c = Files!Command("user", "own")
  <2>1. PICK x \in Files!Does : x = "own"
    BY DEF Files!Does
  <2>2. PICK D : D = Files!Does
    OBVIOUS
  <2>3. [by |-> "user", does |-> x] \in [by : {"user", "us", "old"}, does : D]
    BY <2>2
  <2>4. Files!Command("user", "own") \in Files!Commands
    BY <2>1, <2>2, <2>3, Zenon DEF Files!Command, Files!Commands
  <2>5. QED
    BY <2>4, Zenon
<1>4. \A e \in Files!Events : h[e] \in Entries
  BY DEF Tables
<1>5. ASSUME NEW k \in {"json", "broken"}, g = [f EXCEPT !.kind = k, !.own = @ + 1, !.tidy = FALSE]
      PROVE  IsText(g) /\ g.kind \in {"json", "broken"}
  <2>1. PICK u \in Nat : u = f.own + 1
    BY <1>1, TextFields
  <2>2. g = [f EXCEPT !.kind = k, !.own = u, !.tidy = FALSE]
    BY <1>5, <2>1
  <2>3. g \in TextsWith(H) /\ g.kind = k
    BY <1>1, <2>2 DEF TextsWith
  <2>4. QED
    BY <1>1, <2>3, TextsAre DEF IsText
<1>6. ASSUME NEW e \in Files!Events,
             g = [f EXCEPT !.kind = "json", !.hooks[e] = Append(@, <<Files!Command("user", "own")>>)]
      PROVE  IsText(g) /\ g.kind \in {"json", "broken"}
  <2>1. PICK t : t = Append(h[e], <<c>>) /\ t \in Entries
    <3>1. PICK X : X = Seq(Files!Commands) /\ <<c>> \in X
      <4>1. <<c>> \in Seq(Files!Commands)
        OBVIOUS
      <4>2. QED
        BY <4>1, Zenon
    <3>2. Append(h[e], <<c>>) \in Seq(X)
      BY <1>4, <3>1 DEF Entries
    <3>3. QED
      BY <3>1, <3>2 DEF Entries
  <2>2. PICK i : i = [h EXCEPT ![e] = t] /\ i \in Tables
    BY <2>1, TableExcept
  <2>3. g = [f EXCEPT !.kind = "json", !.hooks = i]
    BY <1>1, <1>2, <1>3, <1>6, <2>1, <2>2 DEF TextsWith
  <2>4. QED
    BY <2>2, <2>3, TheirTable
<1>7. ASSUME NEW e \in Files!Events, f.hooks[e] # <<>>,
             g = [f EXCEPT !.kind = "json", !.hooks[e][1] = Append(@, Files!Command("user", "own"))]
      PROVE  IsText(g) /\ g.kind \in {"json", "broken"}
  <2>1. PICK X : X = Seq(Files!Commands)
    OBVIOUS
  <2>2. PICK s \in Seq(X) : s = h[e] /\ s # <<>>
    <3>1. h[e] \in Seq(X)
      BY <1>4, <2>1 DEF Entries
    <3>2. QED
      BY <1>2, <1>7, <3>1, Zenon
  <2>3. 1 \in 1 .. Len(s) /\ s[1] \in X
    BY <2>2
  <2>4. PICK x \in X : x = Append(s[1], c)
    <3>1. Append(s[1], c) \in X
      BY <2>1, <2>3
    <3>2. QED
      BY <3>1, Zenon
  <2>5. PICK t : t = [s EXCEPT ![1] = x] /\ t \in Seq(X)
    BY <2>3, ExceptSeq
  <2>6. PICK i : i = [h EXCEPT ![e] = t] /\ i \in Tables
    <3>1. t \in Entries
      BY <2>1, <2>5 DEF Entries
    <3>2. QED
      BY <3>1, TableExcept
  <2>7. g = [f EXCEPT !.kind = "json", !.hooks = i]
    BY <1>1, <1>2, <1>3, <1>7, <2>2, <2>4, <2>5, <2>6 DEF TextsWith
  <2>8. QED
    BY <2>6, <2>7, TheirTable
<1>8. ASSUME g = [f EXCEPT !.kind = "json", !.hooks = [e \in Files!Events |-> Files!StripOurs(@[e])]]
      PROVE  IsText(g) /\ g.kind \in {"json", "broken"}
  <2>1. PICK i : i = [e \in Files!Events |-> Files!StripOurs(h[e])]
    OBVIOUS
  <2>2. i \in Tables
    BY <1>4, <2>1, StripIsTheirs DEF Tables
  <2>3. g = [f EXCEPT !.kind = "json", !.hooks = i]
    BY <1>2, <1>8, <2>1
  <2>4. QED
    BY <2>2, <2>3, TheirTable
<1>9. QED
  BY <1>5, <1>6, <1>7, <1>8 DEF Files!Written

LEMMA EditFiles == ASSUME FilesInv, Files!Edit PROVE FilesInv'
<1>1. FileTypes /\ JobTypes /\ second \in Nat /\ PlansHold /\ SettledRests /\ TextIsKept
  BY DEF FilesInv, FileTypes
<1>2. PICK p \in Files!Paths :
        /\ \E f \in Files!Written(files[p]) :
              files' = [files EXCEPT ![p] = f] /\ wanted' = [wanted EXCEPT ![p] = Files!Users(f)]
        /\ since' = [since EXCEPT ![p] = 0]
        /\ overtaken' = IF job.phase \in {"asked", "backup", "replace"}
                              /\ \E i \in DOMAIN job.plans : job.plans[i].path = p
                           THEN overtaken \cup {p} ELSE overtaken \ {p}
        /\ hasty' = IF job.phase = "replace" /\ Files!Target = p THEN hasty \cup {p} ELSE hasty \ {p}
        /\ settled' = [k \in DOMAIN settled |->
                          IF k = "notify" \/ (k = "hooks") = (p = "hooks") THEN "none" ELSE settled[k]]
  BY DEF Files!Edit
<1>3. PICK f \in Files!Written(files[p]) :
        files' = [files EXCEPT ![p] = f] /\ wanted' = [wanted EXCEPT ![p] = Files!Users(f)]
  BY <1>2
<1>4. IsText(f) /\ f.kind \in {"json", "broken"}
  BY <1>1, WrittenIsText DEF FileTypes
<1>5. /\ files'[p] = f /\ wanted'[p] = Files!Users(f)
      /\ \A r \in Files!Paths : r # p => files'[r] = files[r] /\ wanted'[r] = wanted[r]
  BY <1>1, <1>3 DEF FileTypes
<1>6. \A r \in Files!Paths : r # p =>
         since'[r] = since[r] /\ (r \in overtaken' <=> r \in overtaken) /\ (r \in hasty => r \in hasty')
  BY <1>1, <1>2 DEF FileTypes
<1>7. /\ UNCHANGED <<agent, version, backups, second>> /\ job' = [job EXCEPT !.untouched = FALSE]
  BY DEF Files!Edit
<1>8. JobTypes' /\ UNCHANGED <<job.phase, job.step, job.action, job.plans>> /\ job'.untouched = FALSE
  BY <1>1, <1>7 DEF JobTypes
<1>9. \A k \in JobSteps : settled'[k] # "none" => settled'[k] = settled[k] /\ p \notin PathsOf(k)
  BY <1>1, <1>2 DEF FileTypes, JobSteps, PathsOf, Files!Paths
<1>10. settled' \in [JobSteps -> Actions \cup {"none"}]
  BY <1>1, <1>2 DEF FileTypes
<1>11. TextIsKept'
  <2> SUFFICES ASSUME NEW r \in Files!Paths PROVE (Files!Users(files[r]) = wanted[r] \/ Saved(r))'
    BY DEF TextIsKept
  <2>1. CASE r = p
    BY <1>5, <2>1
  <2>2. CASE r # p
    <3>1. Files!Users(files[r]) = wanted[r] \/ Saved(r)
      BY <1>1 DEF TextIsKept
    <3>2. QED
      BY <1>5, <1>6, <1>7, <2>2, <3>1 DEF Saved, HasIt, Newer
  <2>3. QED
    BY <2>1, <2>2
<1>12. SettledRests'
  <2>1. ASSUME NEW k \in JobSteps, NEW r \in PathsOf(k), NEW a, NEW g, a = settled'[k], g = files'[r]
        PROVE  SettledOn(k, a, r, g)
    <3> SUFFICES ASSUME a # "none" PROVE Rests(k, a, r, g)
      BY DEF SettledOn
    <3>1. a = settled[k] /\ r # p /\ r \in Files!Paths
      BY <1>9, <2>1 DEF PathsOf, Files!Paths
    <3>2. g = files[r]
      BY <1>5, <2>1, <3>1
    <3>3. QED
      BY <1>1, <3>1, <3>2 DEF SettledRests
  <2>2. QED
    BY <1>7, <2>1, SettledThen
<1>13. \A r : ~(r = p /\ Trusted(r)')
  <2> SUFFICES ASSUME Trusted(p)' PROVE FALSE
    OBVIOUS
  <2>1. PICK k \in JobSteps : settled'[k] # "none" /\ p \in PathsOf(k)'
    BY <1>8 DEF Trusted
  <2>2. PathsOf(k)' = PathsOf(k)
    BY <1>7 DEF PathsOf
  <2>3. QED
    BY <1>9, <2>1, <2>2
<1>14. ASSUME NEW r, r # p, Trusted(r)' PROVE Trusted(r)
  <2>1. PICK k \in JobSteps : k # job.step /\ settled'[k] # "none" /\ r \in PathsOf(k)'
    BY <1>8, <1>14 DEF Trusted
  <2>2. PathsOf(k)' = PathsOf(k)
    BY <1>7 DEF PathsOf
  <2>3. QED
    BY <1>9, <2>1, <2>2 DEF Trusted
<1>15. PlansHold'
  <2> SUFFICES ASSUME Waiting PROVE PlansHold'
    BY <1>8, NotWaiting DEF Waiting
  <2>1. PICK q : PlanHolds(q) /\ (OnlyPlan(q) \/ FirstPlan(q)) /\ (job.phase = "replace" => SafeToWrite(q))
    BY <1>1 DEF PlansHold
  <2>2. ASSUME NEW r, PlanHolds(r), \E i \in DOMAIN job.plans : job.plans[i] = r PROVE PlanHolds(r)'
    <3>1. r.path \in Files!Paths
      BY <2>2 DEF PlanHolds, PathsOf, Files!Paths
    <3>2. CASE r.path # p
      <4>1. Trusted(r.path)' => Trusted(r.path)
        <5>1. PICK s : s = r.path
          OBVIOUS
        <5>2. QED
          BY <1>14, <3>2, <5>1
      <4>2. QED
        BY <1>5, <1>6, <1>7, <1>8, <2>2, <3>1, <3>2, <4>1, PlanStays
    <3>3. CASE r.path = p
      <4>1. p \in overtaken'
        BY <1>2, <2>2, <3>3 DEF Waiting
      <4>2. ~Trusted(r.path)'
        BY <1>13, <3>3
      <4>3. (r.path \in PathsOf(job.step))' /\ (IsText(r.after) /\ r.after.kind = "json")'
        BY <1>7, <1>8, <2>2 DEF PlanHolds, PathsOf, IsText
      <4>4. Rests(job.step, job.action, r.path, r.after)'
        BY <1>7, <1>8, <2>2 DEF PlanHolds, Rests, Change, Files!Flagged
      <4>5. QED
        BY <3>3, <4>1, <4>2, <4>3, <4>4 DEF PlanHolds
    <3>4. QED
      BY <3>2, <3>3
  <2>3. PlanHolds(q)'
    BY <2>1, <2>2, TargetIs
  <2>4. OnlyPlan(q) => OnlyPlan(q)'
    BY <1>8 DEF OnlyPlan
  <2>5. FirstPlan(q) => FirstPlan(q)'
    <3> SUFFICES ASSUME FirstPlan(q) PROVE FirstPlan(q)'
      OBVIOUS
    <3>1. PICK r : job.plans = <<q, r>> /\ PlanHolds(r) /\ r.path = "hooks" /\ job.step = "notify" /\ q.path = "servers"
      BY DEF FirstPlan
    <3>2. \E i \in DOMAIN job.plans : job.plans[i] = r
      BY <3>1
    <3>3. PlanHolds(r)'
      BY <2>2, <3>1, <3>2
    <3>4. QED
      BY <1>8, <3>1, <3>3 DEF FirstPlan
  <2>6. job.phase = "replace" => SafeToWrite(q)'
    <3> SUFFICES ASSUME job.phase = "replace" PROVE SafeToWrite(q)'
      OBVIOUS
    <3>1. q.path \in Files!Paths /\ Files!Target = q.path /\ \E i \in DOMAIN job.plans : job.plans[i].path = q.path
      BY <2>1, TargetIs DEF PlanHolds, PathsOf, Files!Paths
    <3>2. CASE q.path = p
      <4>1. p \in overtaken' /\ p \in hasty'
        BY <1>2, <3>1, <3>2
      <4>2. QED
        BY <3>2, <4>1 DEF SafeToWrite, Saved
    <3>3. CASE q.path # p
      <4>1. Files!Users(q.after) = Files!Users(files[q.path]) => (Files!Users(q.after) = Files!Users(files[q.path]))'
        BY <1>5, <3>1, <3>3
      <4>2. Saved(q.path) => Saved(q.path)'
        BY <1>5, <1>6, <1>7, <3>1, <3>3 DEF Saved, HasIt, Newer
      <4>3. QED
        BY <2>1, <4>1, <4>2 DEF SafeToWrite
    <3>4. QED
      BY <3>2, <3>3
  <2>7. QED
    BY <1>8, <2>1, <2>3, <2>4, <2>5, <2>6 DEF PlansHold
<1>16. FileTypes'
  <2>1. \A r \in Files!Paths : IsText(files[r])'
    <3>1. \A r \in Files!Paths : IsText(files'[r])
      BY <1>1, <1>4, <1>5 DEF FileTypes
    <3>2. QED
      BY <3>1 DEF IsText
  <2>2. files' = [r \in Files!Paths |-> files'[r]] /\ wanted' = [r \in Files!Paths |-> wanted'[r]]
    BY <1>1, <1>3 DEF FileTypes
  <2>3. since' \in [Files!Paths -> Nat]
    BY <1>1, <1>2 DEF FileTypes
  <2>4. overtaken' \subseteq Files!Paths /\ \A r \in overtaken' : files'[r].kind # "absent"
    BY <1>1, <1>2, <1>4, <1>5, <1>6 DEF FileTypes
  <2>5. QED
    BY <1>1, <1>7, <1>8, <1>10, <2>1, <2>2, <2>3, <2>4 DEF FileTypes
<1>17. QED
  BY <1>11, <1>12, <1>15, <1>16 DEF FilesInv

LEMMA FilesNext == ASSUME Files!FilesAssumption, FilesInv, Files!Next PROVE FilesInv'
<1>1. ASSUME Files!Run PROVE FilesInv'
  BY <1>1, RunFiles
<1>2. ASSUME Files!MakePlans PROVE FilesInv'
  BY <1>2, MakeFiles
<1>3. ASSUME Files!Answer PROVE FilesInv'
  BY <1>3, AnswerFiles
<1>4. ASSUME Files!Killed PROVE FilesInv'
  BY <1>4, KilledFiles
<1>5. ASSUME Files!Backup PROVE FilesInv'
  BY <1>5, BackupFiles
<1>6. ASSUME Files!Replace PROVE FilesInv'
  BY <1>6, ReplaceFiles
<1>7. ASSUME Files!Edit PROVE FilesInv'
  BY <1>7, EditFiles
<1>8. ASSUME Files!Tick PROVE FilesInv'
  BY <1>8, TickFiles
<1>9. ASSUME Files!ReadFails PROVE FilesInv'
  BY <1>9, FailsFiles
<1>10. QED
  BY <1>1, <1>2, <1>3, <1>4, <1>5, <1>6, <1>7, <1>8, <1>9 DEF Files!Next

LEMMA FilesStay == ASSUME FilesInv, UNCHANGED fileVars PROVE FilesInv'
<1>1. JobTypes /\ PlansHold /\ second \in Nat
  BY DEF FilesInv, FileTypes
<1>2. JobTypes' /\ UNCHANGED <<job.phase, job.step, job.action, job.plans, job.untouched>>
  BY <1>1 DEF JobTypes, fileVars
<1>3. UNCHANGED <<agent, version, files, backups, second, wanted, since, overtaken, hasty, settled>>
  BY DEF fileVars
<1>4. PlansHold'
  <2>1. CASE Waiting
    <3>1. \A q : SafeToWrite(q) => SafeToWrite(q)'
      BY <1>3 DEF SafeToWrite, Saved, HasIt, Newer
    <3>2. QED
      BY <1>1, <1>2, <1>3, <2>1, <3>1, PlansStay
  <2>2. CASE ~Waiting
    BY <1>2, <2>2, NotWaiting DEF Waiting
  <2>3. QED
    BY <2>1, <2>2
<1>5. QED
  BY <1>1, <1>2, <1>3, <1>4, NothingWritten

--------------------------------------------------------------------------------
(* The installation.                                                               *)

LEMMA FilesHold == Spec => [](part = "files" => FilesInv)
<1> USE PartsAssumption DEF PartsAssumption
<1>1. Init => (part = "files" => FilesInv)
  BY FilesBegin DEF Init
<1>2. ASSUME part = "files" => FilesInv, [Next]_installVars PROVE (part = "files" => FilesInv)'
  <2> SUFFICES ASSUME part' = "files" PROVE FilesInv'
    OBVIOUS
  <2>1. part' = part
    BY <1>2 DEF Next, FileSteps, HookSteps, RunSteps, UpdateSteps, CallSteps, Rest, installVars
  <2>2. Files!Next \/ UNCHANGED fileVars
    BY <1>2, <2>1 DEF Next, FileSteps, HookSteps, RunSteps, UpdateSteps, CallSteps, installVars
  <2>3. QED
    BY <1>2, <2>1, <2>2, FilesNext, FilesStay
<1>3. QED
  BY <1>1, <1>2, PTL DEF Spec

LEMMA RunHolds == Spec => [](part = "running" => RunInv)
<1> USE PartsAssumption DEF PartsAssumption
<1>1. Init => (part = "running" => RunInv)
  BY RunBegins DEF Init
<1>2. ASSUME part = "running" => RunInv, [Next]_installVars PROVE (part = "running" => RunInv)'
  <2> SUFFICES ASSUME part' = "running" PROVE RunInv'
    OBVIOUS
  <2>1. part' = part
    BY <1>2 DEF Next, FileSteps, HookSteps, RunSteps, UpdateSteps, CallSteps, Rest, installVars
  <2>2. Running!Next \/ UNCHANGED instanceVars
    BY <1>2, <2>1 DEF Next, FileSteps, HookSteps, RunSteps, UpdateSteps, CallSteps, installVars
  <2>3. QED
    BY <1>2, <2>1, <2>2, RunNext, RunStays
<1>3. QED
  BY <1>1, <1>2, PTL DEF Spec

LEMMA UpdHolds == ASSUME OldestFirst PROVE Spec => [](part = "updating" => UpdInv)
<1> USE PartsAssumption DEF PartsAssumption
<1>1. Init => (part = "updating" => UpdInv)
  BY UpdBegins DEF Init
<1>2. ASSUME part = "updating" => UpdInv, [Next]_installVars PROVE (part = "updating" => UpdInv)'
  <2> SUFFICES ASSUME part' = "updating" PROVE UpdInv'
    OBVIOUS
  <2>1. part' = part
    BY <1>2 DEF Next, FileSteps, HookSteps, RunSteps, UpdateSteps, CallSteps, Rest, installVars
  <2>2. Updating!Next \/ UNCHANGED updateVars
    BY <1>2, <2>1 DEF Next, FileSteps, HookSteps, RunSteps, UpdateSteps, CallSteps, installVars
  <2>3. QED
    BY <1>2, <2>1, <2>2, UpdNext, UpdStays
<1>3. QED
  BY <1>1, <1>2, PTL DEF Spec

LEMMA HooksHold == Spec => [](part = "hooks" => HooksInv)
<1> USE PartsAssumption DEF PartsAssumption
<1>1. Init => (part = "hooks" => HooksInv)
  BY HooksBegin DEF Init
<1>2. ASSUME part = "hooks" => HooksInv, [Next]_installVars PROVE (part = "hooks" => HooksInv)'
  <2> SUFFICES ASSUME part' = "hooks" PROVE HooksInv'
    OBVIOUS
  <2>1. part' = part
    BY <1>2 DEF Next, FileSteps, HookSteps, RunSteps, UpdateSteps, CallSteps, Rest, installVars
  <2>2. Hooks!Next \/ UNCHANGED setupVars
    BY <1>2, <2>1 DEF Next, FileSteps, HookSteps, RunSteps, UpdateSteps, CallSteps, installVars
  <2>3. QED
    BY <1>2, <2>1, <2>2, HooksNext, HooksStay
<1>3. QED
  BY <1>1, <1>2, PTL DEF Spec

LEMMA IngressAlwaysHolds == Spec => []IngressHolds
<1> USE PartsAssumption DEF PartsAssumption, IngressHolds
<1>1. Init => IngressHolds
  BY IngressBegins DEF Init
<1>2. ASSUME IngressHolds, [Next]_installVars PROVE IngressHolds'
  <2> SUFFICES ASSUME part' = "ingress"
               PROVE  os' \in {"posix", "windows"} /\ (Ingress!Scrapable => IngressInv)'
    OBVIOUS
  <2>1. part' = part
    BY <1>2 DEF Next, FileSteps, HookSteps, RunSteps, UpdateSteps, CallSteps, Rest, installVars
  <2>2. Ingress!Next \/ UNCHANGED ingressVars
    BY <1>2, <2>1 DEF Next, FileSteps, HookSteps, RunSteps, UpdateSteps, CallSteps, installVars
  <2>3. QED
    BY <1>2, <2>1, <2>2, IngressNext, IngressStays
<1>3. QED
  BY <1>1, <1>2, PTL DEF Spec

\* What the user and the agent last wrote to a file they share with TintaView is in it,
\* whatever is planned, shown, answered or killed meanwhile; or they wrote it while a plan
\* for the file waited, and it is in a backup, unless they did in the instant before the
\* rename, two backups were taken in one second, or KEEP_BACKUPS newer ones were, or Codex's
\* config.toml could not be read when its flag was planned (then it is replaced).  And what
\* install and uninstall wrote, and nobody edited since, status, mcp.status and the plans
\* take for what it is, whatever the other steps wrote to the same file (plan_install,
\* plan_uninstall, apply, _prune_backups, status, codex_flag.plan).  For any bindings, any
\* texts of the files, and any number of edits, commands, backups and seconds.
THEOREM FilesAreAlwaysKept == Spec => []FilesAreKept
<1>1. (part = "files" => FilesInv) => FilesAreKept
  BY PartsAssumption, FilesSuffice DEF PartsAssumption, FilesAreKept
<1>2. QED
  BY <1>1, FilesHold, PTL

\* Whatever is running, crashes, is launched or quit, the restart at the end of the wizard
\* lets nobody serve with older settings than it saved, except a process that had read them
\* before and took the port after, and the one that answered too late to be found, that
\* Windows called gone, or that may not be ended; and whatever is uploaded or withdrawn,
\* only a verified script of a newer release runs, and success is told of nothing less
\* (restart_if_running, run_update).  The list of releases is in compare_versions' order.
THEOREM RightOneAlwaysRuns == ASSUME OldestFirst PROVE Spec => []RightOneRuns
<1>1. (part = "running" => RunInv) /\ (part = "updating" => UpdInv) => RightOneRuns
  BY PartsAssumption, RunSuffices, UpdSuffices DEF PartsAssumption, RightOneRuns
<1>2. QED
  BY <1>1, RunHolds, UpdHolds, PTL

\* A wizard or `tintaview hooks install` that ended without a complaint leaves nothing for
\* doctor's HOOK SCRIPT to fault, nor for its AGENT HOOKS where both look in one place (the
\* first distro, or a native machine's default home, and no older `tintaview` inside); the
\* wizard that planned Codex's flag itself leaves it as doctor asks for it, if Codex has one
\* version; the prompt names the agents whose hooks doctor faults, no hook calls a script
\* that is not there, and a started tray leaves no outdated script (hook_status,
\* _check_agent_hooks, refresh_if_outdated); and of an agent whose hooks were heard the
\* session map says whether it works, waits or is gone, whatever its hook script gave up
\* on and whatever order the daemon's threads took (tv-hook.sh, _Handler, handle_event).
\* For any agents, ports, number of changes from outside and of hooks.
THEOREM SetupAlwaysAgrees == Spec => []SetupAgrees
<1>1. (part = "hooks" => HooksInv) =>
      (part = "hooks" => /\ Hooks!SetupAgrees /\ Hooks!PromptAgrees
                         /\ Hooks!HooksHaveTheirScript /\ Hooks!RefreshedScripts)
  BY PartsAssumption, HooksSuffice DEF PartsAssumption
<1>2. IngressHolds => (part = "ingress" => Ingress!StatusIsTold)
  BY IngressSuffices DEF IngressHolds
<1>3. (part = "hooks" => HooksInv) /\ IngressHolds => SetupAgrees
  BY <1>1, <1>2 DEF SetupAgrees
<1>4. QED
  BY <1>3, HooksHold, IngressAlwaysHolds, PTL
================================================================================
