------------------------- MODULE LightControllerProofs -------------------------
(* Proofs about LightController for every set of steady statuses, with and        *)
(* without detection, and for any number of calls.                                *)
EXTENDS LightController, FiniteSetTheorems, TLAPS

\* The image of a finite set is finite: every value is hit from it.
LEMMA ImageIsFinite ==
    ASSUME NEW S, IsFiniteSet(S), NEW T, NEW f \in [S -> T],
           \A y \in T : \E x \in S : f[x] = y
    PROVE  IsFiniteSet(T)
<1>1. f \in Surjection(S, T)
  BY DEF Surjection
<1> QED
  BY <1>1, FS_Surjection

\* A new number is new: among Cardinality(S) + 1 numbers one is outside S.
LEMMA UnusedIsNew ==
    ASSUME NEW S, IsFiniteSet(S)
    PROVE  Unused(S) \in Nat \ {0} /\ Unused(S) \notin S
<1> DEFINE c == Cardinality(S)
           I == 1 .. c + 1
<1>1. c \in Nat
  BY FS_CardinalityType
<1>2. IsFiniteSet(I) /\ Cardinality(I) = c + 1
  <2> HIDE DEF c
  <2> QED  BY <1>1, FS_Interval
<1>3. \E n \in I : n \notin S
  <2> SUFFICES ASSUME I \in SUBSET S PROVE FALSE
    OBVIOUS
  <2>1. Cardinality(I) <= c
    BY FS_Subset
  <2> HIDE DEF c, I
  <2> QED  BY <1>1, <1>2, <2>1
<1>4. Unused(S) \in I /\ Unused(S) \notin S
  BY <1>3 DEF Unused
<1> HIDE DEF c
<1> QED
  BY <1>1, <1>4

--------------------------------------------------------------------------------
(* The device *)

\* A device is sound if its parts have their types and only the cached engine, and only a
\* real one, has a session; the engine the heartbeat took is still known.
Sound(d) ==
    /\ d = [engine |-> d.engine, made |-> d.made, granted |-> d.granted, colour |-> d.colour]
    /\ d.made \in [DOMAIN d.made -> [name : {"none", "chroma"}, uri : Nat]]
    /\ DOMAIN d.made \subseteq Nat \ {0} /\ IsFiniteSet(DOMAIN d.made)
    /\ d.granted \subseteq Nat \ {0} /\ IsFiniteSet(d.granted)
    /\ d.colour \in Colours
    /\ {d.engine, beat.engine} \subseteq DOMAIN d.made \cup {0}
    /\ \A i \in DOMAIN d.made : d.made[i].uri # 0 => i = d.engine /\ d.made[i].name = "chroma"

Silent(d) == \A i \in DOMAIN d.made : d.made[i].uri = 0

\* The two fields that change together when the cached engine changes.
LEMMA NewEngine ==
    ASSUME NEW d, Sound(d), NEW made, NEW engine,
           NEW e, e = [d EXCEPT !.made = made, !.engine = engine]
    PROVE  e = [engine |-> engine, made |-> made, granted |-> d.granted, colour |-> d.colour]
BY DEF Sound

\* Another engine takes over only where none has a session.
LEMMA SwitchedOK ==
    ASSUME NEW d, Sound(d), Silent(d), NEW name \in {"none", "chroma"}
    PROVE  LET e == Switched(d, name)
           IN  Sound(e) /\ Silent(e) /\ e.engine # 0 /\ e.granted = d.granted
<1> DEFINE new == Unused(Kept(d))
           made == [i \in Kept(d) \cup {new} |->
                      IF i = new THEN [name |-> name, uri |-> 0] ELSE d.made[i]]
           e == Switched(d, name)
<1>1. Kept(d) \subseteq DOMAIN d.made /\ IsFiniteSet(Kept(d))
  <2>1. Kept(d) \in SUBSET DOMAIN d.made
    BY DEF Kept
  <2> QED
    BY <2>1, FS_Subset DEF Sound
<1>2. new \in Nat \ {0}
  BY <1>1, UnusedIsNew
<1>3. IsFiniteSet(Kept(d) \cup {new})
  BY <1>1, FS_AddElement
<1>4. e = [engine |-> new, granted |-> d.granted, colour |-> d.colour, made |-> made]
  <2>1. e = [d EXCEPT !.made = made, !.engine = new]
    BY DEF Switched
  <2> HIDE DEF made, new, e
  <2> QED  BY <2>1, NewEngine
<1>5. beat.engine \in Kept(d) \cup {0}
  BY DEF Sound, Kept
<1> HIDE DEF new, e
<1>6. Silent(e)
  BY <1>1, <1>4 DEF Silent, Sound
<1>7. e.made \in [DOMAIN e.made -> [name : {"none", "chroma"}, uri : Nat]]
  BY <1>1, <1>4 DEF Sound
<1>8. Sound(e)
  BY <1>1, <1>2, <1>3, <1>4, <1>5, <1>6, <1>7 DEF Sound, Silent
<1> QED
  BY <1>2, <1>4, <1>6, <1>8 DEF e

\* _get_engine leaves an engine, and the device as it was or without any session.
LEMMA GetEngineOK ==
    ASSUME NEW d, Sound(d), NEW e \in GetEngine(d)
    PROVE  Sound(e) /\ e.engine # 0 /\ (e = d \/ Silent(e)) /\ e.granted = d.granted
<1>1. CASE d.engine = 0
  <2>1. Silent(d)
    BY <1>1 DEF Sound, Silent
  <2>2. PICK name \in {"none", "chroma"} : e = Switched(d, name)
    BY <1>1 DEF GetEngine
  <2> QED
    BY <2>1, <2>2, SwitchedOK
<1>2. CASE d.engine # 0 /\ e # d
  <2>1. e = Switched(d, "chroma") /\ Engine(d).name = "none"
    BY <1>2 DEF GetEngine
  <2>2. Silent(d)
    BY <2>1 DEF Sound, Silent, Engine
  <2> QED
    BY <2>1, <2>2, SwitchedOK
<1>3. CASE d.engine # 0 /\ e = d
  BY <1>3
<1> QED
  BY <1>1, <1>2, <1>3

\* Opening gives a session to the cached engine at most.
LEMMA OpenedOK ==
    ASSUME NEW d, Sound(d), d.engine # 0, beat.uri \in Nat, NEW e \in Opened(d)
    PROVE  Sound(e) /\ e.engine # 0
<1>1. CASE e = d
  BY <1>1
<1>2. CASE e # d
  <2> DEFINE uris == {d.made[i].uri : i \in DOMAIN d.made}
             s == Unused(d.granted \cup uris \cup {beat.uri})
  <2>1. e = [d EXCEPT !.made[d.engine].uri = s, !.granted = @ \cup {s}] /\ Engine(d).name # "none"
    BY <1>2 DEF Opened
  <2>2. IsFiniteSet(uris)
    <3> DEFINE f == [i \in DOMAIN d.made |-> d.made[i].uri]
    <3>1. f \in [DOMAIN d.made -> uris] /\ \A y \in uris : \E i \in DOMAIN d.made : f[i] = y
      OBVIOUS
    <3>2. IsFiniteSet(DOMAIN d.made)
      BY DEF Sound
    <3> HIDE DEF f, uris
    <3> QED  BY <3>1, <3>2, ImageIsFinite
  <2>3. IsFiniteSet(d.granted \cup uris \cup {beat.uri})
    <3> HIDE DEF uris
    <3>1. IsFiniteSet(d.granted \cup uris)
      BY <2>2, FS_Union DEF Sound
    <3> QED  BY <3>1, FS_AddElement
  <2>4. s \in Nat \ {0}
    BY <2>3, UnusedIsNew
  <2> HIDE DEF s, uris
  <2>5. d.engine \in DOMAIN d.made
    BY DEF Sound
  <2>6. IsFiniteSet(d.granted \cup {s})
    BY FS_AddElement DEF Sound
  <2>7. e = [engine |-> d.engine, made |-> [d.made EXCEPT ![d.engine].uri = s],
             granted |-> d.granted \cup {s}, colour |-> d.colour]
    BY <2>1 DEF Sound
  <2>8. e.made \in [DOMAIN d.made -> [name : {"none", "chroma"}, uri : Nat]]
    BY <2>4, <2>5, <2>7 DEF Sound
  <2>9. \A i \in DOMAIN e.made : e.made[i].uri # 0 => i = e.engine /\ e.made[i].name = "chroma"
    <3>1. d.made[d.engine].name = "chroma"
      BY <2>1, <2>5 DEF Engine, Sound
    <3>2. \A i \in DOMAIN d.made : i # d.engine => e.made[i] = d.made[i]
      BY <2>7
    <3>3. e.made[d.engine].name = d.made[d.engine].name
      BY <2>5, <2>7 DEF Sound
    <3>4. DOMAIN e.made = DOMAIN d.made /\ e.engine = d.engine
      BY <2>7
    <3> QED
      BY <3>1, <3>2, <3>3, <3>4 DEF Sound
  <2>10. DOMAIN e.made = DOMAIN d.made /\ e.engine = d.engine
    BY <2>7
  <2> QED
    BY <2>4, <2>6, <2>7, <2>8, <2>9, <2>10 DEF Sound
<1> QED
  BY <1>1, <1>2

\* Closing leaves no session anywhere.
LEMMA ClosedOK ==
    ASSUME NEW d, Sound(d)
    PROVE  Sound(Closed(d)) /\ Silent(Closed(d))
<1>1. CASE ~HasSession(d)
  BY <1>1 DEF Closed, HasSession, Silent, Sound, Engine
<1>2. CASE HasSession(d)
  <2> DEFINE left == d.granted \ {Engine(d).uri}
             e == Closed(d)
  <2>1. d.engine \in DOMAIN d.made
    BY <1>2 DEF HasSession, Sound
  <2>2. IsFiniteSet(left)
    BY FS_RemoveElement DEF Sound
  <2>3. e = [engine |-> d.engine, made |-> [d.made EXCEPT ![d.engine].uri = 0],
             granted |-> left, colour |-> IF left = {} THEN "own" ELSE d.colour]
    BY <1>2 DEF Closed, Sound
  <2> HIDE DEF e
  <2>4. e.made \in [DOMAIN d.made -> [name : {"none", "chroma"}, uri : Nat]]
    BY <2>1, <2>3 DEF Sound
  <2>5. Silent(e)
    BY <2>1, <2>3 DEF Sound, Silent
  <2>6. Sound(e)
    BY <2>1, <2>2, <2>3, <2>4, <2>5 DEF Sound, Colours, Silent
  <2> QED
    BY <2>5, <2>6 DEF e
<1> QED
  BY <1>1, <1>2

\* Dropping a closed engine.
LEMMA DroppedOK ==
    ASSUME NEW d, Sound(d), Silent(d)
    PROVE  Sound(Dropped(d)) /\ Silent(Dropped(d)) /\ ~Live(Dropped(d))
<1>1. Kept(d) \subseteq DOMAIN d.made /\ IsFiniteSet(Kept(d))
  <2>1. Kept(d) \in SUBSET DOMAIN d.made
    BY DEF Kept
  <2> QED
    BY <2>1, FS_Subset DEF Sound
<1>2. Dropped(d) = [engine |-> 0, made |-> [i \in Kept(d) |-> d.made[i]],
                    granted |-> d.granted, colour |-> d.colour]
  BY NewEngine DEF Dropped
<1>3. beat.engine \in Kept(d) \cup {0}
  BY DEF Sound, Kept
<1>4. Silent(Dropped(d))
  BY <1>1, <1>2 DEF Silent
<1>5. Dropped(d).made \in [DOMAIN Dropped(d).made -> [name : {"none", "chroma"}, uri : Nat]]
  BY <1>1, <1>2 DEF Sound
<1> QED
  BY <1>1, <1>2, <1>3, <1>4, <1>5 DEF Sound, Silent, Live, HasSession

\* Painting changes the colour of a live session, or drops a dead one.
LEMMA PaintedOK ==
    ASSUME NEW d, Sound(d), NEW c \in Colours, NEW e \in Painted(d, c)
    PROVE  Sound(e) /\ (Live(e) => e.colour = c) /\ e.engine = d.engine
<1>1. CASE Live(d)
  <2>1. e = [engine |-> d.engine, made |-> d.made, granted |-> d.granted, colour |-> c]
    BY <1>1 DEF Painted, Sound
  <2> QED
    BY <2>1 DEF Sound
<1>2. CASE ~Live(d) /\ e = d
  BY <1>2
<1>3. CASE ~Live(d) /\ e # d
  <2>1. HasSession(d) /\ e = [d EXCEPT !.made[d.engine].uri = 0]
    BY <1>3 DEF Painted
  <2>2. e = [engine |-> d.engine, made |-> [d.made EXCEPT ![d.engine].uri = 0],
             granted |-> d.granted, colour |-> d.colour]
    BY <2>1 DEF Sound
  <2>3. d.engine \in DOMAIN d.made
    BY <2>1 DEF HasSession, Sound
  <2>4. e.made \in [DOMAIN d.made -> [name : {"none", "chroma"}, uri : Nat]]
    BY <2>2, <2>3 DEF Sound
  <2>5. Sound(e)
    BY <2>2, <2>3, <2>4 DEF Sound
  <2> QED
    BY <2>2, <2>3, <2>5 DEF Live, HasSession, Engine, Sound
<1> QED
  BY <1>1, <1>2, <1>3

--------------------------------------------------------------------------------
(* The blink *)

\* A blink is sound if its parts have their types and the threads agree with the flag: one
\* thread, of the current generation, is not told to stop while it is set, and none else.
Blinks(b) ==
    /\ b = [blinking |-> b.blinking, generation |-> b.generation, threads |-> b.threads]
    /\ b.blinking \in BOOLEAN /\ b.generation \in Nat
    /\ b.threads \subseteq [gen : Nat \ {0}, stopped : BOOLEAN, on : BOOLEAN, awake : BOOLEAN]
    /\ IsFiniteSet(b.threads)
    /\ ~b.blinking => \A t \in b.threads : t.stopped
    /\ b.blinking => \E t \in b.threads : /\ ~t.stopped /\ t.gen = b.generation
                                          /\ \A u \in b.threads \ {t} : u.stopped

\* The next generation is a number no thread has.
LEMMA NextGenerationOK ==
    ASSUME NEW b, Blinks(b)
    PROVE  NextGeneration(b) \in Nat \ {0}
<1> DEFINE gens == {t.gen : t \in b.threads}
           f == [t \in b.threads |-> t.gen]
<1>1. f \in [b.threads -> gens] /\ \A y \in gens : \E t \in b.threads : f[t] = y
  OBVIOUS
<1>2. IsFiniteSet(b.threads)
  BY DEF Blinks
<1>3. IsFiniteSet(gens)
  <2> HIDE DEF f, gens
  <2> QED  BY <1>1, <1>2, ImageIsFinite
<1>4. IsFiniteSet(gens \cup {b.generation})
  <2> HIDE DEF gens
  <2> QED  BY <1>3, FS_AddElement
<1> QED
  BY <1>4, UnusedIsNew DEF NextGeneration

\* Starting leaves one blink, whether or not one ran.
LEMMA StartBlinkOK ==
    ASSUME NEW b, Blinks(b)
    PROVE  Blinks(StartBlink(b))
<1>1. CASE b.blinking
  BY <1>1 DEF StartBlink
<1>2. CASE ~b.blinking
  <2> DEFINE g == NextGeneration(b)
             new == [gen |-> g, stopped |-> FALSE, on |-> FALSE, awake |-> FALSE]
             e == StartBlink(b)
  <2>1. e = [blinking |-> TRUE, generation |-> g, threads |-> b.threads \cup {new}]
    BY <1>2 DEF StartBlink
  <2>2. g \in Nat \ {0}
    BY NextGenerationOK
  <2>3. IsFiniteSet(b.threads \cup {new})
    BY FS_AddElement DEF Blinks
  <2>4. \A t \in b.threads : t.stopped
    BY <1>2 DEF Blinks
  <2>5. new \in [gen : Nat \ {0}, stopped : BOOLEAN, on : BOOLEAN, awake : BOOLEAN]
    BY <2>2
  <2>6. ~new.stopped /\ new.gen = g
    OBVIOUS
  <2> HIDE DEF g, new, e
  <2>7. \E t \in e.threads : /\ ~t.stopped /\ t.gen = e.generation
                             /\ \A u \in e.threads \ {t} : u.stopped
    BY <2>1, <2>4, <2>6
  <2>8. Blinks(e)
    BY <2>1, <2>2, <2>3, <2>5, <2>7 DEF Blinks
  <2> QED
    BY <2>8 DEF e
<1> QED
  BY <1>1, <1>2

\* Stopping leaves none.
LEMMA StopBlinkOK ==
    ASSUME NEW b, Blinks(b)
    PROVE  Blinks(StopBlink(b)) /\ ~StopBlink(b).blinking
<1> DEFINE g == NextGeneration(b)
           told == {[t EXCEPT !.stopped = TRUE] : t \in b.threads}
           f == [t \in b.threads |-> [t EXCEPT !.stopped = TRUE]]
           e == StopBlink(b)
<1>1. e = [blinking |-> FALSE, generation |-> g, threads |-> told]
  <2>1. e = [b EXCEPT !.blinking = FALSE, !.generation = g, !.threads = told]
    BY DEF StopBlink
  <2> HIDE DEF g, told, e
  <2> QED  BY <2>1 DEF Blinks
<1>2. g \in Nat \ {0}
  BY NextGenerationOK
<1>3. f \in [b.threads -> told] /\ \A y \in told : \E t \in b.threads : f[t] = y
  OBVIOUS
<1>4. IsFiniteSet(told)
  <2>1. IsFiniteSet(b.threads)
    BY DEF Blinks
  <2> HIDE DEF f, told
  <2> QED  BY <1>3, <2>1, ImageIsFinite
<1>5. told \subseteq [gen : Nat \ {0}, stopped : BOOLEAN, on : BOOLEAN, awake : BOOLEAN]
  BY DEF Blinks
<1>6. \A t \in told : t.stopped
  BY DEF Blinks
<1> HIDE DEF g, told, e
<1>7. Blinks(e) /\ ~e.blinking
  BY <1>1, <1>2, <1>4, <1>5, <1>6 DEF Blinks
<1> QED
  BY <1>7 DEF e

\* A thread that was not told to stop is the one the flag promises.
LEMMA OnlyOne ==
    ASSUME NEW b, Blinks(b), NEW t \in b.threads, ~t.stopped
    PROVE  /\ b.blinking /\ t.gen = b.generation
           /\ \A u \in b.threads \ {t} : u.stopped
BY DEF Blinks

\* A thread's own step keeps its generation and its Event.
LEMMA TurnedOK ==
    ASSUME NEW b, Blinks(b), NEW t \in b.threads, ~t.stopped,
           NEW n \in [gen : Nat \ {0}, stopped : BOOLEAN, on : BOOLEAN, awake : BOOLEAN],
           n.gen = t.gen, ~n.stopped,
           NEW e, e = [b EXCEPT !.threads = (b.threads \ {t}) \cup {n}]
    PROVE  Blinks(e) /\ e.blinking = b.blinking
<1>1. e = [blinking |-> b.blinking, generation |-> b.generation,
           threads |-> (b.threads \ {t}) \cup {n}]
  BY DEF Blinks
<1>2. IsFiniteSet((b.threads \ {t}) \cup {n})
  BY FS_RemoveElement, FS_AddElement DEF Blinks
<1>3. b.blinking /\ n.gen = b.generation /\ \A u \in b.threads \ {t} : u.stopped
  BY OnlyOne
<1> QED
  BY ZenonT(30), <1>1, <1>2, <1>3 DEF Blinks

\* A thread that was told to stop may end.
LEMMA EndedOK ==
    ASSUME NEW b, Blinks(b), NEW t \in b.threads, t.stopped,
           NEW e, e = [b EXCEPT !.threads = b.threads \ {t}]
    PROVE  Blinks(e) /\ e.blinking = b.blinking
<1>1. e = [blinking |-> b.blinking, generation |-> b.generation, threads |-> b.threads \ {t}]
  BY DEF Blinks
<1>2. IsFiniteSet(b.threads \ {t})
  BY FS_RemoveElement DEF Blinks
<1> QED
  BY <1>1, <1>2 DEF Blinks

--------------------------------------------------------------------------------
(* The invariant, by name *)

\* The threads' places, the switch and /state's copy.
Places ==
    /\ paused \in BOOLEAN /\ down \in BOOLEAN
    /\ {wanted, replay, actual} \subseteq Statuses
    /\ snapshot \in [name : {"none", "chroma"}, active : BOOLEAN, paused : BOOLEAN]
    /\ gui \in {"idle", "release", "replay"} /\ settings \in {"idle", "reapply"}
    /\ beat = [pc |-> beat.pc, engine |-> beat.engine, uri |-> beat.uri]
    /\ beat.pc \in {"waiting", "captured", "sent", "refresh"} /\ beat.uri \in Nat
    /\ beat.pc = "captured" => beat.engine # 0
    /\ calls \in 0 .. MaxCalls

\* What the GUI still has to do follows from the switch; once it is done, or after
\* shutdown, nothing is driven; and only a confirm leaves a blink running.
Order ==
    /\ gui = "release" => paused
    /\ gui = "replay" => ~paused
    /\ down => gui = "idle"
    /\ (paused /\ gui = "idle") \/ down => ~blink.blinking /\ Silent(dev)
    /\ blink.blinking /\ ~paused => wanted = "confirm"

Inv == /\ Sound(dev) /\ Blinks(blink) /\ Places /\ Order
       /\ SnapshotIsTrue /\ SteadyStaysSteady

\* What /state's copy can be of a sound device.
LEMMA StatusOfType ==
    ASSUME NEW d, Sound(d), NEW p \in BOOLEAN
    PROVE  StatusOf(d, p) \in [name : {"none", "chroma"}, active : BOOLEAN, paused : BOOLEAN]
BY DEF Sound, StatusOf, Engine, HasSession

\* What driving a status leaves behind.
LEMMA DriveOK ==
    ASSUME Sound(dev), Blinks(blink), beat.uri \in Nat, paused \in BOOLEAN,
           NEW s \in Statuses, Drive(s)
    PROVE  /\ Sound(dev') /\ Blinks(blink') /\ wanted' = s
           /\ paused => UNCHANGED <<dev, blink, snapshot>>
           /\ ~paused => /\ snapshot' = StatusOf(dev', paused)
                         /\ blink'.blinking => s = "confirm"
                         /\ s \in SolidStatuses /\ Live(dev') => dev'.colour = s
<1>1. CASE paused
  BY <1>1 DEF Drive
<1>2. CASE ~paused /\ s = "none"
  <2>1. dev' = Closed(dev) /\ blink' = StopBlink(blink) /\ Refresh
    BY <1>2, SolidAssumption DEF Drive
  <2> QED
    BY <1>2, <2>1, ClosedOK, StopBlinkOK, SolidAssumption DEF Drive, Refresh
<1>3. CASE ~paused /\ s = "confirm"
  <2>1. PICK d \in GetEngine(dev) : dev' \in Opened(d) /\ blink' = StartBlink(blink) /\ Refresh
    BY <1>3, SolidAssumption DEF Drive, EnsureOpen
  <2>2. Sound(d) /\ d.engine # 0
    BY GetEngineOK
  <2>3. Sound(dev')
    BY <2>1, <2>2, OpenedOK
  <2> QED
    BY <1>3, <2>1, <2>3, StartBlinkOK, SolidAssumption DEF Drive, Refresh
<1>4. CASE ~paused /\ s \in SolidStatuses
  <2>1. PICK c \in GetEngine(dev) :
           \E d \in Opened(c) : \E e \in GetEngine(d) : dev' \in Painted(e, s)
    BY <1>4, SolidAssumption DEF Drive, EnsureOpen, SetSolid
  <2>2. PICK d \in Opened(c) : \E e \in GetEngine(d) : dev' \in Painted(e, s)
    BY <2>1
  <2>3. PICK e \in GetEngine(d) : dev' \in Painted(e, s)
    BY <2>2
  <2>4. blink' = StopBlink(blink) /\ Refresh /\ wanted' = s
    BY <1>4, SolidAssumption DEF Drive
  <2>5. Sound(c) /\ c.engine # 0
    BY GetEngineOK
  <2>6. Sound(d)
    BY <2>5, OpenedOK
  <2>7. Sound(e)
    BY <2>6, GetEngineOK
  <2>8. s \in Colours
    BY <1>4 DEF Colours
  <2>9. Sound(dev') /\ (Live(dev') => dev'.colour = s)
    BY <2>3, <2>7, <2>8, PaintedOK
  <2> QED
    BY <1>4, <2>4, <2>9, StopBlinkOK DEF Refresh
<1> QED
  BY <1>1, <1>2, <1>3, <1>4 DEF Statuses

\* The engine the heartbeat took is the same before and after.
LEMMA SoundStays ==
    ASSUME NEW d, Sound(d'), beat' = beat PROVE Sound(d)'
BY DEF Sound

LEMMA SilentIsNotLive ==
    ASSUME NEW d, Sound(d), Silent(d) PROVE ~Live(d)
BY DEF Sound, Silent, Live, HasSession, Engine

--------------------------------------------------------------------------------
(* The invariant holds *)

LEMMA InitInv == Init => Inv
<1> SUFFICES ASSUME Init PROVE Inv
  OBVIOUS
<1>1. DOMAIN dev.made = {} /\ \A S : dev.made \in [DOMAIN dev.made -> S]
  BY DEF Init
<1>2. Sound(dev) /\ Silent(dev) /\ ~HasSession(dev)
  BY <1>1, FS_EmptySet DEF Init, Sound, Silent, Colours, HasSession
<1>3. Blinks(blink)
  BY FS_EmptySet DEF Init, Blinks
<1>4. Places
  <2>1. snapshot \in [name : {"none", "chroma"}, active : BOOLEAN, paused : BOOLEAN]
    BY <1>2, StatusOfType DEF Init
  <2>2. beat = [pc |-> beat.pc, engine |-> beat.engine, uri |-> beat.uri] /\ calls \in 0 .. MaxCalls
    BY CallsAssumption DEF Init
  <2> QED
    BY <2>1, <2>2 DEF Init, Places, Statuses
<1>5. Order /\ SnapshotIsTrue /\ SteadyStaysSteady
  BY <1>2, SolidAssumption DEF Init, Order, SnapshotIsTrue, SteadyStaysSteady
<1> QED
  BY <1>2, <1>3, <1>4, <1>5 DEF Inv

\* A status is driven: by the applier, by the GUI that resumes, by the settings worker.
LEMMA DriveStep ==
    ASSUME Inv, NEW s \in Statuses, Drive(s), ~down, UNCHANGED <<paused, beat, down>>,
           gui' = gui \/ (gui = "replay" /\ gui' = "idle")
    PROVE  /\ Sound(dev)' /\ Blinks(blink)' /\ Order' /\ SnapshotIsTrue' /\ SteadyStaysSteady'
           /\ wanted' = s
           /\ snapshot' \in [name : {"none", "chroma"}, active : BOOLEAN, paused : BOOLEAN]
<1>1. /\ Sound(dev') /\ Blinks(blink') /\ wanted' = s
      /\ paused => UNCHANGED <<dev, blink, snapshot>>
      /\ ~paused => /\ snapshot' = StatusOf(dev', paused)
                    /\ blink'.blinking => s = "confirm"
                    /\ s \in SolidStatuses /\ Live(dev') => dev'.colour = s
  BY DriveOK DEF Inv, Places
<1>2. Sound(dev)' /\ Blinks(blink)'
  BY <1>1 DEF Sound, Blinks
<1>3. Order'
  BY <1>1 DEF Inv, Order, Silent
<1>4. SnapshotIsTrue'
  BY <1>1 DEF Inv, SnapshotIsTrue, StatusOf, Engine, HasSession
<1>5. SteadyStaysSteady'
  BY <1>1 DEF SteadyStaysSteady, Live, HasSession, Engine
<1>6. snapshot' \in [name : {"none", "chroma"}, active : BOOLEAN, paused : BOOLEAN]
  BY <1>1, StatusOfType DEF Inv, Places
<1> QED
  BY <1>1, <1>2, <1>3, <1>4, <1>5, <1>6

\* The device is handed back: paused, reset or shut down.
LEMMA ReleaseStep ==
    ASSUME Inv, dev' \in {Closed(dev), Dropped(Closed(dev))}, blink' = StopBlink(blink),
           Refresh, UNCHANGED <<paused, beat>>
    PROVE  /\ Sound(dev)' /\ Silent(dev)' /\ Blinks(blink)' /\ ~blink'.blinking
           /\ SnapshotIsTrue' /\ SteadyStaysSteady'
           /\ snapshot' \in [name : {"none", "chroma"}, active : BOOLEAN, paused : BOOLEAN]
<1>1. Sound(Closed(dev)) /\ Silent(Closed(dev))
  BY ClosedOK DEF Inv
<1>2. Sound(dev') /\ Silent(dev')
  BY <1>1, DroppedOK
<1>3. Blinks(blink') /\ ~blink'.blinking
  BY StopBlinkOK DEF Inv
<1>4. ~Live(dev')
  BY <1>2, SilentIsNotLive
<1>5. snapshot' = StatusOf(dev', paused)
  BY DEF Refresh
<1>6. snapshot' \in [name : {"none", "chroma"}, active : BOOLEAN, paused : BOOLEAN]
  BY <1>2, <1>5, StatusOfType DEF Inv, Places
<1>7. Sound(dev)' /\ Silent(dev)' /\ Blinks(blink)'
  BY <1>2, <1>3 DEF Sound, Silent, Blinks
<1>8. SnapshotIsTrue' /\ SteadyStaysSteady'
  BY <1>4, <1>5 DEF SnapshotIsTrue, SteadyStaysSteady, StatusOf, Live, HasSession, Engine
<1> QED
  BY <1>3, <1>6, <1>7, <1>8

\* A blink thread's step: it turns to its other half, paints, or ends.
LEMMA BlinkStep ==
    ASSUME Inv, NEW t \in blink.threads, BlinkThread(t)
    PROVE  Inv'
<1>1. /\ t \in [gen : Nat \ {0}, stopped : BOOLEAN, on : BOOLEAN, awake : BOOLEAN]
      /\ blink = [blinking |-> blink.blinking, generation |-> blink.generation,
                  threads |-> blink.threads]
  BY DEF Inv, Blinks
<1>2. MayPaint(t) <=> ~t.stopped
  BY OnlyOne DEF MayPaint, Inv
<1>3. Blinks(blink') /\ blink'.blinking = blink.blinking
  <2>1. CASE t.stopped
    <3>1. blink' = [blink EXCEPT !.threads = blink.threads \ {t}]
      BY <2>1, <1>1, <1>2 DEF BlinkThread, BlinkWake, BlinkPaint, Others
    <3> QED
      BY <2>1, <3>1, EndedOK DEF Inv
  <2>2. CASE ~t.stopped
    <3>1. PICK n \in {[t EXCEPT !.awake = TRUE, !.on = ~@], [t EXCEPT !.awake = FALSE]} :
             blink' = [blink EXCEPT !.threads = (blink.threads \ {t}) \cup {n}]
      BY <2>2, <1>2 DEF BlinkThread, BlinkWake, BlinkPaint, Others
    <3>2. /\ n \in [gen : Nat \ {0}, stopped : BOOLEAN, on : BOOLEAN, awake : BOOLEAN]
          /\ n.gen = t.gen /\ ~n.stopped
      BY <1>1, <2>2
    <3> QED
      BY <2>2, <3>1, <3>2, TurnedOK DEF Inv
  <2> QED
    BY <2>1, <2>2
<1>4. UNCHANGED <<paused, wanted, gui, replay, settings, beat, down, calls, actual>>
  BY DEF BlinkThread, BlinkWake, BlinkPaint
<1>5. CASE UNCHANGED <<dev, snapshot>>
  <2>1. Sound(dev)' /\ Blinks(blink)' /\ Places' /\ Order'
    BY <1>3, <1>4, <1>5 DEF Inv, Sound, Blinks, Places, Order, Silent
  <2>2. SnapshotIsTrue' /\ SteadyStaysSteady'
    BY <1>4, <1>5 DEF Inv, SnapshotIsTrue, SteadyStaysSteady, StatusOf, Live, HasSession, Engine
  <2> QED
    BY <2>1, <2>2 DEF Inv
<1>6. CASE ~UNCHANGED <<dev, snapshot>>
  <2>1. /\ MayPaint(t) /\ Refresh
        /\ \E d \in GetEngine(dev) : dev' \in Painted(d, IF t.on THEN "confirm" ELSE "off")
    BY <1>6 DEF BlinkThread, BlinkWake, BlinkPaint, SetSolid
  <2>2. blink.blinking
    BY <1>2, <2>1, OnlyOne DEF Inv
  <2>3. PICK d \in GetEngine(dev) : dev' \in Painted(d, IF t.on THEN "confirm" ELSE "off")
    BY <2>1
  <2>4. Sound(dev')
    <3>1. (IF t.on THEN "confirm" ELSE "off") \in Colours
      BY DEF Colours
    <3>2. Sound(d)
      BY GetEngineOK DEF Inv
    <3> QED
      BY <2>3, <3>1, <3>2, PaintedOK
  <2>5. snapshot' = StatusOf(dev', paused)
    BY <2>1 DEF Refresh
  <2>6. snapshot' \in [name : {"none", "chroma"}, active : BOOLEAN, paused : BOOLEAN]
    BY <2>4, <2>5, StatusOfType DEF Inv, Places
  <2>7. Sound(dev)' /\ Blinks(blink)' /\ Places'
    BY <1>3, <1>4, <2>4, <2>6 DEF Inv, Sound, Blinks, Places
  <2>8. Order'
    BY <1>3, <1>4, <2>2 DEF Inv, Order
  <2>9. SnapshotIsTrue'
    BY <1>4, <2>5 DEF SnapshotIsTrue, StatusOf, Engine, HasSession
  <2>10. SteadyStaysSteady'
    BY <1>4, <2>2, SolidAssumption DEF Inv, Order, SteadyStaysSteady
  <2> QED
    BY <2>7, <2>8, <2>9, <2>10 DEF Inv
<1> QED
  BY <1>5, <1>6

\* The heartbeat's step: it takes the engine, asks it for its session, hears the vendor's
\* verdict and refreshes /state's copy.
LEMMA HeartbeatStep == Inv /\ Heartbeat => Inv'
<1> SUFFICES ASSUME Inv, Heartbeat PROVE Inv'
  OBVIOUS
<1>1. UNCHANGED <<blink, paused, wanted, gui, replay, settings, down, calls, actual>>
  BY DEF Heartbeat, BeatCapture, BeatSend, BeatAnswer, BeatRefresh
<1>2. Blinks(blink)'
  BY <1>1 DEF Inv, Blinks
<1>3. CASE BeatCapture \/ BeatSend \/ BeatRefresh
  <2>1. dev' = dev
    BY <1>3 DEF BeatCapture, BeatSend, BeatRefresh
  <2>2. /\ beat' = [pc |-> beat'.pc, engine |-> beat'.engine, uri |-> beat'.uri]
        /\ beat'.pc \in {"waiting", "captured", "sent", "refresh"} /\ beat'.uri \in Nat
        /\ beat'.pc = "captured" => beat'.engine # 0
        /\ beat'.engine \in {0, dev.engine, beat.engine}
    <3>1. CASE BeatCapture \/ BeatRefresh
      BY <3>1 DEF BeatCapture, BeatRefresh
    <3>2. CASE BeatSend
      <4>1. dev.made[beat.engine].uri \in Nat
        BY <3>2 DEF BeatSend, Inv, Places, Sound
      <4>2. \/ beat' = [pc |-> "refresh", engine |-> beat.engine, uri |-> beat.uri]
            \/ beat' = [pc |-> "sent", engine |-> beat.engine, uri |-> dev.made[beat.engine].uri]
        BY <3>2 DEF BeatSend, Inv, Places
      <4> QED
        BY <4>1, <4>2 DEF Inv, Places
    <3> QED
      BY <1>3, <3>1, <3>2
  <2>3. /\ snapshot' \in [name : {"none", "chroma"}, active : BOOLEAN, paused : BOOLEAN]
        /\ SnapshotIsTrue'
    <3>1. CASE snapshot' = snapshot /\ (beat'.pc # "refresh" => beat.pc # "refresh")
      BY <1>1, <2>1, <3>1 DEF Inv, Places, SnapshotIsTrue, StatusOf, Engine, HasSession
    <3>2. CASE Refresh
      BY <1>1, <2>1, <3>2, StatusOfType
      DEF Inv, Places, Refresh, SnapshotIsTrue, StatusOf, Engine, HasSession
    <3> QED
      BY <1>3, <3>1, <3>2, <2>2 DEF BeatCapture, BeatSend, BeatRefresh
  <2>4. Sound(dev)'
    BY <2>1, <2>2 DEF Inv, Sound
  <2>5. Places'
    BY <1>1, <2>2, <2>3 DEF Inv, Places
  <2>6. Order' /\ SteadyStaysSteady'
    BY <1>1, <2>1 DEF Inv, Order, Silent, SteadyStaysSteady, Live, HasSession, Engine
  <2> QED
    BY <1>2, <2>3, <2>4, <2>5, <2>6 DEF Inv
<1>4. CASE BeatAnswer
  <2>1. /\ beat' = [pc |-> "refresh", engine |-> beat.engine, uri |-> 0] /\ snapshot' = snapshot
        /\ dev' = dev \/ dev' = [dev EXCEPT !.made[beat.engine].uri = 0]
    BY <1>4 DEF BeatAnswer, Inv, Places
  <2>2. dev' = [engine |-> dev.engine, made |-> dev'.made, granted |-> dev.granted,
                colour |-> dev.colour]
    BY <2>1 DEF Inv, Sound
  <2>3. /\ DOMAIN dev'.made = DOMAIN dev.made
        /\ dev'.made \in [DOMAIN dev.made -> [name : {"none", "chroma"}, uri : Nat]]
        /\ \A i \in DOMAIN dev.made : dev'.made[i].uri # 0 => dev'.made[i] = dev.made[i]
    <3>1. dev'.made = dev.made \/ dev'.made = [dev.made EXCEPT ![beat.engine].uri = 0]
      BY <2>1 DEF Inv, Sound
    <3> QED
      BY <3>1 DEF Inv, Sound
  <2>4. Sound(dev)'
    BY <2>1, <2>2, <2>3 DEF Inv, Sound
  <2>5. Places' /\ SnapshotIsTrue'
    BY <1>1, <2>1 DEF Inv, Places, SnapshotIsTrue
  <2>6. Order'
    BY <1>1, <2>3 DEF Inv, Order, Silent
  <2>7. dev'.engine = dev.engine /\ dev'.granted = dev.granted /\ dev'.colour = dev.colour
    BY <2>2
  <2>8. Live(dev)' => Live(dev)
    BY <2>3, <2>7 DEF Inv, Sound, Live, HasSession, Engine
  <2>9. SteadyStaysSteady'
    BY <1>1, <2>7, <2>8 DEF Inv, SteadyStaysSteady
  <2> QED
    BY <1>2, <2>4, <2>5, <2>6, <2>9 DEF Inv
<1> QED
  BY <1>3, <1>4 DEF Heartbeat

LEMMA NextInv == Inv /\ [Next]_vars => Inv'
<1> SUFFICES ASSUME Inv, [Next]_vars PROVE Inv'
  OBVIOUS
<1>1. ASSUME NEW s \in Statuses, Apply(s) PROVE Inv'
  <2>1. /\ Drive(s) /\ ~down /\ Called /\ actual' = s
        /\ UNCHANGED <<paused, gui, replay, settings, beat, down>>
    BY <1>1 DEF Apply
  <2>2. /\ Sound(dev)' /\ Blinks(blink)' /\ Order' /\ SnapshotIsTrue' /\ SteadyStaysSteady'
        /\ wanted' = s
        /\ snapshot' \in [name : {"none", "chroma"}, active : BOOLEAN, paused : BOOLEAN]
    BY <2>1, DriveStep
  <2>3. Places'
    BY <2>1, <2>2, CallsAssumption DEF Inv, Places, Called
  <2> QED
    BY <2>2, <2>3 DEF Inv
<1>2. ASSUME NEW p \in BOOLEAN, SetPaused(p) PROVE Inv'
  <2>1. /\ ~down /\ gui = "idle" /\ p = ~paused /\ Called
        /\ paused' = p /\ gui' = IF p THEN "release" ELSE "replay"
        /\ replay' = wanted /\ snapshot' = StatusOf(dev, p)
        /\ UNCHANGED <<dev, blink, wanted, settings, beat, down, actual>>
    BY <1>2 DEF SetPaused, Inv, Places
  <2>2. snapshot' \in [name : {"none", "chroma"}, active : BOOLEAN, paused : BOOLEAN]
    BY <2>1, StatusOfType DEF Inv
  <2>3. Sound(dev)' /\ Blinks(blink)'
    BY <2>1 DEF Inv, Sound, Blinks
  <2>4. Places'
    BY <2>1, <2>2, CallsAssumption DEF Inv, Places, Called
  <2>5. Order' /\ SteadyStaysSteady'
    BY <2>1 DEF Inv, Order, SteadyStaysSteady
  <2>6. SnapshotIsTrue'
    BY <2>1 DEF SnapshotIsTrue, StatusOf, Engine, HasSession
  <2> QED
    BY <2>3, <2>4, <2>5, <2>6 DEF Inv
<1>3. CASE Release \/ Reset \/ ShutDown
  <2>1. /\ dev' \in {Closed(dev), Dropped(Closed(dev))} /\ blink' = StopBlink(blink) /\ Refresh
        /\ UNCHANGED <<paused, wanted, beat, actual>>
    BY <1>3 DEF Release, Reset, ShutDown
  <2>2. /\ Sound(dev)' /\ Silent(dev)' /\ Blinks(blink)' /\ ~blink'.blinking
        /\ SnapshotIsTrue' /\ SteadyStaysSteady'
        /\ snapshot' \in [name : {"none", "chroma"}, active : BOOLEAN, paused : BOOLEAN]
    BY <2>1, ReleaseStep
  <2>3. /\ calls' \in 0 .. MaxCalls /\ gui' \in {"idle", gui} /\ replay' \in {"none", replay}
        /\ settings' \in {"idle", "reapply"} /\ down' \in BOOLEAN
        /\ down' => gui' = "idle"
    <3>1. CASE Release
      BY <3>1 DEF Release, Inv, Places, Order
    <3>2. CASE Reset
      BY <3>2, CallsAssumption DEF Reset, Called, Inv, Places, Order
    <3>3. CASE ShutDown
      BY <3>3, CallsAssumption DEF ShutDown, Called, Inv, Places
    <3> QED
      BY <1>3, <3>1, <3>2, <3>3
  <2>4. Places'
    BY <2>1, <2>2, <2>3 DEF Inv, Places, Statuses
  <2>5. Order'
    BY <2>1, <2>2, <2>3 DEF Inv, Order
  <2> QED
    BY <2>2, <2>4, <2>5 DEF Inv
<1>4. CASE Replay
  <2>1. /\ Drive(replay) /\ gui = "replay" /\ gui' = "idle" /\ replay' = "none"
        /\ UNCHANGED <<paused, settings, beat, down, calls, actual>>
    BY <1>4 DEF Replay
  <2>2. /\ Sound(dev)' /\ Blinks(blink)' /\ Order' /\ SnapshotIsTrue' /\ SteadyStaysSteady'
        /\ wanted' = replay
        /\ snapshot' \in [name : {"none", "chroma"}, active : BOOLEAN, paused : BOOLEAN]
    BY <2>1, DriveStep DEF Inv, Places, Order
  <2>3. Places'
    BY <2>1, <2>2 DEF Inv, Places, Statuses
  <2> QED
    BY <2>2, <2>3 DEF Inv
<1>5. CASE Reapply
  <2>1. /\ Drive(actual) /\ ~down /\ settings' = "idle"
        /\ UNCHANGED <<paused, gui, replay, beat, down, calls, actual>>
    BY <1>5 DEF Reapply
  <2>2. /\ Sound(dev)' /\ Blinks(blink)' /\ Order' /\ SnapshotIsTrue' /\ SteadyStaysSteady'
        /\ wanted' = actual
        /\ snapshot' \in [name : {"none", "chroma"}, active : BOOLEAN, paused : BOOLEAN]
    BY <2>1, DriveStep DEF Inv, Places
  <2>3. Places'
    BY <2>1, <2>2 DEF Inv, Places
  <2> QED
    BY <2>2, <2>3 DEF Inv
<1>6. CASE VendorRestart
  <2>1. /\ dev' = [engine |-> dev.engine, made |-> dev.made, granted |-> {}, colour |-> "own"]
        /\ UNCHANGED <<blink, paused, wanted, snapshot, gui, replay, settings, beat, down, actual>>
        /\ Called
    BY <1>6 DEF VendorRestart, Inv, Sound
  <2>2. Sound(dev)' /\ Blinks(blink)'
    BY <2>1, FS_EmptySet DEF Inv, Sound, Blinks, Colours
  <2>3. Places'
    BY <2>1, CallsAssumption DEF Inv, Places, Called
  <2>4. Order' /\ SteadyStaysSteady'
    BY <2>1 DEF Inv, Order, Silent, SteadyStaysSteady, Live
  <2>5. SnapshotIsTrue'
    BY <2>1 DEF Inv, SnapshotIsTrue, StatusOf, Engine, HasSession
  <2> QED
    BY <2>2, <2>3, <2>4, <2>5 DEF Inv
<1>7. CASE UNCHANGED vars
  <2>1. Sound(dev)' /\ Blinks(blink)' /\ Places' /\ Order'
    BY <1>7 DEF vars, Inv, Sound, Blinks, Places, Order, Silent
  <2>2. SnapshotIsTrue' /\ SteadyStaysSteady'
    BY <1>7 DEF vars, Inv, SnapshotIsTrue, SteadyStaysSteady, StatusOf, Live, HasSession, Engine
  <2> QED
    BY <2>1, <2>2 DEF Inv
<1> QED
  BY <1>1, <1>2, <1>3, <1>4, <1>5, <1>6, <1>7, BlinkStep, HeartbeatStep DEF Next

LEMMA InvHolds == Spec => []Inv
BY InitInv, NextInv, PTL DEF Spec

--------------------------------------------------------------------------------
(* The theorems *)

\* Every variable keeps its type, the engine objects and the threads included.
THEOREM TypeHolds == Spec => []TypeOK
<1>1. Inv => TypeOK
  BY DEF Inv, Sound, Blinks, Places, TypeOK
<1> QED
  BY <1>1, InvHolds, PTL

\* A live session shows the status the controller drives: no stale tick of a blink paints
\* over it (the generation and the Event of _blink_loop, checked under the lock).
THEOREM SteadyHolds == Spec => []SteadyStaysSteady
BY InvHolds, PTL DEF Inv

\* No engine object is left behind with a session nobody would close (reset_engine,
\* _maybe_redetect_locked).
THEOREM NoSessionIsLeftBehind == Spec => []OnlyTheCachedEngineHolds
<1>1. Inv => OnlyTheCachedEngineHolds
  BY DEF Inv, Sound, OnlyTheCachedEngineHolds
<1> QED
  BY <1>1, InvHolds, PTL

\* Paused or shut down means released, whatever the other threads do (set_paused, shutdown).
THEOREM PausedStaysReleased == Spec => []PausedIsReleased
<1>1. Inv => PausedIsReleased
  BY DEF Inv, Order, Silent, Blinks, MayPaint, PausedIsReleased
<1> QED
  BY <1>1, InvHolds, PTL

\* The flag and the threads agree (_start_blink_locked, _stop_blink_locked).
THEOREM OneThreadBlinks == Spec => []BlinkingIsOneThread
<1>1. ASSUME Inv PROVE BlinkingIsOneThread
  <2> DEFINE painting == {t \in blink.threads : MayPaint(t)}
  <2>1. CASE blink.blinking
    <3>1. PICK t \in blink.threads : /\ ~t.stopped /\ t.gen = blink.generation
                                     /\ \A u \in blink.threads \ {t} : u.stopped
      BY <1>1, <2>1 DEF Inv, Blinks
    <3>2. painting = {t}
      BY <3>1 DEF MayPaint
    <3> QED
      BY <2>1, <3>2, FS_Singleton DEF BlinkingIsOneThread
  <2>2. CASE ~blink.blinking
    <3>1. painting = {}
      BY <1>1, <2>2 DEF Inv, Blinks, MayPaint
    <3> QED
      BY <2>2, <3>1, FS_EmptySet DEF BlinkingIsOneThread
  <2> QED
    BY <2>1, <2>2
<1> QED
  BY <1>1, InvHolds, PTL

\* /state's copy, read without the lock, is the engine's state (_refresh_status_locked).
THEOREM SnapshotHolds == Spec => []SnapshotIsTrue
BY InvHolds, PTL DEF Inv
================================================================================
