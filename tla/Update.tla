--------------------------------- MODULE Update ---------------------------------
(* Updating: the tray and `tintaview update` ask GitHub for the latest release,     *)
(* compare it with their own version, download the install script and the release's *)
(* checksums, and run the script if the two agree (tintaview/install/update.py,     *)
(* ui/workers.py's UpdateCheckWorker and ManualUpdateWorker).  Meanwhile the        *)
(* release may be withdrawn, and its assets uploaded again, one by one.             *)
EXTENDS Integers, Sequences, FiniteSets

CONSTANTS
    Versions,      \* the versions of all releases, oldest first
    MaxUploads     \* bound: what happens on GitHub's side

\* A version: the numbers of its core, and the identifiers of its pre-release suffix, a
\* pair each: <<0, n>> is a number, and <<1, n>> the n-th word of the alphabet.  A leading
\* v and build metadata are gone.
VARIABLES
    own,           \* __version__ of this process, an index into Versions
    system,        \* "windows" or "posix"
    github,        \* the latest release, its assets, and what its two files are now
    update,        \* where the updater is, and what it has downloaded
    installed,     \* the version in the venv
    uploads,       \* counter
    offered,       \* history: the release the user was told of
    ran,           \* history: the script that was run
    told,          \* history: run_update's code
    withdrawn      \* history: a release was withdrawn while the user read the question

updateVars == <<own, system, github, update, installed, uploads, offered, ran, told, withdrawn>>

\* Assumed in Install.tla.
UpdateAssumption ==
    /\ Versions \in Seq([core : Seq(Nat), pre : Seq(Nat \X Nat)])
    /\ Len(Versions) > 1 /\ MaxUploads \in Nat

None == 0
Cut  == -1         \* a download that ended early looks like one that did not
Idle == [phase |-> "idle", release |-> None, script |-> None, sums |-> None]

--------------------------------------------------------------------------------
(* compare_versions.                                                               *)

\* Tuples are compared as Python does, a prefix before what it is a prefix of.
Pair(a, b) == a[1] < b[1] \/ (a[1] = b[1] /\ a[2] < b[2])
Before(a, b, Less(_, _)) ==
    \E i \in 1 .. Len(b) :
        /\ \A j \in 1 .. (i - 1) : j <= Len(a) /\ a[j] = b[j]
        /\ i <= Len(a) => Less(a[i], b[i])
Padded(core, n) == [i \in 1 .. n |-> IF i <= Len(core) THEN core[i] ELSE 0]

Older(a, b) ==
    LET n == IF Len(a.core) > Len(b.core) THEN Len(a.core) ELSE Len(b.core)
        ca == Padded(a.core, n)
        cb == Padded(b.core, n)
    IN  IF ca # cb THEN Before(ca, cb, LAMBDA x, y : x < y)
        ELSE a.pre # <<>> /\ a.pre # b.pre /\ (b.pre = <<>> \/ Before(a.pre, b.pre, Pair))

--------------------------------------------------------------------------------
(* The check, the download and the run.                                            *)

\* The scripts are numbered as they are uploaded, and a checksums file by the script
\* whose digest it lists.
Init ==
    /\ own \in DOMAIN Versions /\ installed = own /\ system \in {"windows", "posix"}
    /\ github \in [latest : DOMAIN Versions, script : {None, 1}, sums : {None, 1}]
    /\ update = Idle /\ uploads = 0 /\ offered = None /\ ran = None /\ told = -1
    /\ withdrawn = FALSE

rest == <<own, system, github, installed, uploads, withdrawn>>

\* UpdateCheckWorker and ManualUpdateWorker's check: a release that is read and is newer;
\* and `tintaview update`, which does not ask.
Offers ==
    /\ update.phase = "idle" /\ told = -1 /\ Older(Versions[own], Versions[github.latest])
    /\ offered' = github.latest /\ update' = [Idle EXCEPT !.phase = "asked"]
    /\ UNCHANGED <<rest, ran, told>>
\* The user says no, or is asked by nobody.
Declines ==
    /\ update.phase = "asked" /\ update' = Idle /\ offered' = None
    /\ UNCHANGED <<rest, ran, told>>

Ends(code) == update' = [update EXCEPT !.phase = "ended", !.script = None] /\ told' = code

\* run_update: it asks again, and gives up without a release, a script or checksums.
Asks ==
    /\ update.phase = "asked"
    /\ \/ Ends(1)
       \/ ~Older(Versions[own], Versions[github.latest]) /\ Ends(0)
       \/ /\ Older(Versions[own], Versions[github.latest])
          /\ IF None \in {github.script, github.sums} THEN Ends(1)
             ELSE UNCHANGED told
                  /\ update' = [update EXCEPT !.phase = "script", !.release = github.latest]
    /\ UNCHANGED <<rest, offered, ran>>

\* _download_and_verify: the script, then the checksums; a failure removes the script.
Download(phase, next, file) ==
    /\ update.phase = phase
    /\ \/ Ends(1)
       \/ /\ \E got \in {github[file], Cut} : update' = [update EXCEPT !.phase = next, ![file] = got]
          /\ UNCHANGED told
    /\ UNCHANGED <<rest, offered, ran>>
DownloadScript == Download("script", "sums", "script")
DownloadSums   == Download("sums", "verify", "sums")

\* The digest that is listed is the digest of what was downloaded.
Agrees == update.sums # Cut /\ update.script = update.sums
Verify ==
    /\ update.phase = "verify"
    /\ IF Agrees THEN update' = [update EXCEPT !.phase = "run"] /\ UNCHANGED told ELSE Ends(1)
    /\ UNCHANGED <<rest, offered, ran>>

\* _update_posix waits for the script and removes it, _update_windows starts it and
\* leaves it; the installer puts the latest release in place, or fails.
RunScript ==
    /\ update.phase = "run"
    /\ \/ Ends(1) /\ UNCHANGED <<ran, installed>>
       \/ /\ ran' = update.script
          /\ IF system = "windows" THEN Ends(0) /\ installed' \in {installed, github.latest}
             ELSE \/ Ends(0) /\ installed' = github.latest
                  \/ Ends(1) /\ UNCHANGED installed
    /\ UNCHANGED <<own, system, github, uploads, withdrawn, offered>>

\* GitHub: an asset is uploaded (again), a release published, or withdrawn.
Upload ==
    /\ uploads < MaxUploads /\ uploads' = uploads + 1
    /\ \/ \E file \in {"script", "sums"} :
             /\ github[file] < uploads + 1
             /\ github' = [github EXCEPT ![file] = uploads + 1]
             /\ UNCHANGED withdrawn
       \/ \E v \in DOMAIN Versions \ {github.latest} :
             /\ github' = [github EXCEPT !.latest = v]
             /\ withdrawn' = (withdrawn \/ (v < github.latest /\ update.phase # "idle"))
    /\ UNCHANGED <<own, system, update, installed, offered, ran, told>>

Next == Offers \/ Declines \/ Asks \/ DownloadScript \/ DownloadSums \/ Verify \/ RunScript \/ Upload

--------------------------------------------------------------------------------
\* What is offered is newer, as semver orders the versions (Versions is in that order):
\* pre-releases before their release, beta.2 before beta.11, and a release to whoever
\* runs one of its candidates.
OffersAreNewer ==
    /\ offered # None => offered > own
    /\ uploads = 0 /\ update = Idle =>
          \A v \in DOMAIN Versions : Older(Versions[own], Versions[v]) <=> own < v

\* A script that runs is whole, and is the one its release's checksums list, whatever was
\* uploaded between the two downloads ("an unverified installer/script is never run").
OnlyVerifiedRuns == ran # None => ran # Cut /\ ran = update.sums

\* "The update is installed" means that the install script ran (and on POSIX, that it
\* worked and left nothing older), unless the release was withdrawn meanwhile.
ToldIsDone ==
    told = 0 /\ ~withdrawn => ran # None /\ (system = "posix" => installed >= offered)
================================================================================
