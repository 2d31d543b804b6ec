------------------------------ MODULE Updates ------------------------------
(***************************************************************************)
(* UpdateManager: the check for updates, the download and the installation *)
(* that the operator asks for on the dashboard.                            *)
(*                                                                         *)
(* The three overlap at their awaits: a check may change what is the       *)
(* latest release while another one is downloaded, or while the installer  *)
(* that was downloaded is read for its checksum.                           *)
(***************************************************************************)
EXTENDS Naturals, FiniteSets

CONSTANTS
    LastRelease,      \* releases are 1 .. LastRelease, a newer one is greater
    Signed,           \* those with a signature of the expected publisher
    Portable,         \* those that come with a portable exe
    MaxAnnouncements  \* times that a source announces another release, at most

Releases == 1 .. LastRelease

ASSUME UpdatesAssumption ==
    /\ LastRelease \in Nat \ {0}
    /\ Signed \subseteq Releases
    /\ Portable \subseteq Releases
    /\ MaxAnnouncements \in Nat

VARIABLES
    announced,   \* the latest release, by source
    changes,     \* changes of announced so far
    whole,       \* releases whose files in updates/ are complete and right
    installKind, \* options.installKind
    version,     \* VERSION of the program that runs
    asking,      \* where check() is
    latest,      \* status.latest: a set of one release, or none
    download,    \* status.download: of which release, and where
    install,     \* install(): what it had read before it hashes the file
    launched     \* the release that was launched last, or none

sources == <<announced, changes>>
status  == <<asking, latest, download, install>>
updateVars == <<sources, whole, installKind, version, status, launched>>

Sources == {"manifest", "github"}

AtMostOne(set) == {{}} \cup {{e} : e \in set}

Downloads == [state : {"idle", "downloading", "inspecting", "ready", "failed"},
              of : AtMostOne(Releases), trusted : BOOLEAN]

Installs == [of : Releases, trusted : BOOLEAN, expected : AtMostOne(Releases)]

UpdatesTypeOK ==
    /\ announced \in [Sources -> Releases]
    /\ changes \in 0 .. MaxAnnouncements
    /\ whole \subseteq Releases
    /\ installKind \in {"setup", "portable", "none"}
    /\ version \in Releases
    /\ asking \in {"no"} \cup Sources
    /\ latest \in AtMostOne(Releases)
    /\ download \in Downloads
    /\ install \in AtMostOne(Installs)
    /\ launched \in AtMostOne(Releases)

-----------------------------------------------------------------------------
(* check() *)

CheckBegins ==
    /\ asking = "no"
    /\ asking' = "manifest"
    /\ UNCHANGED <<sources, whole, installKind, version, latest, download, install, launched>>

\* The source that is asked names its latest release.
Answers == latest' = {announced[asking]} /\ asking' = "no"

\* The manifest cannot be reached: GitHub is asked.
FallsBack == asking = "manifest" /\ asking' = "github" /\ UNCHANGED latest

\* The answer is of no use, or there is none: what was known stays.
OfNoUse == asking' = "no" /\ UNCHANGED latest

CheckAnswered ==
    /\ asking # "no"
    /\ Answers \/ FallsBack \/ OfNoUse
    /\ UNCHANGED <<sources, whole, installKind, version, download, install, launched>>

-----------------------------------------------------------------------------
(* download() *)

Available(r) == r > version

Downloadable(r) ==
    /\ Available(r)
    /\ download.state \notin {"downloading", "inspecting"}
    /\ installKind = "setup" \/ (installKind = "portable" /\ r \in Portable)

DownloadBegins ==
    /\ \E r \in latest :
          /\ Downloadable(r)
          /\ download' = [state |-> "downloading", of |-> {r}, trusted |-> FALSE]
    /\ UNCHANGED <<sources, whole, installKind, version, asking, latest, install, launched>>

\* downloadVerified(): the file gets its name once size and hash match.
Downloaded ==
    /\ download.state = "downloading"
    /\ \/ /\ download' = [download EXCEPT !.state = "inspecting"]
          /\ whole' = whole \cup download.of
       \/ download' = [download EXCEPT !.state = "failed"] /\ UNCHANGED whole
    /\ UNCHANGED <<sources, installKind, version, asking, latest, install, launched>>

\* inspectSignature(): Windows may not tell.
Inspected ==
    /\ download.state = "inspecting"
    /\ \/ download' = [download EXCEPT !.state = "ready", !.trusted = download.of \subseteq Signed]
       \/ download' = [download EXCEPT !.state = "ready"]
       \/ download' = [download EXCEPT !.state = "failed"]
    /\ UNCHANGED <<sources, whole, installKind, version, asking, latest, install, launched>>

-----------------------------------------------------------------------------
(* install() *)

\* What is ready, and what it should be by the latest release, is read before
\* the file is. One request is followed at a time.
InstallBegins ==
    /\ install = {}
    /\ download.state = "ready"
    /\ \E r \in download.of :
          install' = {[of |-> r, trusted |-> download.trusted,
                       expected |-> {e \in latest : installKind = "portable" => e \in Portable}]}
    /\ UNCHANGED <<sources, whole, installKind, version, asking, latest, download, launched>>

\* Mutant: the hash is compared with that of the release that was downloaded.
MatchesDownload(i) == i.of \in whole

\* The file still has the checksum that the latest release is to have.
Matches(i) == i.of \in whole /\ i.of \in i.expected

\* A portable exe is only shown; an installer is run if it is trusted.
MayRun(i) == installKind = "portable" \/ i.trusted

InstallHashed ==
    /\ \E i \in install :
          IF Matches(i) /\ MayRun(i) THEN launched' = {i.of} ELSE UNCHANGED launched
    /\ install' = {}
    /\ UNCHANGED <<sources, whole, installKind, version, asking, latest, download>>

-----------------------------------------------------------------------------
(* Outside *)

\* A release is published, or is withdrawn for an older one.
Announces ==
    /\ changes < MaxAnnouncements
    /\ changes' = changes + 1
    /\ \E s \in Sources, r \in Releases : announced' = [announced EXCEPT ![s] = r]
    /\ UNCHANGED <<whole, installKind, version, status, launched>>

\* "The file sat in a user-writable folder".
Damaged ==
    /\ \E r \in whole : whole' = whole \ {r}
    /\ UNCHANGED <<sources, installKind, version, status, launched>>

KnowsNothing ==
    /\ asking' = "no"
    /\ latest' = {}
    /\ download' = [state |-> "idle", of |-> {}, trusted |-> FALSE]
    /\ install' = {}
    /\ launched' = {}

\* The program starts again, perhaps as the release that was launched.
StartsAgain ==
    /\ KnowsNothing
    /\ version' \in {version} \cup launched
    /\ UNCHANGED <<sources, whole, installKind>>

UpdatesInit ==
    /\ \E r \in Releases : announced = [s \in Sources |-> r]
    /\ changes = 0
    /\ whole = {}
    /\ installKind \in {"setup", "portable", "none"}
    /\ version = 1
    /\ asking = "no"
    /\ latest = {}
    /\ download = [state |-> "idle", of |-> {}, trusted |-> FALSE]
    /\ install = {}
    /\ launched = {}

UpdatesNext ==
    \/ CheckBegins \/ CheckAnswered
    \/ DownloadBegins \/ Downloaded \/ Inspected
    \/ InstallBegins \/ InstallHashed
    \/ Announces \/ Damaged \/ StartsAgain

-----------------------------------------------------------------------------
(* Properties *)

\* What is launched is complete, newer than the program that runs, signed if it
\* is run at once, and it is the release that was known to be the latest when
\* the operator asked: a check or a withdrawal during the download leads to no
\* installation of what was downloaded.
InstallsAnnounced ==
    [][\A r \in launched' \ launched :
          /\ r \in whole
          /\ r > version
          /\ installKind = "setup" => r \in Signed
          /\ \E i \in install : r \in i.expected]_updateVars

\* What a download that is ready should be: something that can be installed.
ReadyInstalls == download.state = "ready" => latest = download.of
=============================================================================
