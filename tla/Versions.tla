------------------------------ MODULE Versions ------------------------------
(***************************************************************************)
(* The versions of one document: services/collaboration/service.py.  The   *)
(* number of a new version is read, its file is moved to the place that    *)
(* the number and the file's name give, and only then the row is inserted; *)
(* uq_document_version_number refuses one of two rows with one number, but *)
(* not its file.                                                           *)
(***************************************************************************)
EXTENDS Sessions, Naturals, FiniteSetsExt

CONSTANTS
    Uploaders,    \* requests that add a version
    Files,        \* contents, as good as their sha256
    FileNames,
    filename,     \* the name that each of the requests gives its file
    MaxNumber     \* bound on the number of versions

ASSUME VersionsAssumption ==
    /\ filename \in [Uploaders -> FileNames]
    /\ None \notin Files
    /\ MaxNumber \in Nat

VARIABLES
    version, \* document_versions: the name and the sha256 of the file
    stored,  \* the files below versions/v<number>/
    upload   \* open upload_version and snapshot_current requests

versionsVars == <<version, stored, upload>>

-----------------------------------------------------------------------------
Numbers == 1..MaxNumber
NoVersion == [filename |-> None, sha256 |-> None]
NoUpload == [number |-> 0, sha256 |-> None]

VersionsInit ==
    /\ version = [n \in Numbers |-> NoVersion]
    /\ stored = [p \in Numbers \X FileNames |-> None]
    /\ upload = [u \in Uploaders |-> NoUpload]

Rows == {n \in Numbers : version[n] # NoVersion}

LastNumber == IF Rows = {} THEN 1 ELSE Max(Rows)             \* mutant: the last number is used again
_next_version == Max(Rows \cup {0}) + 1

\* upload_version and snapshot_current up to the insert: nothing is awaited between
\* the number and the file, a staged one that is moved or a copy of the original.
AddVersion(u, file) ==
    /\ MayOpen(upload, NoUpload, u)
    /\ _next_version \in Numbers
    /\ stored' = [stored EXCEPT ![<<_next_version, filename[u]>>] = file]
    /\ upload' = [upload EXCEPT ![u] = [number |-> _next_version, sha256 |-> file]]
    /\ UNCHANGED <<version, overlap>>

VersionCommit(u) ==
    LET n == upload[u].number IN
    /\ n # 0
    /\ version[n] = NoVersion
    /\ version' = [version EXCEPT ![n] = [filename |-> filename[u], sha256 |-> upload[u].sha256]]
    /\ upload' = [upload EXCEPT ![u] = NoUpload]
    /\ UNCHANGED <<stored, overlap>>

\* The insert is refused or fails, or the process dies: the file stays.
VersionRefused(u) ==
    /\ upload[u] # NoUpload
    /\ upload' = [upload EXCEPT ![u] = NoUpload]
    /\ UNCHANGED <<version, stored, overlap>>

VersionsNext ==
    \E u \in Uploaders :
        \/ \E file \in Files : AddVersion(u, file)
        \/ VersionCommit(u)
        \/ VersionRefused(u)

VersionsSpec == SessionsInit /\ VersionsInit /\ [][VersionsNext]_<<versionsVars, overlap>>

-----------------------------------------------------------------------------
VersionsTypeOK ==
    /\ version \in [Numbers -> [filename : FileNames \cup {None}, sha256 : Files \cup {None}]]
    /\ stored \in [Numbers \X FileNames -> Files \cup {None}]
    /\ upload \in [Uploaders -> [number : Numbers \cup {0}, sha256 : Files \cup {None}]]

OnlyUploader(name) == \A t, u \in Uploaders : filename[t] = name /\ filename[u] = name => t = u

\* A version is immutable: its file is the one whose sha256 its row recorded,
\* whatever uploads failed before and after it, as long as no other request that
\* overlaps gives its file the same name (upload_version, snapshot_current).
VersionsImmutable ==
    \A n \in Rows :
        ~overlap \/ OnlyUploader(version[n].filename)
            => stored[<<n, version[n].filename>>] = version[n].sha256
=============================================================================
