----------------------------- MODULE LegalData -----------------------------
(***************************************************************************)
(* The governed legal corpus: services/legal_data/service.py over          *)
(* services/research/importer.py, for one feed of one source and one       *)
(* jurisdiction pack.  A manifest is ingested item by item: what a statute *)
(* said is captured, the new text is imported, a difference is recorded as *)
(* an amendment event for review.  import_statute commits the session it   *)
(* is called in, so an ingestion is not one transaction: each import makes *)
(* the run, the new text and the events of the items before it durable,    *)
(* and the rest follows with the ingestion's last commit.  The corpus is   *)
(* global and has other writers, which record no event of this             *)
(* organization: POST /research/corpus/statutes/import, a connector        *)
(* without a feed, and the ingestions of other organizations.  A pack's    *)
(* release is activated only if the feed is fresh and nothing is pending.  *)
(***************************************************************************)
EXTENDS Sessions, Naturals

CONSTANTS
    Statutes,   \* statutes of the source
    Texts,      \* what a statute may say
    Manifests,  \* the manifests that are offered to the feed
    Ingestions, \* ingest_manifest calls at the same time: the API's and a job's
    Importers,  \* calls of import_statute that are not this organization's ingestions
    Managers,   \* review_amendment and activate_pack_release requests at the same time
    Releases,   \* jurisdiction_pack_releases of the pack
    MaxRuns     \* bound on the ingestion runs

RunStatuses == {"absent", "running", "succeeded", "partial", "failed"}
ReviewStatuses == {"pending", "reviewed", "dismissed"}
ReleaseStatuses == {"draft", "active", "retired"}

\* text: the statutes in the manifest; bad: it has an item that is rejected.
ASSUME LegalDataAssumption ==
    /\ Manifests \subseteq [text : [Statutes -> Texts \cup {None}], bad : BOOLEAN]
    /\ None \notin Texts \cup Releases \cup ReviewStatuses
    /\ MaxRuns \in Nat

VARIABLES
    corpus,    \* what each statute says, as committed
    runs,      \* committed legal_data_ingestion_runs with the review status of their events
    ingestion, \* open ingest_manifest calls
    importing, \* open direct calls of import_statute
    fresh,     \* not is_stale(feed.last_success_at)
    release,   \* jurisdiction_pack_releases
    active_release_version, \* of the pack
    desk,      \* open activate_pack_release requests
    untracked  \* history: statutes whose last change was a direct import, or lost its
               \* event with the ingestion that made it

importVars == <<corpus, importing, untracked>>
ingestVars == <<importVars, runs, ingestion, fresh>>
legalVars == <<ingestVars, release, active_release_version, desk>>
packVars == <<release, active_release_version, desk>>

-----------------------------------------------------------------------------
RunIds == 1..MaxRuns
Empty == [s \in Statutes |-> None]
NoManifest == [text |-> Empty, bad |-> FALSE]
NoRun == [status |-> "absent", manifest |-> NoManifest, event |-> Empty]
NoIngestion == [step |-> "idle", run |-> 0, manifest |-> NoManifest, todo |-> {},
                on |-> None, before |-> None, row |-> None, events |-> {}]
NoImport == [on |-> None, text |-> None, row |-> None]
NoDecision == [on |-> None, previous |-> {}, loaded |-> "draft"]

LegalDataInit ==
    /\ corpus = Empty
    /\ runs = [n \in RunIds |-> NoRun]
    /\ ingestion = [i \in Ingestions |-> NoIngestion]
    /\ fresh = FALSE
    /\ release = [r \in Releases |-> "draft"]
    /\ active_release_version = None
    /\ desk = [d \in Managers |-> NoDecision]
    /\ importing = [c \in Importers |-> NoImport]
    /\ untracked = {}

Quiescent ==
    /\ \A i \in Ingestions : ingestion[i] = NoIngestion
    /\ \A c \in Importers : importing[c] = NoImport
NobodyDecides == \A d \in Managers : desk[d] = NoDecision
Alone == overlap \/ (Quiescent /\ NobodyDecides)

InManifest(mf) == {s \in Statutes : mf.text[s] # None}

\* A manifest that was ingested before, even in part, is not ingested again: the
\* feed counts as checked and nothing else changes.
duplicate_run(mf) ==
    \E n \in RunIds : runs[n].manifest = mf /\ runs[n].status \in {"succeeded", "partial"}

Unused(n) == runs[n].status = "absent" /\ \A i \in Ingestions : ingestion[i].run # n

ingest_manifest(i, mf, n) ==
    /\ Alone
    /\ ingestion[i] = NoIngestion
    /\ ~duplicate_run(mf)
    /\ Unused(n) /\ \A k \in 1..(n - 1) : ~Unused(k)
    /\ ingestion' = [ingestion EXCEPT ![i] = [NoIngestion EXCEPT
           !.step = "open", !.run = n, !.manifest = mf, !.todo = InManifest(mf)]]
    /\ UNCHANGED <<importVars, runs, fresh, packVars, overlap>>

CaptureBefore(i, s) ==
    /\ ingestion[i].step = "open"
    /\ s \in ingestion[i].todo
    /\ ingestion' = [ingestion EXCEPT
           ![i].step = "captured", ![i].on = s, ![i].before = corpus[s], ![i].row = corpus[s]]
    /\ UNCHANGED <<importVars, runs, fresh, packVars, overlap>>

\* import_statute looks for the statute again, and finds one that the capture did not.
SelectAgain(i) ==
    LET g == ingestion[i] IN
    /\ g.step = "captured"
    /\ g.row = None /\ corpus[g.on] # None
    /\ ingestion' = [ingestion EXCEPT ![i].row = corpus[g.on]]
    /\ UNCHANGED <<importVars, runs, fresh, packVars, overlap>>

\* The events are part of the session's transaction: they are there from its next commit.
Recorded(i) ==
    [s \in Statutes |-> IF s \in ingestion[i].events THEN "pending" ELSE runs[ingestion[i].run].event[s]]

ChangedOnly(i) ==                                            \* mutant: a first import is no amendment
    LET s == ingestion[i].on IN
    IF ingestion[i].before \in {None, ingestion[i].manifest.text[s]} THEN {} ELSE {s}
_record_statute_amendments(i) ==
    LET s == ingestion[i].on IN
    IF ingestion[i].before = ingestion[i].manifest.text[s] THEN {} ELSE {s}

\* import_statute writes to the row that it or the capture loaded, and commits.
ImportStatute(i) ==
    LET g == ingestion[i]
        s == g.on
        text == g.manifest.text[s]
    IN  /\ g.step = "captured"
        /\ g.row = None => corpus[s] = None
        /\ corpus' = [corpus EXCEPT ![s] = Written(text, g.row, @)]
        /\ runs' = [runs EXCEPT ![g.run] =
               [status |-> "running", manifest |-> g.manifest, event |-> Recorded(i)]]
        /\ ingestion' = [ingestion EXCEPT ![i] = [g EXCEPT !.step = "open",
               !.todo = @ \ {s}, !.on = None, !.before = None, !.row = None,
               !.events = _record_statute_amendments(i)]]
        /\ untracked' = untracked \ {t \in _record_statute_amendments(i) : corpus'[t] = text}
        /\ UNCHANGED <<importing, fresh, packVars, overlap>>

Recording(i, s) == s \in ingestion[i].events /\ ingestion[i].manifest.text[s] = corpus[s]

\* An ingestion ends before its last commit: the events it had not committed are lost.
CutShort(i) ==
    /\ ingestion' = [ingestion EXCEPT ![i] = NoIngestion]
    /\ untracked' = untracked \cup {s \in Statutes : Recording(i, s)}
    /\ UNCHANGED <<corpus, importing, runs, fresh, packVars, overlap>>

\* uq_statutes_source_external: another writer has inserted the statute since
\* import_statute looked for it, the flush fails and with it every later statement of
\* the session.
ImportRefused(i) ==
    /\ ingestion[i].step = "captured"
    /\ ingestion[i].row = None /\ corpus[ingestion[i].on] # None
    /\ CutShort(i)

\* The worker or the API process is killed.
IngestionCrashes(i) ==
    /\ ingestion[i] # NoIngestion
    /\ CutShort(i)

\* import_statute called directly: the row is loaded ...
DirectImportRead(c, s, text) ==
    /\ Alone
    /\ importing[c] = NoImport
    /\ importing' = [importing EXCEPT ![c] = [on |-> s, text |-> text, row |-> corpus[s]]]
    /\ UNCHANGED <<corpus, untracked, runs, ingestion, fresh, packVars, overlap>>

\* ... and written, with no event; or the insert is refused.
DirectImportCommit(c) ==
    LET m == importing[c] IN
    /\ m # NoImport
    /\ corpus' = IF m.row = None /\ corpus[m.on] # None THEN corpus
                 ELSE [corpus EXCEPT ![m.on] = Written(m.text, m.row, @)]
    /\ untracked' = untracked \cup {s \in {m.on} : corpus'[s] # corpus[s]}
    /\ importing' = [importing EXCEPT ![c] = NoImport]
    /\ UNCHANGED <<runs, ingestion, fresh, packVars, overlap>>

Outcome(mf) ==
    CASE ~mf.bad -> "succeeded"
      [] mf.bad /\ InManifest(mf) # {} -> "partial"
      [] OTHER -> "failed"

FinishIngestion(i) ==
    LET g == ingestion[i] IN
    /\ g.step = "open" /\ g.todo = {}
    /\ runs' = [runs EXCEPT ![g.run] =
           [status |-> Outcome(g.manifest), manifest |-> g.manifest, event |-> Recorded(i)]]
    /\ fresh' = (fresh \/ InManifest(g.manifest) # {})
    /\ ingestion' = [ingestion EXCEPT ![i] = NoIngestion]
    /\ UNCHANGED <<importVars, packVars, overlap>>

FeedBecomesStale ==
    /\ fresh
    /\ fresh' = FALSE
    /\ UNCHANGED <<importVars, runs, ingestion, packVars, overlap>>

\* A review may also set an event back to pending.
review_amendment(n, s, status) ==
    /\ Alone
    /\ runs[n].event[s] # None
    /\ runs' = [runs EXCEPT ![n].event[s] = status]
    /\ UNCHANGED <<importVars, ingestion, fresh, packVars, overlap>>

-----------------------------------------------------------------------------
NothingBlocks == fresh                                       \* mutant: amendments are not looked at
ActivationReady ==
    /\ fresh
    /\ \A n \in RunIds, s \in Statutes : runs[n].event[s] # "pending"

ActiveReleases == {r \in Releases : release[r] = "active"}
NoPrevious(r) == {}                                          \* mutant: the previous release stays active
Previous(r) == ActiveReleases \ {r}

\* activate_pack_release: the blockers and the previous releases are read ...
ActivationRead(d, r) ==
    /\ Alone
    /\ desk[d] = NoDecision
    /\ ActivationReady
    /\ desk' = [desk EXCEPT ![d] = [on |-> r, previous |-> Previous(r), loaded |-> release[r]]]
    /\ UNCHANGED <<ingestVars, release, active_release_version, overlap>>

\* ... and the release, the previous ones and the pack are written.
ActivationCommit(d) ==
    LET a == desk[d] IN
    /\ a # NoDecision
    /\ release' = [r \in Releases |->
           IF r = a.on THEN Written("active", a.loaded, release[r])
           ELSE IF r \in a.previous THEN "retired" ELSE release[r]]
    /\ active_release_version' = a.on
    /\ desk' = [desk EXCEPT ![d] = NoDecision]
    /\ UNCHANGED <<ingestVars, overlap>>

LegalDataNext ==
    \/ \E i \in Ingestions, mf \in Manifests, n \in RunIds : ingest_manifest(i, mf, n)
    \/ \E i \in Ingestions, s \in Statutes : CaptureBefore(i, s)
    \/ \E i \in Ingestions :
          \/ SelectAgain(i) \/ ImportStatute(i) \/ ImportRefused(i)
          \/ FinishIngestion(i) \/ IngestionCrashes(i)
    \/ \E c \in Importers, s \in Statutes, text \in Texts : DirectImportRead(c, s, text)
    \/ \E c \in Importers : DirectImportCommit(c)
    \/ FeedBecomesStale
    \/ \E n \in RunIds, s \in Statutes, status \in ReviewStatuses : review_amendment(n, s, status)
    \/ \E d \in Managers, r \in Releases : ActivationRead(d, r)
    \/ \E d \in Managers : ActivationCommit(d)

LegalDataSpec == SessionsInit /\ LegalDataInit /\ [][LegalDataNext]_<<legalVars, overlap>>

-----------------------------------------------------------------------------
LegalDataTypeOK ==
    /\ corpus \in [Statutes -> Texts \cup {None}]
    /\ runs \in [RunIds -> [status : RunStatuses, manifest : Manifests \cup {NoManifest},
                            event : [Statutes -> ReviewStatuses \cup {None}]]]
    /\ ingestion \in [Ingestions ->
           [step : {"idle", "open", "captured"}, run : RunIds \cup {0},
            manifest : Manifests \cup {NoManifest}, todo : SUBSET Statutes,
            on : Statutes \cup {None}, before : Texts \cup {None}, row : Texts \cup {None},
            events : SUBSET Statutes]]
    /\ importing \in [Importers ->
           [on : Statutes \cup {None}, text : Texts \cup {None}, row : Texts \cup {None}]]
    /\ fresh \in BOOLEAN
    /\ release \in [Releases -> ReleaseStatuses]
    /\ active_release_version \in Releases \cup {None}
    /\ desk \in [Managers -> [on : Releases \cup {None}, previous : SUBSET Releases,
                              loaded : ReleaseStatuses]]
    /\ untracked \in SUBSET Statutes

Says(n, s) == runs[n].manifest.text[s] = corpus[s] /\ runs[n].event[s] # None
Tracked(s) == (\E n \in RunIds : Says(n, s)) \/ (\E i \in Ingestions : Recording(i, s))

\* Whatever a statute says has an amendment event that a manager can review, or the
\* ingestion that imported it is about to commit one, unless a direct import or the
\* last item of an ingestion that was cut short put it there: two ingestions of one
\* feed, or an ingestion and a direct import, do not lose a change between them, each
\* compares with what it wrote over, and what is cut short loses the event of one item
\* at most (ingest_manifest, _record_statute_amendments).
ChangeIsRecorded == \A s \in Statutes \ untracked : corpus[s] # None => Tracked(s)

Reviewed(s) == corpus[s] # None =>
    \E n \in RunIds : runs[n].manifest.text[s] = corpus[s] /\ runs[n].event[s] \in {"reviewed", "dismissed"}

Activates(r) == release[r] # "active" /\ release'[r] = "active"

\* One request at a time, a release becomes active only over texts whose amendment was
\* reviewed or dismissed, except those that a direct import or a cut-short ingestion put
\* there (activate_pack_release together with everything that an ingestion committed).
ReviewedBeforeActivation ==
    [][(\E r \in Releases : Activates(r)) /\ ~overlap
         => \A s \in Statutes \ untracked : Reviewed(s)]_<<legalVars, overlap>>

\* "On a changed provision: ... An amendment event stores before_json, after_json, ..."
\* (LEGAL_DATA.md:19-23), of every change of what a statute says.
ChangedTextRecorded ==
    [][\A s \in Statutes : corpus[s] # None /\ corpus'[s] # corpus[s]
         => Tracked(s)']_<<legalVars, overlap>>

\* The promise itself: "Activation is blocked when ... pending amendment review
\* remains" (README.md:28), for changes of the corpus, whatever happened to the
\* ingestions; one request at a time.
ActiveTextReviewed ==
    [][(\E r \in Releases : Activates(r)) /\ ~overlap
         => \A s \in Statutes : Reviewed(s)]_<<legalVars, overlap>>

\* One request at a time, at most one release of a pack is active, and it is the
\* one that the pack names (activate_pack_release retires what it read as active).
OneActiveRelease ==
    ~overlap => ActiveReleases \subseteq {active_release_version}
=============================================================================
