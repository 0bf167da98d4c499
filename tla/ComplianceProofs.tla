-------------------------- MODULE ComplianceProofs --------------------------
(***************************************************************************)
(* Legal data feeds and releases, legal holds and deletions, and the       *)
(* conflict gate of new clients, for any number of records and requests.   *)
(***************************************************************************)
EXTENDS LegalData, LegalHolds, Intake, TLAPS

-----------------------------------------------------------------------------
(* The amendment events and the releases of a governed corpus, for any     *)
(* statutes, manifests, overlapping ingestions, direct imports and         *)
(* managers.                                                               *)
(*                                                                         *)
(* An ingestion owns its run, so what its commits write there cannot undo  *)
(* the events of another one (Slots).  A release is activated from what a  *)
(* request read; when requests do not overlap that is still so at its      *)
(* commit (Decides).                                                       *)

AnyManifest == [text : [Statutes -> Texts \cup {None}], bad : BOOLEAN]

Call == [step : {"idle", "open", "captured"}, run : RunIds \cup {0},
         manifest : Manifests \cup {NoManifest}, todo : SUBSET Statutes,
         on : Statutes \cup {None}, before : Texts \cup {None}, row : Texts \cup {None},
         events : SUBSET Statutes]

Blank == \A n \in RunIds : runs[n].status = "absent" => runs[n] = NoRun

Slot(i) ==
    /\ ingestion[i].step = "idle" => ingestion[i] = NoIngestion
    /\ ingestion[i].step # "idle" =>
          ingestion[i].run \in RunIds /\ runs[ingestion[i].run].manifest \in {NoManifest, ingestion[i].manifest}
    /\ ingestion[i].step = "captured" =>
          /\ ingestion[i].on \in Statutes
          /\ ingestion[i].before # None => ingestion[i].row = ingestion[i].before
Slots ==
    /\ \A i \in Ingestions : Slot(i)
    /\ \A i, j \in Ingestions : i # j /\ ingestion[i].run # 0 => ingestion[i].run # ingestion[j].run

\* A direct import is of a statute.
Imports == \A c \in Importers : importing[c] # NoImport => importing[c].on \in Statutes

\* What a request that activates has read, while nothing else is open.
Decides(d) ==
    desk[d] # NoDecision =>
        /\ desk[d].on \in Releases
        /\ desk[d].previous = ActiveReleases \ {desk[d].on}
        /\ desk[d].loaded = release[desk[d].on]
        /\ Quiescent
        /\ \A e \in Managers \ {d} : desk[e] = NoDecision
        /\ \A s \in Statutes \ untracked : Reviewed(s)

LegalInv ==
    /\ LegalDataTypeOK
    /\ overlap \in BOOLEAN
    /\ Blank
    /\ Slots
    /\ Imports
    /\ ChangeIsRecorded
    /\ OneActiveRelease
    /\ ~overlap => \A d \in Managers : Decides(d)

-----------------------------------------------------------------------------
\* A manifest that an ingestion may have gives every statute a text or none.
LEMMA ManifestType == Manifests \cup {NoManifest} \subseteq AnyManifest
<1>1. NoManifest \in AnyManifest
  BY DEF AnyManifest, NoManifest, Empty
<1> QED
  BY <1>1, LegalDataAssumption DEF LegalDataAssumption, AnyManifest

\* Nothing was ingested, reviewed or activated yet (LegalDataInit).
LEMMA LegalStart == SessionsInit /\ LegalDataInit => LegalInv
<1> SUFFICES ASSUME SessionsInit, LegalDataInit PROVE LegalInv
  OBVIOUS
<1> USE LegalDataAssumption DEF LegalDataAssumption, SessionsInit, LegalDataInit
<1>1. LegalDataTypeOK
  BY DEF LegalDataTypeOK, Empty, NoRun, NoIngestion, NoImport, NoDecision, NoManifest,
         RunStatuses, ReleaseStatuses
<1>2. Blank /\ Slots /\ Imports
  BY DEF Blank, Slots, Slot, Imports, NoIngestion
<1>3. ChangeIsRecorded /\ OneActiveRelease
  BY DEF ChangeIsRecorded, OneActiveRelease, ActiveReleases, Empty
<1>4. \A d \in Managers : Decides(d)
  BY DEF Decides
<1> QED
  BY <1>1, <1>2, <1>3, <1>4 DEF LegalInv

-----------------------------------------------------------------------------
\* A commit of an ingestion writes its own run: every text that is recorded by a run
\* or by this ingestion is then recorded by a run, the others as before (import_statute
\* and the last commit of ingest_manifest).
LEMMA CommitKeeps ==
    ASSUME LegalInv, NEW i \in Ingestions, ingestion[i].step # "idle", NEW status,
           runs' = [runs EXCEPT ![ingestion[i].run] = [status |-> status,
                        manifest |-> ingestion[i].manifest, event |-> Recorded(i)]],
           NEW t \in Statutes \ untracked, corpus[t] # None
    PROVE  \/ \E n \in RunIds : runs'[n].manifest.text[t] = corpus[t] /\ runs'[n].event[t] # None
           \/ \E j \in Ingestions \ {i} : Recording(j, t)
<1> DEFINE r == ingestion[i].run
<1>1. r \in RunIds /\ runs[r].manifest \in {NoManifest, ingestion[i].manifest}
  BY DEF LegalInv, Slots, Slot
<1>2. /\ runs'[r].manifest = ingestion[i].manifest
      /\ runs'[r].event[t] = IF t \in ingestion[i].events THEN "pending" ELSE runs[r].event[t]
      /\ \A n \in RunIds \ {r} : runs'[n] = runs[n]
  BY <1>1 DEF LegalInv, LegalDataTypeOK, Recorded
<1>3. CASE \E n \in RunIds : Says(n, t)
  <2>1. PICK n \in RunIds : Says(n, t)
    BY <1>3
  <2>2. CASE n = r
    <3>1. runs[r].manifest # NoManifest
      BY <2>1, <2>2 DEF Says, NoManifest, Empty
    <3>2. runs'[r].event[t] # None
      BY <1>2, <2>1, <2>2, LegalDataAssumption DEF Says, LegalDataAssumption, ReviewStatuses
    <3> QED
      BY <1>1, <1>2, <2>1, <2>2, <3>1, <3>2 DEF Says
  <2>3. CASE n # r
    BY <1>2, <2>1, <2>3 DEF Says
  <2> QED
    BY <2>2, <2>3
<1>4. CASE \E j \in Ingestions : Recording(j, t)
  <2>1. CASE Recording(i, t)
    <3>1. runs'[r].event[t] # None
      BY <1>2, <2>1, LegalDataAssumption DEF Recording, LegalDataAssumption, ReviewStatuses
    <3> QED
      BY <1>1, <1>2, <2>1, <3>1 DEF Recording
  <2>2. CASE ~Recording(i, t)
    BY <1>4, <2>2
  <2> QED
    BY <2>1, <2>2
<1> QED
  BY <1>3, <1>4 DEF LegalInv, ChangeIsRecorded, Tracked

-----------------------------------------------------------------------------
\* An ingestion that was not open is (ingest_manifest).
LEMMA Started ==
    ASSUME LegalInv, NEW i \in Ingestions, NEW mf \in Manifests, NEW n \in RunIds,
           ingest_manifest(i, mf, n)
    PROVE  /\ ingestion' \in [Ingestions -> Call]
           /\ ingestion'[i].step = "open" /\ ingestion'[i].run = n /\ ingestion'[i].manifest = mf
           /\ \A j \in Ingestions \ {i} : ingestion'[j] = ingestion[j]
<1> DEFINE g == [NoIngestion EXCEPT !.step = "open", !.run = n, !.manifest = mf, !.todo = InManifest(mf)]
<1>1. ingestion \in [Ingestions -> Call] /\ ingestion' = [ingestion EXCEPT ![i] = g]
  BY DEF ingest_manifest, LegalInv, LegalDataTypeOK, Call
<1>2. g \in Call /\ g.step = "open" /\ g.run = n /\ g.manifest = mf
  BY DEF NoIngestion, Call, InManifest
<1> HIDE DEF g
<1> QED
  BY <1>1, <1>2

\* An open ingestion has captured what a statute says (_capture_provisions).
LEMMA Captured ==
    ASSUME LegalInv, NEW i \in Ingestions, NEW s \in Statutes, CaptureBefore(i, s)
    PROVE  /\ ingestion' \in [Ingestions -> Call]
           /\ ingestion'[i].step = "captured" /\ ingestion'[i].on = s
           /\ ingestion'[i].row = ingestion'[i].before
           /\ ingestion'[i].run = ingestion[i].run /\ ingestion'[i].manifest = ingestion[i].manifest
           /\ ingestion'[i].events = ingestion[i].events
           /\ \A j \in Ingestions \ {i} : ingestion'[j] = ingestion[j]
<1>1. ingestion \in [Ingestions -> Call] /\ corpus[s] \in Texts \cup {None}
  BY DEF LegalInv, LegalDataTypeOK, Call
<1>2. PICK old \in Call : old = ingestion[i]
  BY <1>1
<1> DEFINE g == [old EXCEPT !.step = "captured", !.on = s, !.before = corpus[s],
                            !.row = corpus[s]]
<1>3. ingestion' = [ingestion EXCEPT ![i] = g]
  BY <1>2 DEF CaptureBefore
<1>4. /\ g \in Call /\ g.step = "captured" /\ g.on = s /\ g.row = g.before
      /\ g.run = old.run /\ g.manifest = old.manifest /\ g.events = old.events
  BY <1>1, <1>2 DEF Call
<1> HIDE DEF g
<1> QED
  BY <1>1, <1>2, <1>3, <1>4

\* An ingestion has loaded a statute that it had not captured (import_statute).
LEMMA Selected ==
    ASSUME LegalInv, NEW i \in Ingestions, SelectAgain(i)
    PROVE  /\ ingestion' \in [Ingestions -> Call]
           /\ ingestion'[i].step = "captured" /\ ingestion'[i].before = None
           /\ ingestion'[i].on = ingestion[i].on
           /\ ingestion'[i].run = ingestion[i].run /\ ingestion'[i].manifest = ingestion[i].manifest
           /\ ingestion'[i].events = ingestion[i].events
           /\ \A j \in Ingestions \ {i} : ingestion'[j] = ingestion[j]
<1>1. ingestion \in [Ingestions -> Call]
  BY DEF LegalInv, LegalDataTypeOK, Call
<1>2. PICK old \in Call : old = ingestion[i]
  BY <1>1
<1>3. old.on \in Statutes /\ old.before = None /\ old.step = "captured"
  BY <1>2 DEF SelectAgain, LegalInv, Slots, Slot
<1>4. PICK row \in Texts \cup {None} : row = corpus[old.on]
  BY <1>3 DEF LegalInv, LegalDataTypeOK
<1> DEFINE g == [old EXCEPT !.row = row]
<1>5. ingestion' = [ingestion EXCEPT ![i] = g]
  BY <1>2, <1>4 DEF SelectAgain
<1>6. /\ g \in Call /\ g.step = old.step /\ g.before = old.before /\ g.on = old.on
      /\ g.run = old.run /\ g.manifest = old.manifest /\ g.events = old.events
  BY <1>4 DEF Call
<1> HIDE DEF g
<1> QED
  BY <1>1, <1>2, <1>3, <1>5, <1>6

\* An ingestion has imported the statute that it captured, and keeps the event
\* (import_statute, _record_statute_amendments).
LEMMA Imported ==
    ASSUME LegalInv, NEW i \in Ingestions, ImportStatute(i)
    PROVE  /\ ingestion' \in [Ingestions -> Call]
           /\ ingestion'[i].step = "open"
           /\ ingestion'[i].run = ingestion[i].run /\ ingestion'[i].manifest = ingestion[i].manifest
           /\ ingestion'[i].events = _record_statute_amendments(i)
           /\ \A j \in Ingestions \ {i} : ingestion'[j] = ingestion[j]
<1>1. ingestion \in [Ingestions -> Call]
  BY DEF LegalInv, LegalDataTypeOK, Call
<1>2. PICK old \in Call : old = ingestion[i]
  BY <1>1
<1>3. PICK events \in SUBSET Statutes : events = _record_statute_amendments(i)
  BY DEF ImportStatute, LegalInv, Slots, Slot, _record_statute_amendments
<1> DEFINE g == [old EXCEPT !.step = "open", !.todo = @ \ {old.on}, !.on = None,
                            !.before = None, !.row = None, !.events = events]
<1>4. ingestion' = [ingestion EXCEPT ![i] = g]
  BY <1>2, <1>3 DEF ImportStatute
<1>5. /\ g \in Call /\ g.step = "open" /\ g.run = old.run /\ g.manifest = old.manifest
      /\ g.events = events
  BY <1>3 DEF Call
<1> HIDE DEF g
<1> QED
  BY <1>1, <1>2, <1>3, <1>4, <1>5

-----------------------------------------------------------------------------
\* Every step keeps the rows and the open requests what they are.
LEMMA TypeKept == LegalInv /\ LegalDataNext => LegalDataTypeOK'
<1> SUFFICES ASSUME LegalInv, LegalDataNext PROVE LegalDataTypeOK'
  OBVIOUS
<1> USE DEF LegalInv, LegalDataTypeOK
<1>1. ASSUME NEW i \in Ingestions, NEW mf \in Manifests, NEW n \in RunIds, ingest_manifest(i, mf, n)
      PROVE  LegalDataTypeOK'
  BY <1>1, Started DEF ingest_manifest, importVars, packVars, Call
<1>2. ASSUME NEW i \in Ingestions, NEW s \in Statutes, CaptureBefore(i, s)
      PROVE  LegalDataTypeOK'
  BY <1>2, Captured DEF CaptureBefore, importVars, packVars, Call
<1>3. ASSUME NEW i \in Ingestions, ImportStatute(i)
      PROVE  LegalDataTypeOK'
  <2>1. ingestion[i].on \in Statutes /\ ingestion[i].run \in RunIds
    BY <1>3 DEF ImportStatute, Slots, Slot
  <2>2. ingestion[i].manifest.text[ingestion[i].on] \in Texts \cup {None}
    <3>1. ingestion[i].manifest \in AnyManifest
      BY ManifestType
    <3> QED
      BY <2>1, <3>1 DEF AnyManifest
  <2>3. corpus' \in [Statutes -> Texts \cup {None}]
    BY <1>3, <2>1, <2>2 DEF ImportStatute, Written
  <2>4. Recorded(i) \in [Statutes -> ReviewStatuses \cup {None}]
    BY <2>1 DEF Recorded, ReviewStatuses
  <2>5. runs' \in [RunIds -> [status : RunStatuses, manifest : Manifests \cup {NoManifest},
                             event : [Statutes -> ReviewStatuses \cup {None}]]]
    BY <1>3, <2>4 DEF ImportStatute, RunStatuses
  <2> QED
    BY <1>3, <2>3, <2>5, Imported DEF ImportStatute, packVars, Call, importVars
<1>4. ASSUME NEW i \in Ingestions, ImportRefused(i) \/ IngestionCrashes(i)
      PROVE  LegalDataTypeOK'
  <2>1. ingestion' = [ingestion EXCEPT ![i] = NoIngestion] /\ NoIngestion \in Call
    BY <1>4 DEF ImportRefused, IngestionCrashes, CutShort, NoIngestion, Call
  <2> QED
    BY <1>4, <2>1 DEF ImportRefused, IngestionCrashes, CutShort, packVars, Call
<1>5. ASSUME NEW i \in Ingestions, FinishIngestion(i)
      PROVE  LegalDataTypeOK'
  <2>1. ingestion[i].run \in RunIds
    BY <1>5 DEF FinishIngestion, Slots, Slot
  <2>2. Recorded(i) \in [Statutes -> ReviewStatuses \cup {None}]
    BY <2>1 DEF Recorded, ReviewStatuses
  <2>3. Outcome(ingestion[i].manifest) \in RunStatuses
    BY DEF Outcome, RunStatuses
  <2>4. runs' \in [RunIds -> [status : RunStatuses, manifest : Manifests \cup {NoManifest},
                             event : [Statutes -> ReviewStatuses \cup {None}]]]
    BY <1>5, <2>2, <2>3 DEF FinishIngestion
  <2> QED
    BY <1>5, <2>4 DEF FinishIngestion, importVars, packVars, NoIngestion
<1>6. CASE FeedBecomesStale
  BY <1>6 DEF FeedBecomesStale, importVars, packVars
<1>7. ASSUME NEW n \in RunIds, NEW s \in Statutes, NEW status \in ReviewStatuses,
             review_amendment(n, s, status)
      PROVE  LegalDataTypeOK'
  <2>1. runs' \in [RunIds -> [status : RunStatuses, manifest : Manifests \cup {NoManifest},
                             event : [Statutes -> ReviewStatuses \cup {None}]]]
    BY <1>7 DEF review_amendment
  <2> QED
    BY <1>7, <2>1 DEF review_amendment, importVars, packVars
<1>8. ASSUME NEW d \in Managers, NEW r \in Releases, ActivationRead(d, r)
      PROVE  LegalDataTypeOK'
  BY <1>8 DEF ActivationRead, ingestVars, importVars, Previous, ActiveReleases
<1>9. ASSUME NEW d \in Managers, ActivationCommit(d)
      PROVE  LegalDataTypeOK'
  <2>1. desk[d].on \in Releases \cup {None}
    OBVIOUS
  <2> QED
    BY <1>9, <2>1 DEF ActivationCommit, ingestVars, importVars, NoDecision, ReleaseStatuses, Written
<1>10. ASSUME NEW i \in Ingestions, SelectAgain(i)
       PROVE  LegalDataTypeOK'
  BY <1>10, Selected DEF SelectAgain, importVars, packVars, Call
<1>11. ASSUME NEW c \in Importers, NEW s \in Statutes, NEW text \in Texts, DirectImportRead(c, s, text)
       PROVE  LegalDataTypeOK'
  BY <1>11 DEF DirectImportRead, packVars
<1>12. ASSUME NEW c \in Importers, DirectImportCommit(c)
       PROVE  LegalDataTypeOK'
  <2>1. importing[c].on \in Statutes
    BY <1>12 DEF DirectImportCommit, Imports
  <2>2. importing[c].text \in Texts \cup {None}
    OBVIOUS
  <2> QED
    BY <1>12, <2>1, <2>2 DEF DirectImportCommit, packVars, NoImport, Written
<1> QED
  BY <1>1, <1>2, <1>3, <1>4, <1>5, <1>6, <1>7, <1>8, <1>9, <1>10, <1>11, <1>12 DEF LegalDataNext

-----------------------------------------------------------------------------
\* An ingestion that ends is not open, and touches no other one.
LEMMA Ended ==
    ASSUME LegalInv, NEW i \in Ingestions, ingestion' = [ingestion EXCEPT ![i] = NoIngestion]
    PROVE  /\ ingestion'[i] = NoIngestion /\ ingestion'[i].run = 0 /\ ingestion'[i].step = "idle"
           /\ \A j \in Ingestions \ {i} : ingestion'[j] = ingestion[j]
  BY DEF LegalInv, LegalDataTypeOK, NoIngestion

\* A commit of an ingestion leaves its manifest in its run and the other runs alone.
LEMMA Committed ==
    ASSUME LegalInv, NEW i \in Ingestions, ingestion[i].step # "idle", NEW status,
           NEW event,
           runs' = [runs EXCEPT ![ingestion[i].run] = [status |-> status,
                        manifest |-> ingestion[i].manifest, event |-> event]]
    PROVE  /\ ingestion[i].run \in RunIds
           /\ runs'[ingestion[i].run].manifest = ingestion[i].manifest
           /\ runs'[ingestion[i].run].status = status
           /\ \A n \in RunIds : n # ingestion[i].run => runs'[n] = runs[n]
  BY DEF LegalInv, LegalDataTypeOK, Slots, Slot

\* Runs without a row are blank, and no two open ingestions share a run.
LEMMA SlotsKept == LegalInv /\ LegalDataNext => (Blank /\ Slots)'
<1> SUFFICES ASSUME LegalInv, LegalDataNext PROVE (Blank /\ Slots)'
  OBVIOUS
<1>0. /\ Blank /\ Slots
      /\ \A n \in RunIds : runs[n].status = "absent" => runs[n] = NoRun
  BY DEF LegalInv, Blank
<1>1. ASSUME NEW i \in Ingestions, NEW mf \in Manifests, NEW n \in RunIds, ingest_manifest(i, mf, n)
      PROVE  (Blank /\ Slots)'
  <2>1. runs[n].manifest = NoManifest /\ \A j \in Ingestions : ingestion[j].run # n
    BY <1>0, <1>1 DEF ingest_manifest, Unused, NoRun
  <2>2. runs' = runs /\ n # 0
    BY <1>1 DEF ingest_manifest, RunIds
  <2> QED
    BY <1>0, <1>1, <2>1, <2>2, Started DEF Blank, Slots, Slot
<1>2. ASSUME NEW i \in Ingestions, NEW s \in Statutes, CaptureBefore(i, s)
      PROVE  (Blank /\ Slots)'
  <2>1. ingestion[i].step = "open" /\ runs' = runs
    BY <1>2 DEF CaptureBefore
  <2> QED
    BY <1>0, <1>2, <2>1, Captured DEF Blank, Slots, Slot
<1>3. ASSUME NEW i \in Ingestions, ImportStatute(i)
      PROVE  (Blank /\ Slots)'
  <2>1. ingestion[i].step = "captured"
        /\ runs' = [runs EXCEPT ![ingestion[i].run] = [status |-> "running",
                        manifest |-> ingestion[i].manifest, event |-> Recorded(i)]]
    BY <1>3 DEF ImportStatute
  <2>2. /\ ingestion[i].run \in RunIds
        /\ runs'[ingestion[i].run].manifest = ingestion[i].manifest
        /\ runs'[ingestion[i].run].status = "running"
        /\ \A n \in RunIds : n # ingestion[i].run => runs'[n] = runs[n]
    BY <2>1, Committed
  <2>3. Blank'
    BY <1>0, <2>2 DEF Blank
  <2>4. ingestion[i].run # 0
    BY <2>2 DEF RunIds
  <2>5. Slots'
    BY <1>0, <1>3, <2>1, <2>2, <2>4, Imported DEF Slots, Slot
  <2> QED
    BY <2>3, <2>5
<1>4. ASSUME NEW i \in Ingestions, ImportRefused(i) \/ IngestionCrashes(i)
      PROVE  (Blank /\ Slots)'
  <2>1. ingestion' = [ingestion EXCEPT ![i] = NoIngestion] /\ runs' = runs
    BY <1>4 DEF ImportRefused, IngestionCrashes, CutShort
  <2>2. ASSUME NEW j \in Ingestions PROVE Slot(j)'
    <3>1. CASE j = i
      BY <2>1, <3>1, Ended DEF Slot
    <3>2. CASE j # i
      BY <1>0, <2>1, <3>2, Ended DEF Slots, Slot
    <3> QED
      BY <3>1, <3>2
  <2>3. ingestion'[i].run = 0 /\ \A j \in Ingestions \ {i} : ingestion'[j] = ingestion[j]
    BY <2>1, Ended
  <2>4. \A j, k \in Ingestions : j # k /\ ingestion'[j].run # 0 => ingestion'[j].run # ingestion'[k].run
    <3>1. SUFFICES ASSUME NEW j \in Ingestions, NEW k \in Ingestions, j # k, ingestion'[j].run # 0
                   PROVE  ingestion'[j].run # ingestion'[k].run
      OBVIOUS
    <3>2. j # i /\ ingestion'[j] = ingestion[j] /\ ingestion[j].run # ingestion[k].run
      BY <1>0, <2>3, <3>1 DEF Slots
    <3> QED
      BY <2>3, <3>1, <3>2
  <2> QED
    BY <1>0, <2>1, <2>2, <2>4 DEF Blank, Slots
<1>5. ASSUME NEW i \in Ingestions, FinishIngestion(i)
      PROVE  (Blank /\ Slots)'
  <2>1. /\ ingestion[i].step = "open" /\ ingestion' = [ingestion EXCEPT ![i] = NoIngestion]
        /\ runs' = [runs EXCEPT ![ingestion[i].run] = [status |-> Outcome(ingestion[i].manifest),
                        manifest |-> ingestion[i].manifest, event |-> Recorded(i)]]
    BY <1>5 DEF FinishIngestion
  <2>2. /\ ingestion[i].run \in RunIds
        /\ runs'[ingestion[i].run].status = Outcome(ingestion[i].manifest)
        /\ \A n \in RunIds : n # ingestion[i].run => runs'[n] = runs[n]
    BY <2>1, Committed
  <2>3. Blank'
    BY <1>0, <2>2 DEF Blank, Outcome
  <2>4. ingestion[i].run # 0
    BY <2>2 DEF RunIds
  <2>5. \A j \in Ingestions : Slot(j)'
    <3> SUFFICES ASSUME NEW j \in Ingestions, j # i PROVE Slot(j)'
      BY <2>1, Ended DEF Slot
    <3>1. ingestion'[j] = ingestion[j] /\ ingestion[i].run # ingestion[j].run /\ Slot(j)
      BY <1>0, <2>1, <2>4, Ended DEF Slots
    <3> QED
      BY <2>2, <3>1 DEF Slot
  <2>6. ingestion'[i].run = 0 /\ \A j \in Ingestions \ {i} : ingestion'[j] = ingestion[j]
    BY <2>1, Ended
  <2>7. \A j, k \in Ingestions : j # k /\ ingestion'[j].run # 0 => ingestion'[j].run # ingestion'[k].run
    <3>1. SUFFICES ASSUME NEW j \in Ingestions, NEW k \in Ingestions, j # k, ingestion'[j].run # 0
                   PROVE  ingestion'[j].run # ingestion'[k].run
      OBVIOUS
    <3>2. j # i /\ ingestion'[j] = ingestion[j] /\ ingestion[j].run # ingestion[k].run
      BY <1>0, <2>6, <3>1 DEF Slots
    <3> QED
      BY <2>6, <3>1, <3>2
  <2> QED
    BY <2>3, <2>5, <2>7 DEF Slots
<1>6. ASSUME NEW n \in RunIds, NEW s \in Statutes, NEW status \in ReviewStatuses,
             review_amendment(n, s, status)
      PROVE  (Blank /\ Slots)'
  <2>1. ingestion' = ingestion /\ runs' = [runs EXCEPT ![n].event[s] = status] /\ runs[n].event[s] # None
    BY <1>6 DEF review_amendment
  <2>2. runs[n].status # "absent"
    BY <1>0, <2>1 DEF NoRun, Empty
  <2>3. \A k \in RunIds : /\ runs'[k].status = runs[k].status /\ runs'[k].manifest = runs[k].manifest
                          /\ k # n => runs'[k] = runs[k]
    BY <2>1 DEF LegalInv, LegalDataTypeOK
  <2> QED
    BY <1>0, <2>1, <2>2, <2>3 DEF Blank, Slots, Slot
<1>7. CASE UNCHANGED <<runs, ingestion>>
  BY <1>0, <1>7 DEF Blank, Slots, Slot
<1>8. ASSUME NEW i \in Ingestions, SelectAgain(i)
      PROVE  (Blank /\ Slots)'
  <2>1. ingestion[i].step = "captured" /\ runs' = runs
    BY <1>8 DEF SelectAgain
  <2> QED
    BY <1>0, <1>8, <2>1, Selected DEF Blank, Slots, Slot
<1> QED
  BY <1>1, <1>2, <1>3, <1>4, <1>5, <1>6, <1>7, <1>8
     DEF LegalDataNext, FeedBecomesStale, ActivationRead, ActivationCommit, ingestVars,
         DirectImportRead, DirectImportCommit

\* Direct imports are read from a statute and closed (import_statute).
LEMMA ImportsKept == LegalInv /\ LegalDataNext => Imports'
<1> SUFFICES ASSUME LegalInv, LegalDataNext PROVE Imports'
  OBVIOUS
<1>0. Imports
  BY DEF LegalInv
<1>1. ASSUME NEW c \in Importers, NEW s \in Statutes, NEW text \in Texts, DirectImportRead(c, s, text)
      PROVE  Imports'
  BY <1>0, <1>1 DEF Imports, DirectImportRead, LegalInv, LegalDataTypeOK
<1>2. ASSUME NEW c \in Importers, DirectImportCommit(c)
      PROVE  Imports'
  BY <1>0, <1>2 DEF Imports, DirectImportCommit, LegalInv, LegalDataTypeOK
<1>3. CASE UNCHANGED importing
  BY <1>0, <1>3 DEF Imports
<1> QED
  BY <1>1, <1>2, <1>3
     DEF LegalDataNext, ingest_manifest, CaptureBefore, SelectAgain, ImportStatute, ImportRefused,
         IngestionCrashes, CutShort, FinishIngestion, FeedBecomesStale, review_amendment,
         ActivationRead, ActivationCommit, ingestVars, importVars

-----------------------------------------------------------------------------
\* No step loses the record of a tracked change.
LEMMA ChangeKept == LegalInv /\ LegalDataNext => ChangeIsRecorded'
<1> SUFFICES ASSUME LegalInv, LegalDataNext,
                    NEW t \in Statutes, t \notin untracked', corpus'[t] # None
             PROVE  \/ \E n \in RunIds : Says(n, t)'
                    \/ \E j \in Ingestions : Recording(j, t)'
  BY DEF ChangeIsRecorded, Tracked
<1>0. ASSUME t \notin untracked, corpus[t] # None
      PROVE  (\E n \in RunIds : Says(n, t)) \/ (\E j \in Ingestions : Recording(j, t))
  BY <1>0 DEF LegalInv, ChangeIsRecorded, Tracked
<1>1. ASSUME NEW i \in Ingestions, NEW mf \in Manifests, NEW n \in RunIds, ingest_manifest(i, mf, n)
      PROVE  (\E k \in RunIds : Says(k, t)') \/ (\E j \in Ingestions : Recording(j, t)')
  <2>1. ingestion[i].events = {} /\ UNCHANGED <<corpus, runs, untracked>>
    BY <1>1 DEF ingest_manifest, NoIngestion, importVars
  <2> QED
    BY <1>0, <1>1, <2>1, Started DEF Says, Recording
<1>2. ASSUME NEW i \in Ingestions, NEW s \in Statutes, CaptureBefore(i, s)
      PROVE  (\E k \in RunIds : Says(k, t)') \/ (\E j \in Ingestions : Recording(j, t)')
  <2>1. UNCHANGED <<corpus, runs, untracked>>
    BY <1>2 DEF CaptureBefore, importVars
  <2>2. \A j \in Ingestions : Recording(j, t) => Recording(j, t)'
    BY <1>2, <2>1, Captured DEF Recording
  <2> QED
    BY <1>0, <2>1, <2>2 DEF Says
<1>3. ASSUME NEW i \in Ingestions, ImportStatute(i)
      PROVE  (\E k \in RunIds : Says(k, t)') \/ (\E j \in Ingestions : Recording(j, t)')
  <2> DEFINE s == ingestion[i].on
             text == ingestion[i].manifest.text[s]
  <2>1. /\ ingestion[i].step = "captured"
        /\ corpus' = [corpus EXCEPT ![s] = Written(text, ingestion[i].row, @)]
        /\ runs' = [runs EXCEPT ![ingestion[i].run] = [status |-> "running",
                        manifest |-> ingestion[i].manifest, event |-> Recorded(i)]]
        /\ untracked' = untracked \ {u \in _record_statute_amendments(i) : corpus'[u] = text}
    BY <1>3 DEF ImportStatute
  <2>2. s \in Statutes /\ (ingestion[i].before # None => ingestion[i].row = ingestion[i].before)
    BY <2>1 DEF LegalInv, Slots, Slot
  <2>3. CASE t \in _record_statute_amendments(i) /\ corpus'[t] = text
    <3>1. t = s /\ t \in ingestion'[i].events /\ ingestion'[i].manifest = ingestion[i].manifest
      BY <1>3, <2>3, Imported DEF _record_statute_amendments
    <3> QED
      BY <2>3, <3>1 DEF Recording
  <2>4. CASE ~(t \in _record_statute_amendments(i) /\ corpus'[t] = text)
    <3>1. t \notin untracked
      BY <2>1, <2>4
    <3>2. corpus'[t] = corpus[t]
      <4>1. CASE t # s
        BY <2>1, <2>2, <4>1 DEF LegalInv, LegalDataTypeOK
      <4>2. CASE t = s
        <5>1. corpus'[t] = Written(text, ingestion[i].row, corpus[t])
          BY <2>1, <2>2, <4>2 DEF LegalInv, LegalDataTypeOK
        <5>2. CASE ingestion[i].before = text
          BY <2>2, <5>1, <5>2 DEF Written
        <5>3. CASE ingestion[i].before # text
          BY <2>4, <4>2, <5>1, <5>3 DEF _record_statute_amendments, Written
        <5> QED
          BY <5>2, <5>3
      <4> QED
        BY <4>1, <4>2
    <3>3. \/ \E n \in RunIds : runs'[n].manifest.text[t] = corpus[t] /\ runs'[n].event[t] # None
          \/ \E j \in Ingestions \ {i} : Recording(j, t)
      BY <2>1, <3>1, <3>2, CommitKeeps
    <3>4. \A j \in Ingestions \ {i} : Recording(j, t) => Recording(j, t)'
      BY <1>3, <3>2, Imported DEF Recording
    <3> QED
      BY <3>2, <3>3, <3>4 DEF Says
  <2> QED
    BY <2>3, <2>4
<1>4. ASSUME NEW i \in Ingestions, FinishIngestion(i)
      PROVE  (\E k \in RunIds : Says(k, t)') \/ (\E j \in Ingestions : Recording(j, t)')
  <2>1. /\ ingestion[i].step = "open" /\ UNCHANGED <<corpus, untracked>>
        /\ ingestion' = [ingestion EXCEPT ![i] = NoIngestion]
        /\ runs' = [runs EXCEPT ![ingestion[i].run] = [status |-> Outcome(ingestion[i].manifest),
                        manifest |-> ingestion[i].manifest, event |-> Recorded(i)]]
    BY <1>4 DEF FinishIngestion, importVars
  <2>2. \/ \E n \in RunIds : runs'[n].manifest.text[t] = corpus[t] /\ runs'[n].event[t] # None
        \/ \E j \in Ingestions \ {i} : Recording(j, t)
    BY <2>1, CommitKeeps
  <2>3. \A j \in Ingestions \ {i} : Recording(j, t) => Recording(j, t)'
    BY <2>1, Ended DEF Recording
  <2> QED
    BY <2>1, <2>2, <2>3 DEF Says
<1>5. ASSUME NEW i \in Ingestions, ImportRefused(i) \/ IngestionCrashes(i)
      PROVE  (\E k \in RunIds : Says(k, t)') \/ (\E j \in Ingestions : Recording(j, t)')
  <2>1. /\ ingestion' = [ingestion EXCEPT ![i] = NoIngestion] /\ UNCHANGED <<corpus, runs>>
        /\ untracked' = untracked \cup {s \in Statutes : Recording(i, s)}
    BY <1>5 DEF ImportRefused, IngestionCrashes, CutShort
  <2>2. t \notin untracked /\ ~Recording(i, t)
    BY <2>1
  <2>3. \A j \in Ingestions \ {i} : Recording(j, t) => Recording(j, t)'
    BY <2>1, Ended DEF Recording
  <2> QED
    BY <1>0, <2>1, <2>2, <2>3 DEF Says
<1>6. ASSUME NEW n \in RunIds, NEW s \in Statutes, NEW status \in ReviewStatuses,
             review_amendment(n, s, status)
      PROVE  (\E k \in RunIds : Says(k, t)') \/ (\E j \in Ingestions : Recording(j, t)')
  <2>1. UNCHANGED <<corpus, ingestion, untracked>> /\ runs' = [runs EXCEPT ![n].event[s] = status]
    BY <1>6 DEF review_amendment, importVars
  <2>2. \A k \in RunIds : /\ runs'[k].manifest = runs[k].manifest
                          /\ runs[k].event[t] # None => runs'[k].event[t] # None
    BY <2>1, LegalDataAssumption DEF LegalInv, LegalDataTypeOK, LegalDataAssumption
  <2> QED
    BY <1>0, <2>1, <2>2 DEF Says, Recording
<1>7. ASSUME NEW i \in Ingestions, SelectAgain(i)
      PROVE  (\E k \in RunIds : Says(k, t)') \/ (\E j \in Ingestions : Recording(j, t)')
  <2>1. UNCHANGED <<corpus, runs, untracked>>
    BY <1>7 DEF SelectAgain, importVars
  <2>2. \A j \in Ingestions : Recording(j, t) => Recording(j, t)'
    BY <1>7, <2>1, Selected DEF Recording
  <2> QED
    BY <1>0, <2>1, <2>2 DEF Says
<1>8. ASSUME NEW c \in Importers, DirectImportCommit(c)
      PROVE  (\E k \in RunIds : Says(k, t)') \/ (\E j \in Ingestions : Recording(j, t)')
  <2>1. /\ importing[c].on \in Statutes /\ UNCHANGED <<runs, ingestion>>
        /\ untracked' = untracked \cup {s \in {importing[c].on} : corpus'[s] # corpus[s]}
        /\ \A s \in Statutes \ {importing[c].on} : corpus'[s] = corpus[s]
    BY <1>8 DEF DirectImportCommit, LegalInv, LegalDataTypeOK, Imports
  <2>2. t \notin untracked /\ corpus'[t] = corpus[t]
    BY <2>1
  <2> QED
    BY <1>0, <2>1, <2>2 DEF Says, Recording
<1>9. CASE UNCHANGED <<corpus, runs, ingestion, untracked>>
  BY <1>0, <1>9 DEF Says, Recording
<1> QED
  BY <1>1, <1>2, <1>3, <1>4, <1>5, <1>6, <1>7, <1>8, <1>9
     DEF LegalDataNext, FeedBecomesStale, ActivationRead, ActivationCommit, DirectImportRead,
         ingestVars, importVars

-----------------------------------------------------------------------------
\* What a request read about the releases holds until its commit, if no other request
\* is open: the release it activates is the only active one (activate_pack_release).
LEMMA DesksKept ==
    LegalInv /\ LegalDataNext => (OneActiveRelease /\ (~overlap => \A d \in Managers : Decides(d)))'
<1> SUFFICES ASSUME LegalInv, LegalDataNext, ~overlap'
             PROVE  (ActiveReleases \subseteq {active_release_version})' /\ \A d \in Managers : Decides(d)'
  BY DEF OneActiveRelease
<1>0. /\ ~overlap
      /\ ActiveReleases \subseteq {active_release_version}
      /\ \A d \in Managers : Decides(d)
  BY DEF LegalInv, OneActiveRelease, LegalDataNext, ingest_manifest, CaptureBefore, SelectAgain,
         ImportStatute, ImportRefused, FinishIngestion, IngestionCrashes, CutShort,
         DirectImportRead, DirectImportCommit, FeedBecomesStale, review_amendment,
         ActivationRead, ActivationCommit
<1>1. ASSUME NobodyDecides, UNCHANGED packVars
      PROVE  (ActiveReleases \subseteq {active_release_version})' /\ \A d \in Managers : Decides(d)'
  BY <1>0, <1>1 DEF NobodyDecides, packVars, Decides, ActiveReleases
<1>2. ASSUME NEW i \in Ingestions, ingestion[i] # NoIngestion
      PROVE  NobodyDecides
  BY <1>0, <1>2 DEF NobodyDecides, Decides, Quiescent
<1>3. ASSUME NEW i \in Ingestions,
             \/ \E mf \in Manifests, n \in RunIds : ingest_manifest(i, mf, n)
             \/ \E s \in Statutes : CaptureBefore(i, s)
             \/ SelectAgain(i) \/ ImportStatute(i) \/ ImportRefused(i)
             \/ FinishIngestion(i) \/ IngestionCrashes(i)
      PROVE  NobodyDecides /\ UNCHANGED packVars
  <2>1. CASE \E mf \in Manifests, n \in RunIds : ingest_manifest(i, mf, n)
    BY <1>0, <2>1 DEF ingest_manifest, Alone
  <2>2. CASE \/ \E s \in Statutes : CaptureBefore(i, s)
             \/ SelectAgain(i) \/ ImportStatute(i) \/ ImportRefused(i)
             \/ FinishIngestion(i) \/ IngestionCrashes(i)
    <3>1. ingestion[i].step \in {"open", "captured"} \/ ingestion[i] # NoIngestion
      BY <2>2 DEF CaptureBefore, SelectAgain, ImportStatute, ImportRefused, FinishIngestion,
             IngestionCrashes, CutShort
    <3>2. ingestion[i] # NoIngestion
      BY <3>1 DEF NoIngestion
    <3>3. UNCHANGED packVars
      BY <2>2 DEF CaptureBefore, SelectAgain, ImportStatute, ImportRefused, FinishIngestion,
             IngestionCrashes, CutShort
    <3> QED
      BY <1>2, <3>2, <3>3
  <2> QED
    BY <1>3, <2>1, <2>2
<1>4. CASE FeedBecomesStale
  BY <1>0, <1>4 DEF FeedBecomesStale, importVars, packVars, Decides, ActiveReleases, Quiescent,
         Reviewed
<1>5. ASSUME NEW n \in RunIds, NEW s \in Statutes, NEW status \in ReviewStatuses,
             review_amendment(n, s, status)
      PROVE  NobodyDecides /\ UNCHANGED packVars
  BY <1>0, <1>5 DEF review_amendment, Alone
<1>6. ASSUME NEW d \in Managers, NEW r \in Releases, ActivationRead(d, r)
      PROVE  (ActiveReleases \subseteq {active_release_version})' /\ \A e \in Managers : Decides(e)'
  <2>1. /\ Quiescent /\ NobodyDecides /\ ActivationReady
        /\ desk' = [desk EXCEPT ![d] = [on |-> r, previous |-> Previous(r), loaded |-> release[r]]]
        /\ UNCHANGED <<ingestVars, release, active_release_version>>
    BY <1>0, <1>6 DEF ActivationRead, Alone
  <2>2. ASSUME NEW s \in Statutes \ untracked
        PROVE  Reviewed(s)
    <3>1. \A i \in Ingestions : ~Recording(i, s)
      BY <2>1 DEF Quiescent, Recording, NoIngestion
    <3>2. ASSUME NEW n \in RunIds, Says(n, s)
          PROVE  runs[n].event[s] \in {"reviewed", "dismissed"}
      BY <2>1, <3>2 DEF ActivationReady, Says, LegalInv, LegalDataTypeOK, ReviewStatuses
    <3> QED
      BY <2>2, <3>1, <3>2 DEF LegalInv, ChangeIsRecorded, Tracked, Says, Reviewed
  <2>3. /\ desk'[d] = [on |-> r, previous |-> Previous(r), loaded |-> release[r]]
        /\ \A e \in Managers \ {d} : desk'[e] = NoDecision
    BY <2>1 DEF NobodyDecides, LegalInv, LegalDataTypeOK
  <2>4. Decides(d)'
    BY <2>1, <2>2, <2>3
       DEF Decides, Previous, ActiveReleases, Quiescent, Reviewed, ingestVars, importVars
  <2>5. \A e \in Managers \ {d} : Decides(e)'
    BY <2>3 DEF Decides
  <2> QED
    BY <1>0, <2>1, <2>4, <2>5 DEF ActiveReleases
<1>7. ASSUME NEW d \in Managers, ActivationCommit(d)
      PROVE  (ActiveReleases \subseteq {active_release_version})' /\ \A e \in Managers : Decides(e)'
  <2>1. /\ desk[d] # NoDecision
        /\ desk[d].previous = ActiveReleases \ {desk[d].on}
        /\ \A e \in Managers \ {d} : desk[e] = NoDecision
    BY <1>0, <1>7 DEF ActivationCommit, Decides
  <2>2. \A r \in Releases : release'[r] = "active" => r = desk[d].on
    BY <1>7, <2>1 DEF ActivationCommit, ActiveReleases
  <2>3. active_release_version' = desk[d].on
    BY <1>7 DEF ActivationCommit
  <2>4. \A e \in Managers : desk'[e] = NoDecision
    BY <1>7, <2>1 DEF ActivationCommit, LegalInv, LegalDataTypeOK
  <2> QED
    BY <2>2, <2>3, <2>4 DEF ActiveReleases, Decides
<1>8. ASSUME NEW c \in Importers,
             (\E s \in Statutes, text \in Texts : DirectImportRead(c, s, text)) \/ DirectImportCommit(c)
      PROVE  NobodyDecides /\ UNCHANGED packVars
  <2>1. CASE \E s \in Statutes, text \in Texts : DirectImportRead(c, s, text)
    BY <1>0, <2>1 DEF DirectImportRead, Alone
  <2>2. CASE DirectImportCommit(c)
    BY <1>0, <2>2 DEF DirectImportCommit, NobodyDecides, Decides, Quiescent
  <2> QED
    BY <1>8, <2>1, <2>2
<1> QED
  BY <1>1, <1>3, <1>4, <1>5, <1>6, <1>7, <1>8 DEF LegalDataNext

\* LegalInv is inductive.
LEMMA LegalStep == LegalInv /\ [LegalDataNext]_<<legalVars, overlap>> => LegalInv'
<1> SUFFICES ASSUME LegalInv, [LegalDataNext]_<<legalVars, overlap>> PROVE LegalInv'
  OBVIOUS
<1>1. CASE UNCHANGED <<legalVars, overlap>>
  BY <1>1 DEF legalVars, ingestVars, importVars, LegalInv, LegalDataTypeOK, Blank, Slots, Slot, Imports,
              ChangeIsRecorded, Tracked, Says, Recording, OneActiveRelease, ActiveReleases, Decides,
              Quiescent, Reviewed
<1>2. CASE LegalDataNext
  <2>1. overlap' = overlap
    BY <1>2 DEF LegalDataNext, ingest_manifest, CaptureBefore, SelectAgain, ImportStatute,
           ImportRefused, FinishIngestion, IngestionCrashes, CutShort, DirectImportRead,
           DirectImportCommit, FeedBecomesStale, review_amendment, ActivationRead, ActivationCommit
  <2> QED
    BY <1>2, <2>1, TypeKept, SlotsKept, ImportsKept, ChangeKept, DesksKept DEF LegalInv
<1> QED
  BY <1>1, <1>2

\* A release becomes active only at a commit, over what the request read.
LEMMA ActivatesReviewed ==
    LegalInv /\ [LegalDataNext]_<<legalVars, overlap>> =>
        [(\E r \in Releases : Activates(r)) /\ ~overlap
            => \A s \in Statutes \ untracked : Reviewed(s)]_<<legalVars, overlap>>
<1> SUFFICES ASSUME LegalInv, LegalDataNext, NEW r \in Releases, Activates(r), ~overlap,
                    NEW s \in Statutes \ untracked
             PROVE  Reviewed(s)
  OBVIOUS
<1>1. release' # release
  BY DEF Activates
<1>2. PICK d \in Managers : ActivationCommit(d)
  BY <1>1 DEF LegalDataNext, ingest_manifest, CaptureBefore, SelectAgain, ImportStatute,
         ImportRefused, FinishIngestion, IngestionCrashes, CutShort, DirectImportRead,
         DirectImportCommit, FeedBecomesStale, review_amendment, ActivationRead, packVars
<1> QED
  BY <1>2 DEF LegalInv, Decides, ActivationCommit

-----------------------------------------------------------------------------
\* Runs, releases and open requests are what their columns allow.
THEOREM LegalDataTypeCorrect == LegalDataSpec => []LegalDataTypeOK
<1>1. LegalInv => LegalDataTypeOK
  BY DEF LegalInv
<1> QED
  BY <1>1, LegalStart, LegalStep, PTL DEF LegalDataSpec

\* Whatever a statute says has an amendment event or is about to get one, unless a direct
\* import put it there or the ingestion that did was cut short at once (ingest_manifest),
\* however ingestions and direct imports overlap.
THEOREM ChangeAlwaysRecorded == LegalDataSpec => []ChangeIsRecorded
<1>1. LegalInv => ChangeIsRecorded
  BY DEF LegalInv
<1> QED
  BY <1>1, LegalStart, LegalStep, PTL DEF LegalDataSpec

\* When requests do not overlap, at most one release of a pack is active, and it is
\* the one that the pack names (activate_pack_release).
THEOREM OneReleaseActive == LegalDataSpec => []OneActiveRelease
<1>1. LegalInv => OneActiveRelease
  BY DEF LegalInv
<1> QED
  BY <1>1, LegalStart, LegalStep, PTL DEF LegalDataSpec

\* Then a release becomes active only over texts whose amendment was reviewed or
\* dismissed, direct and cut-short imports excepted (activate_pack_release).
THEOREM AlwaysReviewedBeforeActivation == LegalDataSpec => ReviewedBeforeActivation
  BY LegalStart, LegalStep, ActivatesReviewed, PTL DEF LegalDataSpec, ReviewedBeforeActivation

-----------------------------------------------------------------------------
(* Blocked deletions name a hold on their own matter, however the requests *)
(* overlap, and one request at a time no deletion is approved under a hold *)
(* or changes after it was cancelled; for any number of matters, holds,    *)
(* deletions and requests.                                                 *)
(*                                                                         *)
(* Both need to know what an open request carries: which hold it found     *)
(* (Carries), and, when nothing overlaps, that what it loaded and found is *)
(* still so (Current).                                                     *)

\* A hold that was placed on the matter of a deletion's resource, active or released.
Names(d, h) == h \in HoldIds /\ hold[h].status # "absent" /\ hold[h].matter = resource_matter[d]

\* What is known of a deletion, and of a request about one.  A hold_id is never cleared.
HoldLinked(d) ==
    /\ deletion[d].status = "blocked" => deletion[d].hold_id # None
    /\ deletion[d].hold_id # None => Names(d, deletion[d].hold_id)
Carries(r) ==
    LET c == request[r] IN
    c # Closed =>
        /\ c.on \in Deletions
        /\ c.set.hold_id # None => Names(c.on, c.set.hold_id)
        /\ c.set.status = "blocked" => c.set.hold_id # None
        /\ c.loaded.hold_id # None => c.set.hold_id # None /\ deletion[c.on].hold_id # None

\* What is known of a request while no other one is open.
Free(d) == ActiveHolds(d) = {} \/ resource_matter[d] = None
Current(r) ==
    LET c == request[r] IN
    c # Closed =>
        /\ c.loaded = deletion[c.on] /\ c.loaded.status # "cancelled"
        /\ c.set.status = "approved" => Free(c.on)
        /\ \A q \in Desks \ {r} : request[q] = Closed

HoldsInv ==
    /\ LegalHoldsTypeOK
    /\ overlap \in BOOLEAN
    /\ \A d \in Deletions : HoldLinked(d)
    /\ \A r \in Desks : Carries(r)
    /\ ~overlap => \A r \in Desks : Current(r)

-----------------------------------------------------------------------------
\* Before the first request there is no hold and no deletion (LegalHoldsInit).
LEMMA HoldsStart == SessionsInit /\ LegalHoldsInit => HoldsInv
  BY LegalHoldsAssumption
  DEF LegalHoldsAssumption, SessionsInit, LegalHoldsInit, HoldsInv, LegalHoldsTypeOK, HoldLinked, Carries,
      Current, NoHold, NoDeletion, Closed, HoldStatuses, DeletionStatuses, DeletionRows

\* The hold that a request finds is one on the matter of the resource, and it finds
\* none only if the resource is free (_active_hold_for_resource).
LEMMA Found ==
    ASSUME NEW d \in Deletions, NEW h \in HoldIds \cup {None}, _active_hold_for_resource(d, h)
    PROVE  (h # None => Names(d, h)) /\ (h = None => Free(d))
  BY LegalHoldsAssumption
  DEF LegalHoldsAssumption, _active_hold_for_resource, ActiveHolds, Names, Free

\* The row that a request's commit leaves, and all that the commit does (DeskCommit).
MergedDeletion(c) == [status  |-> Written(c.set.status, c.loaded.status, deletion[c.on].status),
              hold_id |-> Written(c.set.hold_id, c.loaded.hold_id, deletion[c.on].hold_id)]
Writes(r, c) ==
    /\ c # Closed /\ c.on \in Deletions
    /\ \A d \in Deletions \ {c.on} : deletion'[d] = deletion[d]
    /\ deletion'[c.on] = MergedDeletion(c)
    /\ deletion' \in [Deletions -> DeletionRows]
    /\ request' = [request EXCEPT ![r] = Closed] /\ UNCHANGED <<hold, overlap>>

\* Only a request's commit changes a deletion, and only its own (DeskCommit).
LEMMA DeskDecides == ASSUME HoldsInv, NEW r \in Desks, DeskCommit(r) PROVE Writes(r, request[r])
<1> DEFINE c == request[r]
<1>1. c # Closed /\ c.on \in Deletions /\ c.set \in DeletionRows
  BY DEF DeskCommit, HoldsInv, Carries, LegalHoldsTypeOK
<1>2. deletion' = [deletion EXCEPT
           ![c.on].status = Written(c.set.status, c.loaded.status, @),
           ![c.on].hold_id = Written(c.set.hold_id, c.loaded.hold_id, @)]
      /\ request' = [request EXCEPT ![r] = Closed] /\ UNCHANGED <<hold, overlap>>
  BY DEF DeskCommit
<1>3. deletion \in [Deletions -> DeletionRows]
  BY DEF HoldsInv, LegalHoldsTypeOK
<1> HIDE DEF c
<1> SUFFICES Writes(r, c)
  BY DEF c
<1> QED
  BY <1>1, <1>2, <1>3 DEF DeletionRows, Written, Writes, MergedDeletion

-----------------------------------------------------------------------------
\* Placing and releasing a hold keeps the matters of the holds that are placed, and
\* waits for the open request if requests do not overlap.
LEMMA HoldStep ==
    ASSUME HoldsInv, NEW h \in HoldIds,
           (\E m \in Matters : create_legal_hold(h, m)) \/ release_legal_hold(h)
    PROVE  HoldsInv'
<1> USE LegalHoldsAssumption DEF LegalHoldsAssumption
<1>1. /\ hold' \in [HoldIds -> [matter : Matters \cup {None}, status : HoldStatuses]]
      /\ BetweenRequests /\ UNCHANGED <<deletion, request, overlap>>
      /\ \A k \in HoldIds : hold[k].status # "absent" =>
            hold'[k].status # "absent" /\ hold'[k].matter = hold[k].matter
  <2>1. CASE \E m \in Matters : create_legal_hold(h, m)
    BY <2>1 DEF create_legal_hold, HoldsInv, LegalHoldsTypeOK, HoldStatuses, NoHold
  <2>2. CASE release_legal_hold(h)
    BY <2>2 DEF release_legal_hold, HoldsInv, LegalHoldsTypeOK, HoldStatuses, NoHold
  <2> QED
    BY <2>1, <2>2
<1>2. LegalHoldsTypeOK'
  BY <1>1 DEF HoldsInv, LegalHoldsTypeOK, DeletionRows
<1>3. \A d \in Deletions : \A k : Names(d, k) => Names(d, k)'
  BY <1>1 DEF Names
<1>4. (\A d \in Deletions : HoldLinked(d))' /\ (\A r \in Desks : Carries(r))'
  BY <1>1, <1>3 DEF HoldsInv, HoldLinked, Carries
<1>5. ~overlap' => (\A r \in Desks : Current(r))'
  BY <1>1 DEF Current, BetweenRequests, Closed
<1> QED
  BY <1>1, <1>2, <1>4, <1>5 DEF HoldsInv

\* What a request has loaded and set when it opens (RequestRead, DecisionRead).
LEMMA DeskOpens ==
    ASSUME HoldsInv, NEW r \in Desks, NEW d \in Deletions, NEW h \in HoldIds \cup {None},
           RequestRead(r, d, h) \/ \E approve \in BOOLEAN : DecisionRead(r, d, h, approve)
    PROVE  HoldsInv'
<1> USE LegalHoldsAssumption DEF LegalHoldsAssumption
<1>1. /\ MayOpen(request, Closed, r) /\ UNCHANGED <<hold, deletion, overlap>>
      /\ _active_hold_for_resource(d, h)
  BY DEF RequestRead, DecisionRead
<1>2. PICK new \in DeletionRows :
         /\ request' = [request EXCEPT ![r] = [on |-> d, loaded |-> deletion[d], set |-> new]]
         /\ new.hold_id \in {h, deletion[d].hold_id}
         /\ new.status = "blocked" => new.hold_id = h /\ h # None
         /\ new.status = "approved" => h = None
         /\ deletion[d].hold_id # None => new.hold_id # None
         /\ deletion[d].status # "cancelled"
  <2>0. deletion[d] \in DeletionRows
    BY DEF HoldsInv, LegalHoldsTypeOK
  <2>1. CASE RequestRead(r, d, h)
    <3> DEFINE new == [status |-> IF h = None THEN "requested" ELSE "blocked", hold_id |-> h]
    <3>1. new \in DeletionRows
      BY DEF DeletionRows, DeletionStatuses
    <3>2. /\ request' = [request EXCEPT ![r] = [on |-> d, loaded |-> deletion[d], set |-> new]]
          /\ deletion[d] = NoDeletion
      BY <2>1 DEF RequestRead
    <3>3. /\ new.hold_id = h
          /\ new.status = "blocked" => h # None
          /\ new.status # "approved"
      OBVIOUS
    <3>4. deletion[d].hold_id = None /\ deletion[d].status # "cancelled"
      BY <3>2 DEF NoDeletion
    <3> HIDE DEF new
    <3> QED
      BY <3>1, <3>2, <3>3, <3>4
  <2>2. CASE \E approve \in BOOLEAN : DecisionRead(r, d, h, approve)
    <3>1. PICK approve \in BOOLEAN : DecisionRead(r, d, h, approve)
      BY <2>2
    <3> DEFINE new == Decided(d, h, approve)
    <3>2. new \in DeletionRows /\ deletion[d].status # "cancelled"
      BY <2>0, <3>1 DEF Decided, Decidable, DecisionRead, DeletionRows, DeletionStatuses
    <3>3. /\ new.hold_id \in {h, deletion[d].hold_id}
          /\ new.status = "blocked" => new.hold_id = h /\ h # None
          /\ new.status = "approved" => h = None
          /\ deletion[d].hold_id # None => new.hold_id # None
      BY <2>0 DEF Decided, DeletionRows
    <3>4. request' = [request EXCEPT ![r] = [on |-> d, loaded |-> deletion[d], set |-> new]]
      BY <3>1 DEF DecisionRead
    <3> HIDE DEF new
    <3> QED
      BY <3>2, <3>3, <3>4
  <2> QED
    BY <2>1, <2>2
<1>3. LegalHoldsTypeOK'
  BY <1>1, <1>2 DEF HoldsInv, LegalHoldsTypeOK
<1>4. (\A e \in Deletions : HoldLinked(e))'
  BY <1>1 DEF HoldsInv, HoldLinked, Names
<1>5. request'[r] = [on |-> d, loaded |-> deletion[d], set |-> new]
      /\ \A q \in Desks \ {r} : request'[q] = request[q]
  BY <1>2 DEF HoldsInv, LegalHoldsTypeOK
<1>6. (\A q \in Desks : Carries(q))'
  <2> SUFFICES ASSUME NEW q \in Desks PROVE Carries(q)'
    OBVIOUS
  <2>1. CASE q = r
    BY <2>1, <1>1, <1>2, <1>5, Found DEF HoldsInv, Carries, HoldLinked, Names
  <2>2. CASE q # r
    BY <2>2, <1>1, <1>5 DEF HoldsInv, Carries, Names
  <2> QED
    BY <2>1, <2>2
<1>7. ~overlap' => (\A q \in Desks : Current(q))'
  <2> SUFFICES ASSUME ~overlap, NEW q \in Desks PROVE Current(q)'
    BY <1>1
  <2>1. \A p \in Desks : request[p] = Closed
    BY <1>1 DEF MayOpen, HoldsInv, LegalHoldsTypeOK
  <2>2. CASE q = r
    BY <2>1, <2>2, <1>1, <1>2, <1>5, Found DEF Current, Free, ActiveHolds
  <2>3. CASE q # r
    BY <2>1, <2>3, <1>5 DEF Current
  <2> QED
    BY <2>2, <2>3
<1> QED
  BY <1>1, <1>3, <1>4, <1>6, <1>7 DEF HoldsInv

\* The columns that a request changed are written, and the request is over (DeskCommit).
LEMMA DeskCommits == ASSUME HoldsInv, NEW r \in Desks, DeskCommit(r) PROVE HoldsInv'
<1> DEFINE c == request[r]
<1>0. Writes(r, c)
  BY DeskDecides
<1>1. /\ c # Closed /\ c.on \in Deletions
      /\ \A d \in Deletions \ {c.on} : deletion'[d] = deletion[d]
      /\ deletion'[c.on].status = Written(c.set.status, c.loaded.status, deletion[c.on].status)
      /\ deletion'[c.on].hold_id = Written(c.set.hold_id, c.loaded.hold_id, deletion[c.on].hold_id)
      /\ deletion' \in [Deletions -> DeletionRows]
      /\ request' = [request EXCEPT ![r] = Closed] /\ UNCHANGED <<hold, overlap>>
  <2> HIDE DEF c
  <2> QED
    BY <1>0 DEF Writes, MergedDeletion
<1>2. Closed \in [on : Deletions \cup {None}, loaded : DeletionRows, set : DeletionRows]
  BY DEF Closed, NoDeletion, DeletionRows, DeletionStatuses
<1>3. LegalHoldsTypeOK'
  BY <1>1, <1>2 DEF HoldsInv, LegalHoldsTypeOK
<1>4. request'[r] = Closed /\ \A q \in Desks \ {r} : request'[q] = request[q]
  BY <1>1 DEF HoldsInv, LegalHoldsTypeOK
<1>5. /\ c.set.hold_id # None => Names(c.on, c.set.hold_id)
      /\ c.set.status = "blocked" => c.set.hold_id # None
      /\ c.loaded.hold_id # None => c.set.hold_id # None /\ deletion[c.on].hold_id # None
  BY <1>1 DEF HoldsInv, Carries
<1>6. \A d \in Deletions : HoldLinked(d)'
  <2> SUFFICES ASSUME NEW d \in Deletions PROVE HoldLinked(d)'
    OBVIOUS
  <2>1. HoldLinked(d)
    BY DEF HoldsInv
  <2>2. CASE d = c.on
    <3>1. /\ deletion'[d].status = Written(c.set.status, c.loaded.status, deletion[d].status)
          /\ deletion'[d].hold_id = Written(c.set.hold_id, c.loaded.hold_id, deletion[d].hold_id)
      BY <2>2, <1>1
    <3> QED
      BY <2>1, <2>2, <3>1, <1>1, <1>5 DEF HoldLinked, Names, Written
  <2>3. CASE d # c.on
    BY <2>1, <2>3, <1>1 DEF HoldLinked, Names
  <2> QED
    BY <2>2, <2>3
<1>7. \A d \in Deletions : deletion[d].hold_id # None => deletion'[d].hold_id # None
  BY <1>1, <1>5 DEF Written
<1>8. (\A q \in Desks : Carries(q))'
  BY <1>1, <1>4, <1>7 DEF HoldsInv, Carries, Names
<1>9. ~overlap' => (\A q \in Desks : Current(q))'
  BY <1>1, <1>4 DEF HoldsInv, Current
<1> QED
  BY <1>1, <1>3, <1>6, <1>8, <1>9 DEF HoldsInv

\* Every handler keeps what is known of the deletions and of the open requests.
LEMMA HoldsStep == HoldsInv /\ [LegalHoldsNext]_<<holdsVars, overlap>> => HoldsInv'
<1> SUFFICES ASSUME HoldsInv, [LegalHoldsNext]_<<holdsVars, overlap>> PROVE HoldsInv'
  OBVIOUS
<1>1. CASE UNCHANGED <<holdsVars, overlap>>
  BY <1>1 DEF holdsVars, HoldsInv, LegalHoldsTypeOK, HoldLinked, Carries, Current, Names, Free, ActiveHolds
<1>2. CASE LegalHoldsNext
  BY <1>2, HoldStep, DeskOpens, DeskCommits DEF LegalHoldsNext
<1> QED
  BY <1>1, <1>2

-----------------------------------------------------------------------------
\* The rows of holds and deletions and the requests about them keep their types
\* (create_legal_hold, release_legal_hold, request_deletion, decide_deletion).
THEOREM HoldsTypeCorrect == LegalHoldsSpec => []LegalHoldsTypeOK
<1>1. HoldsInv => LegalHoldsTypeOK
  BY DEF HoldsInv
<1> QED
  BY HoldsStart, HoldsStep, <1>1, PTL DEF LegalHoldsSpec

\* A blocked deletion names a hold on the matter of its own resource, for any number
\* of overlapping requests (request_deletion, decide_deletion).
THEOREM BlockAlwaysNamesItsHold == LegalHoldsSpec => []BlockNamesItsHold
<1>1. HoldsInv => BlockNamesItsHold
  BY DEF HoldsInv, HoldLinked, BlockNamesItsHold, Names
<1> QED
  BY HoldsStart, HoldsStep, <1>1, PTL DEF LegalHoldsSpec

\* One request at a time, no deletion is approved under an active hold on its matter,
\* and a cancelled one stays as it is (decide_deletion).
THEOREM HeldOrFinalAlwaysStays == LegalHoldsSpec => HeldOrFinalStays
<1> DEFINE Keeps(d) ==
             /\ Becomes(d, "approved") => ActiveHolds(d) = {} \/ resource_matter[d] = None
             /\ deletion[d].status = "cancelled" => deletion'[d] = deletion[d]
<1>1. HoldsInv /\ [LegalHoldsNext]_<<holdsVars, overlap>> =>
          [~overlap => \A d \in Deletions : Keeps(d)]_<<holdsVars, overlap>>
  <2> SUFFICES ASSUME HoldsInv, LegalHoldsNext, ~overlap, NEW d \in Deletions PROVE Keeps(d)
    OBVIOUS
  <2>1. CASE UNCHANGED deletion
    BY <2>1 DEF Becomes
  <2>2. ASSUME NEW r \in Desks, DeskCommit(r) PROVE Keeps(d)
    <3> DEFINE c == request[r]
    <3>1. /\ c # Closed /\ c.on \in Deletions
          /\ \A e \in Deletions \ {c.on} : deletion'[e] = deletion[e]
          /\ deletion'[c.on].status = Written(c.set.status, c.loaded.status, deletion[c.on].status)
      <4>1. Writes(r, c)
        BY <2>2, DeskDecides
      <4> HIDE DEF c
      <4> QED
        BY <4>1 DEF Writes, MergedDeletion
    <3>2. /\ c.loaded = deletion[c.on] /\ c.loaded.status # "cancelled"
          /\ c.set.status = "approved" => Free(c.on)
      BY <3>1 DEF HoldsInv, Current
    <3> HIDE DEF c
    <3>3. CASE d = c.on
      BY <3>1, <3>2, <3>3 DEF Becomes, Written, Free
    <3>4. CASE d # c.on
      BY <3>1, <3>4 DEF Becomes
    <3> QED
      BY <3>3, <3>4
  <2> QED
    BY <2>1, <2>2
    DEF LegalHoldsNext, create_legal_hold, release_legal_hold, RequestRead, DecisionRead
<1> QED
  BY HoldsStart, HoldsStep, <1>1, PTL DEF LegalHoldsSpec, HeldOrFinalStays

-----------------------------------------------------------------------------
(* The conflict gate of every client agrees with the last review of its    *)
(* check, for any number of leads, clients, checks and identity records.   *)
(*                                                                         *)
(* GatesAgree is not inductive by itself: a review of a check that names   *)
(* no client moves no gate, so no client may rest on such a check.  None   *)
(* does, because a conversion links the check that it takes over.          *)

OnboardingRow == [status : OnboardingStatuses, conflict_check : 0..MaxChecks, conflict_cleared : BOOLEAN,
        identity_complete : BOOLEAN, address_complete : BOOLEAN, engagement_complete : BOOLEAN]

\* The two parts of GatesAgree for one row: what the gates say, and the status.
Honest(row) == row.status \in {"ready", "complete"} => onboarding_readiness(row)
Cleared(row, c, checks) ==
    /\ row.conflict_check # 0 =>
          /\ checks[row.conflict_check].client \in ClientIds
          /\ checks[row.conflict_check].client = c =>
                (row.conflict_cleared <=> checks[row.conflict_check].status = "cleared")
    /\ row.conflict_check = 0 => ~row.conflict_cleared

RowInv == \A c \in ClientIds : Honest(onboarding[c]) /\ Cleared(onboarding[c], c, check)

-----------------------------------------------------------------------------
\* A refreshed row is a row, keeps its gates, and says "ready" only when they are
\* met (refresh_onboarding_status).
LEMMA Refreshed ==
    ASSUME NEW row \in OnboardingRow
    PROVE  LET new == refresh_onboarding_status(row) IN
           /\ new \in OnboardingRow /\ Honest(new)
           /\ new.conflict_check = row.conflict_check
           /\ new.conflict_cleared = row.conflict_cleared
           /\ new.status = "ready" => onboarding_readiness(new)
  BY DEF refresh_onboarding_status, onboarding_readiness, OnboardingRow, Honest, OnboardingStatuses

\* The row of a new client is a row (create_client, convert_lead).
LEMMA NewOnboardingRow ==
    ASSUME NEW status \in {"absent", "not_started", "in_progress"}, NEW n \in 0..MaxChecks,
           NEW cleared \in BOOLEAN
    PROVE  LET row == NewOnboarding(status, n, cleared) IN
           /\ row \in OnboardingRow /\ Honest(row)
           /\ row.conflict_check = n /\ (row.conflict_cleared <=> cleared)
  BY DEF NewOnboarding, OnboardingRow, Honest, OnboardingStatuses

\* One client's row is replaced and nothing else that its gates depend on.
LEMMA OneOnboardingRow ==
    ASSUME IntakeTypeOK, RowInv, NEW c \in ClientIds, NEW row \in OnboardingRow,
           Honest(row), Cleared(row, c, check),
           onboarding' = [onboarding EXCEPT ![c] = row], UNCHANGED check
    PROVE  onboarding' \in [ClientIds -> OnboardingRow] /\ RowInv'
  BY DEF IntakeTypeOK, RowInv, OnboardingRow, Cleared, Honest, onboarding_readiness

\* GatesAgree follows row by row (review_conflict_check).
LEMMA RowsGiveGates == IntakeAssumption /\ RowInv => GatesAgree
  BY DEF IntakeAssumption, RowInv, GatesAgree, OwnCheck, Honest, Cleared

-----------------------------------------------------------------------------
\* Every handler keeps the types and the rows (services/crm/service.py).
LEMMA IntakeStep == IntakeTypeOK /\ RowInv /\ [IntakeNext]_intakeVars => (IntakeTypeOK /\ RowInv)'
<1> SUFFICES ASSUME IntakeTypeOK, RowInv, [IntakeNext]_intakeVars PROVE (IntakeTypeOK /\ RowInv)'
  OBVIOUS
<1> USE IntakeAssumption DEF IntakeAssumption
<1>0. \A c \in ClientIds : onboarding[c] \in OnboardingRow /\ Honest(onboarding[c]) /\ Cleared(onboarding[c], c, check)
  BY DEF IntakeTypeOK, RowInv, OnboardingRow
<1>1. CASE UNCHANGED intakeVars
  BY <1>1 DEF IntakeTypeOK, RowInv, intakeVars, Cleared, Honest, onboarding_readiness
<1>2. ASSUME NEW l \in Leads, NEW status \in LeadStatuses, update_lead(l, status)
      PROVE  (IntakeTypeOK /\ RowInv)'
  BY <1>2 DEF update_lead, IntakeTypeOK, RowInv, Cleared, Honest, onboarding_readiness
<1>3. ASSUME NEW l \in Leads, NEW c \in ClientIds, NEW n \in 0..MaxChecks, convert_lead(l, c, n)
      PROVE  (IntakeTypeOK /\ RowInv)'
  <2> DEFINE cleared == n # 0 /\ check[n].status = "cleared"
             row == NewOnboarding("in_progress", n, cleared)
  <2>1. /\ onboarding' = [onboarding EXCEPT ![c] = row]
        /\ check' = [k \in CheckNumbers |->
               IF k = n /\ check[k].client = None THEN [check[k] EXCEPT !.client = c] ELSE check[k]]
        /\ lead' = [lead EXCEPT ![l] = "converted"] /\ UNCHANGED <<kyc, opened>>
    BY <1>3 DEF convert_lead
  <2>2. row \in OnboardingRow /\ Honest(row) /\ row.conflict_check = n /\ (row.conflict_cleared <=> cleared)
    BY NewOnboardingRow
  <2> HIDE DEF row
  <2>3. \A k \in CheckNumbers :
           /\ check'[k].status = check[k].status
           /\ check[k].client \in ClientIds => check'[k].client = check[k].client
           /\ k = n => check'[k].client \in ClientIds
    BY <2>1 DEF IntakeTypeOK
  <2>4. Cleared(row, c, check')
    BY <2>2, <2>3 DEF Cleared, CheckNumbers
  <2>5. \A d \in ClientIds : Cleared(onboarding[d], d, check) =>
           /\ onboarding[d].conflict_check \in 0..MaxChecks
           /\ onboarding[d].conflict_check # 0 =>
                 /\ check'[onboarding[d].conflict_check].client
                       = check[onboarding[d].conflict_check].client
                 /\ check'[onboarding[d].conflict_check].status
                       = check[onboarding[d].conflict_check].status
    BY <1>0, <2>3 DEF Cleared, CheckNumbers, OnboardingRow
  <2>6. RowInv'
    <3> SUFFICES ASSUME NEW d \in ClientIds PROVE (Honest(onboarding[d]) /\ Cleared(onboarding[d], d, check))'
      BY DEF RowInv
    <3>1. CASE d = c
      <4>1. onboarding'[c] = row
        BY <2>1 DEF IntakeTypeOK
      <4> QED
        BY <3>1, <4>1, <2>2, <2>4 DEF Honest, onboarding_readiness
    <3>2. CASE d # c
      <4>1. onboarding'[d] = onboarding[d]
        BY <3>2, <2>1 DEF IntakeTypeOK
      <4> QED
        BY <3>2, <4>1, <2>5, <1>0 DEF Cleared, Honest, onboarding_readiness
    <3> QED
      BY <3>1, <3>2
  <2>7. IntakeTypeOK'
    BY <2>1, <2>2, <1>0 DEF IntakeTypeOK, OnboardingRow, LeadStatuses
  <2> QED
    BY <2>6, <2>7
<1>4. ASSUME NEW n \in CheckNumbers, NEW l \in Leads \cup {None}, NEW c \in ClientIds \cup {None},
             run_conflict_check(n, l, c)
      PROVE  (IntakeTypeOK /\ RowInv)'
  <2>1. /\ check' = [check EXCEPT ![n] = [lead |-> l, client |-> c, status |-> "pending"]]
        /\ check[n].client = None /\ UNCHANGED <<lead, kyc, onboarding, opened>>
    BY <1>4 DEF run_conflict_check, NoCheck
  <2>2. \A d \in ClientIds : onboarding[d].conflict_check # n
    BY <1>0, <2>1 DEF Cleared, CheckNumbers
  <2>3. RowInv'
    BY <1>0, <2>1, <2>2 DEF RowInv, Cleared, Honest, onboarding_readiness, OnboardingRow, CheckNumbers, IntakeTypeOK
  <2>4. IntakeTypeOK'
    BY <2>1 DEF IntakeTypeOK, CheckStatuses
  <2> QED
    BY <2>3, <2>4
<1>5. ASSUME NEW n \in CheckNumbers, NEW decision \in {"cleared", "conflict_found"},
             review_conflict_check(n, decision)
      PROVE  (IntakeTypeOK /\ RowInv)'
  <2>1. /\ check' = [check EXCEPT ![n].status = decision]
        /\ onboarding' = GateOf(n, decision) /\ UNCHANGED <<lead, kyc, opened>>
    BY <1>5 DEF review_conflict_check
  <2>2. \A k \in CheckNumbers : check'[k].client = check[k].client
                                /\ check'[k].status = IF k = n THEN decision ELSE check[k].status
    BY <2>1 DEF IntakeTypeOK
  <2>3. check' \in [CheckNumbers -> [lead : Leads \cup {None}, client : ClientIds \cup {None},
                                     status : CheckStatuses \cup {"absent"}]]
    BY <2>1 DEF IntakeTypeOK, CheckStatuses
  <2>4. CASE check[n].client = None
    <3>1. onboarding' = onboarding
      BY <2>1, <2>4 DEF GateOf
    <3>2. RowInv'
      BY <3>1, <2>2, <2>4, <1>0 DEF RowInv, Cleared, Honest, onboarding_readiness, OnboardingRow, CheckNumbers
    <3> QED
      BY <2>1, <2>3, <3>1, <3>2 DEF IntakeTypeOK
  <2>5. CASE check[n].client # None
    <3> DEFINE c == check[n].client
               yes == decision = "cleared"
               old == onboarding[c]
               set == [old EXCEPT !.conflict_check = n, !.conflict_cleared = yes]
               row == refresh_onboarding_status(set)
    <3>1. c \in ClientIds
      BY <2>5 DEF IntakeTypeOK
    <3>2. onboarding' = [onboarding EXCEPT ![c] = row]
      BY <2>1, <2>5 DEF GateOf
    <3>3. set \in OnboardingRow /\ set.conflict_check = n /\ (set.conflict_cleared <=> decision = "cleared")
      <4>1. yes \in BOOLEAN /\ n \in 0..MaxChecks /\ old \in OnboardingRow
        BY <3>1, <1>0 DEF CheckNumbers
      <4> HIDE DEF yes, old
      <4>2. set \in OnboardingRow /\ set.conflict_check = n /\ (set.conflict_cleared <=> yes)
        BY <4>1 DEF OnboardingRow
      <4> QED
        BY <4>2 DEF yes
    <3> HIDE DEF set
    <3>4. row \in OnboardingRow /\ Honest(row) /\ row.conflict_check = n
          /\ (row.conflict_cleared <=> decision = "cleared")
      BY <3>3, Refreshed
    <3> HIDE DEF row
    <3>5. RowInv'
      <4> SUFFICES ASSUME NEW d \in ClientIds
                   PROVE  (Honest(onboarding[d]) /\ Cleared(onboarding[d], d, check))'
        BY DEF RowInv
      <4>1. CASE d = c
        <5>1. onboarding'[c] = row
          BY <3>1, <3>2 DEF IntakeTypeOK
        <5> QED
          BY <4>1, <5>1, <3>1, <3>4, <2>2 DEF Cleared, Honest, onboarding_readiness, CheckNumbers
      <4>2. CASE d # c
        <5>1. onboarding'[d] = onboarding[d]
          BY <4>2, <3>1, <3>2 DEF IntakeTypeOK
        <5> QED
          BY <4>2, <5>1, <2>2, <1>0 DEF Cleared, Honest, onboarding_readiness, OnboardingRow, CheckNumbers
      <4> QED
        BY <4>1, <4>2
    <3> QED
      BY <2>1, <2>3, <3>1, <3>2, <3>4, <3>5 DEF IntakeTypeOK, OnboardingRow
  <2> QED
    BY <2>4, <2>5
<1>6. ASSUME NEW k \in KYCRecords, NEW c \in ClientIds, create_kyc(k, c)
      PROVE  (IntakeTypeOK /\ RowInv)'
  BY <1>6 DEF create_kyc, IntakeTypeOK, RowInv, Cleared, Honest, onboarding_readiness
<1>7. ASSUME NEW k \in KYCRecords, NEW status \in KYCStatuses, verify_kyc(k, status)
      PROVE  (IntakeTypeOK /\ RowInv)'
  <2> DEFINE c == kyc[k].client
             set == [onboarding[c] EXCEPT !.identity_complete = VerifiedRecords(c) # {}]
             row == refresh_onboarding_status(set)
  <2>1. /\ c \in ClientIds /\ onboarding' = [onboarding EXCEPT ![c] = row]
        /\ kyc' = [kyc EXCEPT ![k].status = status] /\ UNCHANGED <<lead, check, opened>>
    BY <1>7 DEF verify_kyc, IntakeTypeOK
  <2>2. /\ set \in OnboardingRow /\ set.conflict_check = onboarding[c].conflict_check
        /\ set.conflict_cleared = onboarding[c].conflict_cleared
    BY <2>1, <1>0 DEF OnboardingRow
  <2>3. /\ row \in OnboardingRow /\ Honest(row) /\ row.conflict_check = onboarding[c].conflict_check
        /\ row.conflict_cleared = onboarding[c].conflict_cleared
    BY <2>2, Refreshed
  <2> HIDE DEF row
  <2>4. Cleared(row, c, check)
    BY <2>1, <2>3, <1>0 DEF Cleared
  <2>5. onboarding' \in [ClientIds -> OnboardingRow] /\ RowInv'
    BY <2>1, <2>3, <2>4, OneOnboardingRow
  <2> QED
    BY <2>1, <2>5 DEF IntakeTypeOK, OnboardingRow
<1>8. ASSUME NEW c \in ClientIds, create_client(c)
      PROVE  (IntakeTypeOK /\ RowInv)'
  <2> DEFINE row == NewOnboarding("not_started", 0, FALSE)
  <2>1. onboarding' = [onboarding EXCEPT ![c] = row] /\ UNCHANGED <<lead, check, kyc, opened>>
    BY <1>8 DEF create_client
  <2>2. row \in OnboardingRow /\ Honest(row) /\ row.conflict_check = 0 /\ ~row.conflict_cleared
    BY DEF NewOnboarding, OnboardingRow, Honest, OnboardingStatuses
  <2> HIDE DEF row
  <2>3. onboarding' \in [ClientIds -> OnboardingRow] /\ RowInv'
    BY <2>1, <2>2, OneOnboardingRow DEF Cleared
  <2> QED
    BY <2>1, <2>3 DEF IntakeTypeOK, OnboardingRow
<1>9. ASSUME NEW c \in ClientIds, create_engagement(c)
      PROVE  (IntakeTypeOK /\ RowInv)'
  <2> DEFINE set == [onboarding[c] EXCEPT !.engagement_complete = TRUE]
             row == refresh_onboarding_status(set)
  <2>1. onboarding' = [onboarding EXCEPT ![c] = row] /\ UNCHANGED <<lead, check, kyc, opened>>
    BY <1>9 DEF create_engagement
  <2>2. /\ set \in OnboardingRow /\ set.conflict_check = onboarding[c].conflict_check
        /\ set.conflict_cleared = onboarding[c].conflict_cleared
    BY <1>0 DEF OnboardingRow
  <2>3. /\ row \in OnboardingRow /\ Honest(row) /\ row.conflict_check = onboarding[c].conflict_check
        /\ row.conflict_cleared = onboarding[c].conflict_cleared
    BY <2>2, Refreshed
  <2> HIDE DEF row
  <2>4. Cleared(row, c, check)
    BY <2>3, <1>0 DEF Cleared
  <2>5. onboarding' \in [ClientIds -> OnboardingRow] /\ RowInv'
    BY <2>1, <2>3, <2>4, OneOnboardingRow
  <2> QED
    BY <2>1, <2>5 DEF IntakeTypeOK, OnboardingRow
<1>10. ASSUME NEW c \in ClientIds, open_matter(c)
       PROVE  (IntakeTypeOK /\ RowInv)'
  BY <1>10 DEF open_matter, IntakeTypeOK, RowInv, Cleared, Honest, onboarding_readiness
<1>11. ASSUME NEW c \in ClientIds, NEW address \in BOOLEAN, NEW engagement \in BOOLEAN,
              NEW mark \in BOOLEAN, update_onboarding(c, address, engagement, mark)
       PROVE  (IntakeTypeOK /\ RowInv)'
  <2> DEFINE set == [onboarding[c] EXCEPT !.address_complete = address, !.engagement_complete = engagement]
             row == refresh_onboarding_status(set)
             new == IF mark THEN [row EXCEPT !.status = "complete"] ELSE row
  <2>1. /\ onboarding' = [onboarding EXCEPT ![c] = new] /\ UNCHANGED <<lead, check, kyc, opened>>
        /\ mark => row.status = "ready"
    BY <1>11 DEF update_onboarding
  <2>2. /\ set \in OnboardingRow /\ set.conflict_check = onboarding[c].conflict_check
        /\ set.conflict_cleared = onboarding[c].conflict_cleared
    BY <1>0 DEF OnboardingRow
  <2>3. /\ row \in OnboardingRow /\ Honest(row) /\ row.conflict_check = onboarding[c].conflict_check
        /\ row.conflict_cleared = onboarding[c].conflict_cleared
        /\ row.status = "ready" => onboarding_readiness(row)
    BY <2>2, Refreshed
  <2> HIDE DEF row
  <2>4. /\ new \in OnboardingRow /\ Honest(new) /\ new.conflict_check = onboarding[c].conflict_check
        /\ new.conflict_cleared = onboarding[c].conflict_cleared
    BY <2>1, <2>3 DEF OnboardingRow, Honest, onboarding_readiness, OnboardingStatuses
  <2> HIDE DEF new
  <2>5. Cleared(new, c, check)
    BY <2>4, <1>0 DEF Cleared
  <2>6. onboarding' \in [ClientIds -> OnboardingRow] /\ RowInv'
    BY <2>1, <2>4, <2>5, OneOnboardingRow
  <2> QED
    BY <2>1, <2>6 DEF IntakeTypeOK, OnboardingRow
<1> QED
  BY <1>1, <1>2, <1>3, <1>4, <1>5, <1>6, <1>7, <1>8, <1>9, <1>10, <1>11 DEF IntakeNext

\* Before the first request there is no client and no check.
LEMMA IntakeStart == IntakeInit => IntakeTypeOK /\ RowInv
  BY IntakeAssumption, NewOnboardingRow
  DEF IntakeAssumption, IntakeInit, IntakeTypeOK, RowInv, OnboardingRow, Cleared, Honest, NewOnboarding, NoCheck,
      NoRecord, LeadStatuses, CheckStatuses, KYCStatuses, OnboardingStatuses, onboarding_readiness

-----------------------------------------------------------------------------
\* The rows of the intake keep their types (services/crm/service.py).
THEOREM IntakeTypeCorrect == IntakeSpec => []IntakeTypeOK
  BY IntakeStart, IntakeStep, PTL DEF IntakeSpec

\* The conflict gate of a client says what the last review of its check decided, and
\* a client is ready or complete only while its gates are met (review_conflict_check,
\* convert_lead, refresh_onboarding_status).
THEOREM GatesAlwaysAgree == IntakeSpec => []GatesAgree
<1>1. RowInv => GatesAgree
  BY RowsGiveGates, IntakeAssumption
<1> QED
  BY IntakeStart, IntakeStep, <1>1, PTL DEF IntakeSpec
=============================================================================
