---------------------------- MODULE OfficeProofs ----------------------------
(***************************************************************************)
(* A behaviour of the office is a behaviour of each of its modules: those  *)
(* that it is not about do not move, and no request changes whether        *)
(* requests overlap.  So what is proved of every module by itself holds in *)
(* the office, where TLC checks it.                                        *)
(***************************************************************************)
EXTENDS MCOffice, SecurityProofs, ComplianceProofs, CollaborationProofs, OperationsProofs

\* Whether requests overlap is a choice of the initial state: no operation of
\* any module with requests changes it (SessionsInit).
LEMMA OverlapStays ==
    MembersNext \/ SignInsNext \/ LegalDataNext \/ LegalHoldsNext \/ VersionsNext
        \/ EnvelopesNext \/ SweepsNext \/ DocumentsNext \/ KnowledgeNext => UNCHANGED overlap
<1>1. MembersNext => UNCHANGED overlap
  BY DEF MembersNext, create_user, UpdateRead, UpdateCommit
<1>2. SignInsNext => UNCHANGED overlap
  BY DEF SignInsNext, LoginRead, LoginCommit, authenticate_session, revoke_session, StatusChanges
<1>3. LegalDataNext => UNCHANGED overlap
  BY DEF LegalDataNext, ingest_manifest, CaptureBefore, SelectAgain, ImportStatute, ImportRefused,
         FinishIngestion, IngestionCrashes, CutShort, DirectImportRead, DirectImportCommit,
         FeedBecomesStale, review_amendment, ActivationRead, ActivationCommit
<1>4. LegalHoldsNext => UNCHANGED overlap
  BY DEF LegalHoldsNext, create_legal_hold, release_legal_hold, RequestRead, DecisionRead, DeskCommit
<1>5. VersionsNext => UNCHANGED overlap
  BY DEF VersionsNext, AddVersion, VersionCommit, VersionRefused
<1>6. EnvelopesNext => UNCHANGED overlap
  BY DEF EnvelopesNext, create_envelope, DocusignCreates, DocusignCreateCommit, SendRead, SendCommit,
         ClerkFails, MarkRead, MarkCommit, ProviderPosts, WebhookRead, WebhookRefused, WebhookCommit
<1>7. SweepsNext => UNCHANGED overlap
  BY DEF SweepsNext, create_task, update_task, SweepRead, SweepCommit, SweepFails
<1>8. DocumentsNext => UNCHANGED overlap
  BY DEF DocumentsNext, UploadFile, reprocess_document, ProcessStart, IndexRead, MarkDeleted,
         UploadCommit, UploadRefused, ProcessCommit, ProcessFails, IndexCommit, DeleteRow,
         UnlinkFile, CallEnds
<1>9. KnowledgeNext => UNCHANGED overlap
  BY DEF KnowledgeNext, create_asset, EditRead, EditNumber, EditCommit, StatusRead, StatusCommit,
         RequestFails, Loads
<1> QED
  BY <1>1, <1>2, <1>3, <1>4, <1>5, <1>6, <1>7, <1>8, <1>9

\* A step of the office is a step of each of its modules, or the module keeps its state.
LEMMA OfficeStep ==
    ASSUME [OfficeNext]_vars
    PROVE  /\ [AuditNext]_auditVars
           /\ [MembersNext]_<<membersVars, overlap>>
           /\ [SignInsNext]_<<signInsVars, overlap>>
           /\ [LegalDataNext]_<<legalVars, overlap>>
           /\ [LegalHoldsNext]_<<holdsVars, overlap>>
           /\ [VersionsNext]_<<versionsVars, overlap>>
           /\ [EnvelopesNext]_<<envelopesVars, overlap>>
           /\ [BackupsNext]_backupsVars
           /\ [IntakeNext]_intakeVars
           /\ [SweepsNext]_<<sweepsVars, overlap>>
           /\ [DocumentsNext]_<<documentsVars, overlap>>
           /\ [KnowledgeNext]_<<knowledgeVars, overlap>>
<1>1. OfficeNext => UNCHANGED overlap
  BY OverlapStays DEF OfficeNext
<1>2. CASE OfficeNext
  BY <1>1, <1>2 DEF OfficeNext, Stay
<1>3. CASE UNCHANGED vars
  BY <1>3 DEF vars
<1> QED
  BY <1>2, <1>3

\* A behaviour of the office, as TLC checks it, is one of each module: the module's
\* theorems are about the states of the office.
THEOREM OfficeIsEachModule ==
    OfficeSpec => /\ AuditSpec /\ MembersSpec /\ SignInsSpec
                  /\ LegalDataSpec /\ LegalHoldsSpec /\ IntakeSpec
                  /\ DocumentsSpec /\ VersionsSpec /\ EnvelopesSpec /\ KnowledgeSpec
                  /\ BackupsSpec /\ SweepsSpec
<1>1. OfficeInit => /\ SessionsInit
                    /\ AuditInit /\ MembersInit /\ SignInsInit
                    /\ LegalDataInit /\ LegalHoldsInit /\ IntakeInit
                    /\ DocumentsInit /\ VersionsInit /\ EnvelopesInit /\ KnowledgeInit
                    /\ BackupsInit /\ SweepsInit
  BY DEF OfficeInit
<1> QED
  BY <1>1, OfficeStep, PTL
  DEF OfficeSpec, AuditSpec, MembersSpec, SignInsSpec, LegalDataSpec, LegalHoldsSpec, IntakeSpec,
      DocumentsSpec, VersionsSpec, EnvelopesSpec, KnowledgeSpec, BackupsSpec, SweepsSpec

\* The record that the office is about has its types in every state.
THEOREM OfficeTypeCorrect == OfficeSpec => []OfficeTypeOK
<1>1. /\ AuditTypeOK /\ MembersTypeOK /\ SignInsTypeOK
      /\ LegalDataTypeOK /\ LegalHoldsTypeOK /\ IntakeTypeOK
      /\ DocumentsTypeOK /\ VersionsTypeOK /\ EnvelopesTypeOK /\ KnowledgeTypeOK
      /\ BackupsTypeOK /\ SweepsTypeOK
      => OfficeTypeOK
  BY DEF OfficeTypeOK, Kept
<1> QED
  BY <1>1, OfficeIsEachModule, AuditTypeCorrect, MembersTypeCorrect, SignInsTypeCorrect,
     LegalDataTypeCorrect, HoldsTypeCorrect, IntakeTypeCorrect, DocumentsTypeCorrect,
     VersionsTypeCorrect, EnvelopesTypeCorrect, KnowledgeTypeCorrect, BackupsTypeCorrect,
     SweepsTypeCorrect, PTL

\* The office keeps what each module promises of its records: what the audit chain,
\* the members, the holds, the versions, the backups and the others guarantee.
THEOREM OfficeKeepsItsRecords ==
    ASSUME IsFiniteSet(Logins)
    PROVE  OfficeSpec =>
               /\ [](/\ ChainIntact /\ OwnerUnlessInvited /\ SessionLimit
                    /\ ChangeIsRecorded /\ OneActiveRelease /\ BlockNamesItsHold /\ GatesAgree
                    /\ StoredFileThere /\ ReadyIsExtracted /\ IndexedExist
                    /\ VersionsImmutable /\ CompletedWhenSigned /\ FollowsProvider /\ HistoryAgrees
                    /\ NewestRestorable /\ FilesOfSuccessful /\ SweptOnce)
               /\ ReviewedBeforeActivation
               /\ HeldOrFinalStays
  BY OfficeIsEachModule, ChainAlwaysIntact, OwnerAlwaysLeft, SessionsStayLimited,
     ChangeAlwaysRecorded, OneReleaseActive, BlockAlwaysNamesItsHold, GatesAlwaysAgree,
     StoredFileAlwaysThere, ReadyIsAlwaysExtracted, IndexedAlwaysExist, VersionsAlwaysImmutable,
     AlwaysCompletedWhenSigned, AlwaysFollowsProvider, HistoryAlwaysAgrees, NewestAlwaysRestorable,
     FilesAlwaysOfSuccessful, AlwaysSweptOnce, AlwaysReviewedBeforeActivation,
     HeldOrFinalAlwaysStays, PTL
=============================================================================
