------------------------------ MODULE MCOffice ------------------------------
(***************************************************************************)
(* The model-checking instance of the modules about the practice's         *)
(* records.  They share no state but the way their requests use the        *)
(* database, so a behaviour is about one of them: focus says which, and    *)
(* the others keep their initial state.                                    *)
(***************************************************************************)
EXTENDS AuditChain, Members, SignIns, LegalData, LegalHolds, Versions, Envelopes, Backups,
        Intake, Sweeps, Documents, Knowledge, TLC

CONSTANTS
    Focuses,
    s1, s2, x1, x2, m1, d1, d2, u1, u2, u3, f1, f2

VARIABLE focus

vars == <<focus, overlap, auditVars, membersVars, signInsVars, legalVars, holdsVars,
          versionsVars, envelopesVars, backupsVars, intakeVars, sweepsVars, documentsVars,
          knowledgeVars>>

\* Two revisions of two statutes; the second manifest also has a bad item.
Feed == {[text |-> s1 :> x1 @@ s2 :> x1, bad |-> FALSE],
         [text |-> s1 :> x2 @@ s2 :> None, bad |-> TRUE]}

\* d1 deletes a document of the matter, d2 a draft.
MatterOf == d1 :> m1 @@ d2 :> None

\* Two of three requests upload files of one name.
NameOf == u1 :> f1 @@ u2 :> f1 @@ u3 :> f2

\* Two documents with the same contents.
ContentsOf == d1 :> f1 @@ d2 :> f1

\* A bound: only one statute is imported directly, and a release is considered together
\* with a direct import only one request at a time and only one of the two.
Considered == {r \in Releases : release[r] # "draft" \/ \E d \in Managers : desk[d].on = r}
Extent ==
    /\ \A c \in Importers : importing[c].on \in {None, s1}
    /\ \/ Considered = {}
       \/ ~overlap /\ Considered # Releases
       \/ untracked = {} /\ \A c \in Importers : importing[c] = NoImport

-----------------------------------------------------------------------------
OfficeInit ==
    /\ focus \in Focuses
    /\ SessionsInit
    /\ AuditInit /\ MembersInit /\ SignInsInit /\ LegalDataInit /\ LegalHoldsInit
    /\ VersionsInit /\ EnvelopesInit /\ BackupsInit
    /\ IntakeInit /\ SweepsInit /\ DocumentsInit /\ KnowledgeInit
    \* What another module's behaviour does not depend on has one value.
    /\ focus \in {"audit", "backups"} => overlap
    /\ focus = "intake" => ~overlap
    /\ focus # "sweeps" => partner
    /\ focus # "envelopes" => channel = "orderly" /\ eventIds
    /\ focus = "envelopes" /\ overlap => channel = "any" /\ eventIds

Stay(name, state) == focus # name => UNCHANGED state

OfficeNext ==
    /\ \/ focus = "audit" /\ AuditNext /\ UNCHANGED overlap
       \/ focus = "members" /\ MembersNext
       \/ focus = "sign-ins" /\ SignInsNext
       \/ focus = "legal data" /\ LegalDataNext
       \/ focus = "holds" /\ LegalHoldsNext
       \/ focus = "versions" /\ VersionsNext
       \/ focus = "envelopes" /\ EnvelopesNext
       \/ focus = "backups" /\ BackupsNext /\ UNCHANGED overlap
       \/ focus = "intake" /\ IntakeNext /\ UNCHANGED overlap
       \/ focus = "sweeps" /\ SweepsNext
       \/ focus = "documents" /\ DocumentsNext
       \/ focus = "knowledge" /\ KnowledgeNext
    /\ UNCHANGED focus
    /\ Stay("audit", auditVars)
    /\ Stay("members", membersVars)
    /\ Stay("sign-ins", signInsVars)
    /\ Stay("legal data", legalVars)
    /\ Stay("holds", holdsVars)
    /\ Stay("versions", versionsVars)
    /\ Stay("envelopes", envelopesVars)
    /\ Stay("backups", backupsVars)
    /\ Stay("intake", intakeVars)
    /\ Stay("sweeps", sweepsVars)
    /\ Stay("documents", documentsVars)
    /\ Stay("knowledge", knowledgeVars)

OfficeSpec ==
    /\ OfficeInit /\ [][OfficeNext]_vars
    /\ \A w \in Writers : WF_auditVars(focus = "audit" /\ WriterStep(w))

Kept(name, holds) == focus = name => holds
OfficeTypeOK ==
    /\ Kept("audit", AuditTypeOK)
    /\ Kept("members", MembersTypeOK)
    /\ Kept("sign-ins", SignInsTypeOK)
    /\ Kept("legal data", LegalDataTypeOK)
    /\ Kept("holds", LegalHoldsTypeOK)
    /\ Kept("versions", VersionsTypeOK)
    /\ Kept("envelopes", EnvelopesTypeOK)
    /\ Kept("backups", BackupsTypeOK)
    /\ Kept("intake", IntakeTypeOK)
    /\ Kept("sweeps", SweepsTypeOK)
    /\ Kept("documents", DocumentsTypeOK)
    /\ Kept("knowledge", KnowledgeTypeOK)
=============================================================================
