------------------------------ MODULE Knowledge ------------------------------
(***************************************************************************)
(* One asset of the firm's knowledge: services/knowledge/service.py.  It   *)
(* is edited, submitted, approved and retired; every edit that changes its *)
(* content_hash adds a version and takes an approval back.  The requests   *)
(* about an asset load it, await access checks, its tags or the chain of   *)
(* audit entries, and commit later.                                        *)
(*                                                                         *)
(* The content of an asset is two columns, so that two edits may change    *)
(* different ones; a hash is as good as what it was computed of.           *)
(***************************************************************************)
EXTENDS Sessions, Naturals

CONSTANTS
    Readers,     \* requests about the asset open at the same time
    Bodies,      \* values of title, body_en, body_hi and summary
    MaxVersions  \* bound on the number of versions

ASSUME KnowledgeAssumption ==
    /\ None \notin Bodies /\ None \notin Bodies \X Bodies
    /\ MaxVersions \in Nat \ {0}

VARIABLES
    asset,     \* knowledge_assets: status, content and content_hash
    revision,  \* knowledge_asset_versions: the content_hash of each number
    approved,  \* the hash of the content that the last approval had loaded
    review   \* open requests

knowledgeVars == <<asset, revision, approved, review>>

AssetStatuses == {"draft", "in_review", "approved", "retired"}
content_hash(title, body) == <<title, body>>
Hashes == Bodies \X Bodies

-----------------------------------------------------------------------------
Revisions == 1..MaxVersions
NoAsset == [status |-> "absent", title |-> None, body |-> None, hash |-> None]
NoReview == [step |-> "idle", loaded |-> NoAsset, new |-> NoAsset, number |-> 0]

KnowledgeInit ==
    /\ asset = NoAsset
    /\ revision = [n \in Revisions |-> None]
    /\ approved = None
    /\ review = [r \in Readers |-> NoReview]

create_asset(title, body) ==
    LET hash == content_hash(title, body) IN
    /\ asset = NoAsset
    /\ asset' = [status |-> "draft", title |-> title, body |-> body, hash |-> hash]
    /\ revision' = [revision EXCEPT ![1] = hash]
    /\ UNCHANGED <<approved, review, overlap>>

Loads(r, step, new) ==
    /\ MayOpen(review, NoReview, r)
    /\ asset # NoAsset
    /\ review' = [review EXCEPT ![r] =
           [step |-> step, loaded |-> asset, new |-> new, number |-> 0]]
    /\ UNCHANGED <<asset, revision, approved, overlap>>

StaysApproved(status) == status                              \* mutant: an edit keeps the approval
AfterEdit(status) == IF status = "approved" THEN "in_review" ELSE status

\* update_asset with an edit that changes the hash; one that does not writes nothing
\* that is modelled.
EditRead(r, title, body) ==
    LET hash == content_hash(title, body) IN
    /\ hash # asset.hash
    /\ Loads(r, "edit", [status |-> AfterEdit(asset.status),
                         title |-> title, body |-> body, hash |-> hash])

\* The greatest number is read later than the asset.
EditNumber(r) ==
    /\ review[r].step = "edit"
    /\ \E n \in Revisions :
          /\ \A k \in Revisions : revision[k] = None <=> k >= n
          /\ review' = [review EXCEPT ![r].step = "numbered", ![r].number = n]
    /\ UNCHANGED <<asset, revision, approved, overlap>>

\* submit_for_review, approve_asset and retire_asset.
StatusRead(r, status) ==
    /\ status = "in_review" => asset.status # "retired"
    /\ Loads(r, "status", [asset EXCEPT !.status = status])

\* The row with the columns that a request changed.
Merged(loaded, new) ==
    [status |-> Written(new.status, loaded.status, asset.status),
     title  |-> Written(new.title, loaded.title, asset.title),
     body   |-> Written(new.body, loaded.body, asset.body),
     hash   |-> Written(new.hash, loaded.hash, asset.hash)]

\* uq_knowledge_asset_version_number refuses a number that another edit took.
EditCommit(r) ==
    LET q == review[r] IN
    /\ q.step = "numbered"
    /\ revision[q.number] = None
    /\ asset' = Merged(q.loaded, q.new)
    /\ revision' = [revision EXCEPT ![q.number] = q.new.hash]
    /\ review' = [review EXCEPT ![r] = NoReview]
    /\ UNCHANGED <<approved, overlap>>

StatusCommit(r) ==
    LET q == review[r] IN
    /\ q.step = "status"
    /\ asset' = Merged(q.loaded, q.new)
    /\ approved' = IF q.new.status = "approved"
                   THEN content_hash(q.loaded.title, q.loaded.body) ELSE approved
    /\ review' = [review EXCEPT ![r] = NoReview]
    /\ UNCHANGED <<revision, overlap>>

RequestFails(r) ==
    /\ review[r] # NoReview
    /\ review' = [review EXCEPT ![r] = NoReview]
    /\ UNCHANGED <<asset, revision, approved, overlap>>

KnowledgeNext ==
    \/ \E title, body \in Bodies : create_asset(title, body)
    \/ \E r \in Readers :
          \/ \E title, body \in Bodies : EditRead(r, title, body)
          \/ EditNumber(r) \/ EditCommit(r)
          \/ \E status \in AssetStatuses \ {"draft"} : StatusRead(r, status)
          \/ StatusCommit(r)
          \/ RequestFails(r)

KnowledgeSpec == SessionsInit /\ KnowledgeInit /\ [][KnowledgeNext]_<<knowledgeVars, overlap>>

-----------------------------------------------------------------------------
AssetRows == [status : AssetStatuses, title : Bodies, body : Bodies, hash : Hashes] \cup {NoAsset}
KnowledgeTypeOK ==
    /\ asset \in AssetRows
    /\ revision \in [Revisions -> Hashes \cup {None}]
    /\ approved \in Hashes \cup {None}
    /\ review \in [Readers -> [step : {"idle", "edit", "numbered", "status"},
                                 loaded : AssetRows, new : AssetRows, number : Revisions \cup {0}]]

Newest(n) == revision[n] # None /\ \A k \in Revisions : k > n => revision[k] = None

\* The content_hash of an asset is that of its newest version, whatever edits overlap
\* or fail; and unless requests overlap it is the hash of the content, and the content
\* of an approved asset is what was approved (update_asset, approve_asset).
HistoryAgrees ==
    /\ \A n \in Revisions : Newest(n) => asset.hash = revision[n]
    /\ ~overlap /\ asset # NoAsset =>
          /\ asset.hash = content_hash(asset.title, asset.body)
          /\ asset.status = "approved" => approved = asset.hash
=============================================================================
