----------------------------- MODULE Envelopes -----------------------------
(***************************************************************************)
(* One e-signature envelope.  services/collaboration/service.py creates a  *)
(* manual one, sends it and marks its signers as signed by hand;           *)
(* services/integrations/service.py creates one at DocuSign and applies    *)
(* the status that DocuSign's webhooks report to the envelope whose        *)
(* provider_reference is DocuSign's id.  A draft that was made there may   *)
(* be sent by hand as well, which gives it a reference of the office's.    *)
(***************************************************************************)
EXTENDS Sessions, Naturals, FiniteSetsExt

CONSTANTS
    Signers,
    Clerks,      \* requests of the office open at the same time
    Deliveries,  \* webhook requests open at the same time
    Attempts,    \* a redelivery of an event has another body
    Events       \* the statuses that DocuSign reports

VARIABLES
    envelope, \* esignature_envelopes: provider, status and provider_reference
    signer,   \* esignature_signers
    clerk,    \* open requests of the office
    channel,  \* whether DocuSign's deliveries arrive in order, one at a time
    eventIds, \* whether they carry an eventId
    posted,   \* what DocuSign has reported or is about to report
    hook,     \* open webhook requests
    received, \* integration_webhook_events: the external ids
    applied   \* the last status that was applied; for the properties

envelopesVars == <<envelope, signer, clerk, channel, eventIds, posted, hook, received, applied>>
officeVars == <<envelope, signer, clerk>>
hookVars == <<hook, received, applied>>
providerVars == <<channel, eventIds, posted>>

EnvelopeStatuses == {"draft", "sent", "viewed", "completed", "declined", "voided"}
SignerStatuses == {"pending", "sent", "signed"}

\* DocuSign's statuses and what they become here; "created" becomes nothing.
Mapping == [sent |-> "sent", delivered |-> "viewed", completed |-> "completed",
            declined |-> "declined", voided |-> "voided"]
ASSUME EnvelopesAssumption ==
    /\ Signers # {}
    /\ {"created", "sent"} \subseteq Events /\ Events \subseteq DOMAIN Mapping \cup {"created"}
    /\ None \notin {"created", "create", "send", "mark", "manual", "docusign", "theirs", "ours"}
                    \cup DOMAIN Mapping
Rank(e) == CASE e = "created" -> 0 [] e = "sent" -> 1 [] e = "delivered" -> 2 [] OTHER -> 3

-----------------------------------------------------------------------------
\* A provider_reference is DocuSign's id of the envelope, the one that send_envelope
\* makes of the row's own id, or not set.
References == {None, "theirs", "ours"}
NoEnvelope == [provider |-> None, status |-> "absent", reference |-> None]
NoRequest == [kind |-> None, on |-> None, status |-> None, loaded |-> None]
NoDelivery == [event |-> None, id |-> None, loaded |-> None]

EnvelopesInit ==
    /\ envelope = NoEnvelope
    /\ signer = [s \in Signers |-> "pending"]
    /\ clerk = [c \in Clerks |-> NoRequest]
    /\ channel \in {"orderly", "any"}
    /\ eventIds \in BOOLEAN
    /\ posted = {}
    /\ hook = [d \in Deliveries |-> NoDelivery]
    /\ received = {}
    /\ applied = None

NoHook == \A d \in Deliveries : hook[d] = NoDelivery
Turn(c) == MayOpen(clerk, NoRequest, c) /\ (overlap \/ NoHook)
Answered(c) == clerk' = [clerk EXCEPT ![c] = NoRequest]

create_envelope(c) ==
    /\ Turn(c)
    /\ envelope = NoEnvelope
    /\ posted = {} /\ \A q \in Clerks : clerk[q] = NoRequest
    /\ envelope' = [provider |-> "manual", status |-> "draft", reference |-> None]
    /\ UNCHANGED <<signer, clerk, providerVars, hookVars, overlap>>

\* create_docusign_envelope: DocuSign has the envelope before the database has it.
DocusignCreates(c, status) ==
    /\ Turn(c)
    /\ envelope = NoEnvelope /\ posted = {}
    /\ clerk' = [clerk EXCEPT ![c] = [NoRequest EXCEPT !.kind = "create", !.status = status]]
    /\ posted' = {IF status = "sent" THEN "sent" ELSE "created"}
    /\ UNCHANGED <<envelope, signer, channel, eventIds, hookVars, overlap>>

DocusignCreateCommit(c) ==
    /\ clerk[c].kind = "create"
    /\ envelope' = [provider |-> "docusign", status |-> clerk[c].status, reference |-> "theirs"]
    /\ signer' = [s \in Signers |-> IF clerk[c].status = "sent" THEN "sent" ELSE "pending"]
    /\ Answered(c)
    /\ UNCHANGED <<providerVars, hookVars, overlap>>

SendRead(c) ==
    /\ Turn(c)
    /\ envelope.status = "draft"
    /\ clerk' = [clerk EXCEPT ![c] = [NoRequest EXCEPT !.kind = "send", !.loaded = signer]]
    /\ UNCHANGED <<envelope, signer, providerVars, hookVars, overlap>>

Marking(s) == \E c \in Clerks : clerk[c].kind = "mark" /\ clerk[c].on = s

\* send_envelope does not look at the provider.  It waits for the signers that a mark
\* has flushed.
SendCommit(c) ==
    /\ clerk[c].kind = "send"
    /\ \A s \in Signers : ~Marking(s)
    /\ envelope' = [envelope EXCEPT !.status = "sent", !.reference = "ours"]
    /\ signer' = [s \in Signers |-> Written("sent", clerk[c].loaded[s], signer[s])]
    /\ Answered(c)
    /\ UNCHANGED <<providerVars, hookVars, overlap>>

NoneIsAsked(s) == \A t \in Signers \ {s} : signer[t] # "sent" \* mutant: pending ones are not counted
NoneRemains(s) == \A t \in Signers \ {s} : signer[t] = "signed"

\* mark_signer_signed flushes the signer and counts those that remain; the status of
\* the envelope and of the signer are not looked at.
MarkRead(c, s) ==
    /\ Turn(c)
    /\ envelope # NoEnvelope
    /\ ~Marking(s)
    /\ clerk' = [clerk EXCEPT ![c] = [kind |-> "mark", on |-> s, loaded |-> envelope.status,
           status |-> IF NoneRemains(s) THEN "completed" ELSE envelope.status]]
    /\ UNCHANGED <<envelope, signer, providerVars, hookVars, overlap>>

MarkCommit(c) ==
    /\ clerk[c].kind = "mark"
    /\ signer' = [signer EXCEPT ![clerk[c].on] = "signed"]
    /\ envelope' = [envelope EXCEPT !.status = Written(clerk[c].status, clerk[c].loaded, @)]
    /\ Answered(c)
    /\ UNCHANGED <<providerVars, hookVars, overlap>>

\* An error or a crash before the commit: what DocuSign has stays there.
ClerkFails(c) ==
    /\ clerk[c] # NoRequest
    /\ Answered(c)
    /\ UNCHANGED <<envelope, signer, providerVars, hookVars, overlap>>

-----------------------------------------------------------------------------
Reported == Max({Rank(e) : e \in posted})

\* DocuSign's envelope goes on.
ProviderPosts(e) ==
    /\ posted # {}
    /\ Rank(e) > Reported
    /\ posted' = posted \cup {e}
    /\ UNCHANGED <<officeVars, channel, eventIds, hookVars, overlap>>

BodyHash(e, attempt) == <<e, attempt>>                       \* mutant: the event's id is not used
external_id(e, attempt) == <<IF eventIds THEN e ELSE "envelope", 0>>

\* An orderly channel delivers an event when the earlier ones were answered, and one
\* at a time; it may deliver one again that was answered already.
InOrder(e) ==
    /\ NoHook
    /\ envelope # NoEnvelope
    /\ \A f \in posted : Rank(f) < Rank(e) => external_id(f, 1) \in received

Duplicate(e, attempt) == external_id(e, attempt) \in received

\* receive_webhook up to the insert.  One that is not valid is stored as rejected,
\* and its redelivery finds it.
WebhookRead(d, e, attempt, valid) ==
    /\ MayOpen(hook, NoDelivery, d) /\ (overlap \/ \A c \in Clerks : clerk[c] = NoRequest)
    /\ e \in posted
    /\ channel = "orderly" => InOrder(e) /\ valid
    /\ ~Duplicate(e, attempt)
    /\ hook' = [hook EXCEPT ![d] =
           [event |-> IF valid THEN e ELSE None, id |-> external_id(e, attempt), loaded |-> envelope]]
    /\ UNCHANGED <<officeVars, providerVars, received, applied, overlap>>

\* uq_integration_webhook_event_external: another delivery of it has committed.
WebhookRefused(d) ==
    /\ hook[d].id \in received
    /\ hook' = [hook EXCEPT ![d] = NoDelivery]
    /\ UNCHANGED <<officeVars, providerVars, received, applied, overlap>>

\* _apply_verified_webhook looks for the envelope by DocuSign's id.
Applies(d) == hook[d].event \in DOMAIN Mapping /\ hook[d].loaded.reference = "theirs"

\* The status of the delivery is applied and committed with it.
WebhookCommit(d) ==
    LET h == hook[d] IN
    /\ h # NoDelivery
    /\ h.id \notin received
    /\ received' = received \cup {h.id}
    /\ envelope' = IF Applies(d) THEN [envelope EXCEPT
                       !.status = Written(Mapping[h.event], h.loaded.status, @)] ELSE envelope
    /\ applied' = IF Applies(d) THEN h.event ELSE applied
    /\ hook' = [hook EXCEPT ![d] = NoDelivery]
    /\ UNCHANGED <<signer, clerk, providerVars, overlap>>

EnvelopesNext ==
    \/ \E c \in Clerks :
          \/ create_envelope(c)
          \/ \E status \in {"draft", "sent"} : DocusignCreates(c, status)
          \/ DocusignCreateCommit(c)
          \/ SendRead(c) \/ SendCommit(c) \/ ClerkFails(c)
          \/ \E s \in Signers : MarkRead(c, s)
          \/ MarkCommit(c)
    \/ \E e \in Events : ProviderPosts(e)
    \/ \E d \in Deliveries, e \in Events, attempt \in Attempts, valid \in BOOLEAN :
          WebhookRead(d, e, attempt, valid)
    \/ \E d \in Deliveries : WebhookRefused(d) \/ WebhookCommit(d)

EnvelopesSpec == SessionsInit /\ EnvelopesInit /\ [][EnvelopesNext]_<<envelopesVars, overlap>>

-----------------------------------------------------------------------------
EnvelopesTypeOK ==
    /\ envelope \in [provider : {None, "manual", "docusign"}, status : EnvelopeStatuses \cup {"absent"},
                    reference : References]
    /\ signer \in [Signers -> SignerStatuses]
    /\ \A c \in Clerks : clerk[c].kind \in {None, "create", "send", "mark"}
    /\ posted \subseteq Events
    /\ \A d \in Deliveries : hook[d].event \in Events \cup {None}
    /\ applied \in Events \cup {None}

AllSigned == \A s \in Signers : signer[s] = "signed"

\* One request at a time, a manual envelope is completed exactly when all of its
\* signers are marked, also if some are marked before it is sent: sending it
\* takes their marks back (mark_signer_signed, send_envelope).  One of DocuSign is
\* completed only then or if DocuSign said so, whatever its deliveries do.
CompletedWhenSigned ==
    ~overlap =>
        /\ envelope.provider = "manual" => (envelope.status = "completed" <=> AllSigned)
        /\ envelope.status = "completed" => AllSigned \/ "completed" \in posted

\* If the deliveries arrive in order and carry an id of their own, an envelope of
\* DocuSign that nobody sends or marks by hand has the status that DocuSign reported
\* last, however often an event is delivered again: every status that was received
\* was applied, and no later than its successors (_normalize_webhook, receive_webhook).
Ordinary == channel = "orderly" /\ eventIds /\ ~overlap /\ \A s \in Signers : signer[s] # "signed"
Applied(e) == applied # None /\ Rank(e) <= Rank(applied)
ReceivedApplied == \A e \in posted \ {"created"} : external_id(e, 1) \in received => Applied(e)
FollowsProvider ==
    Ordinary /\ envelope.reference = "theirs" =>
        ReceivedApplied /\ (applied # None => envelope.status = Mapping[applied])

\* "DocuSign Connect webhook HMAC verification updates the corresponding local envelope
\* through an external-resource mapping" (README.md:51): an envelope that was created at
\* DocuSign is completed when it is told so, also if it was sent by hand.
UpdatesTheEnvelope ==
    Ordinary /\ envelope.provider = "docusign" /\ external_id("completed", 1) \in received
        => envelope.status = "completed"
=============================================================================
