-------------------------- MODULE ExtractionReview --------------------------
(***************************************************************************)
(* The data of one compliance request: the packaging components of its     *)
(* products, the documents its supplier attached, and the proposals the    *)
(* extractor read in them, which a company user accepts or rejects.        *)
(*                                                                         *)
(* Sources: app/services/extraction_service.py (process),                  *)
(* extracted_field_service.py (accept, reject), document_service.py        *)
(* (upload, delete), public_request_service.py (save_progress),            *)
(* packaging_component_service.py (create, update).  A product may be in   *)
(* several requests: of the others this module has what they write into    *)
(* the shared components.                                                  *)
(*                                                                         *)
(* Every action is one HTTP call, which is one database transaction: a     *)
(* call that raises is rolled back and changes nothing, so refused calls   *)
(* are not actions.  Whether the request's status and link allow a call is *)
(* added by module RequestLifecycle, which composes these actions.         *)
(***************************************************************************)
EXTENDS MissingInformation

CONSTANTS
    Docs,            \* identities of document rows (reused once deleted)
    Rows,            \* identities of extracted_fields rows (reused once deleted)
    NoRow,           \* an identity no row has now
    SupplierFields,  \* fields the public portal's save payload carries
    TextFields,      \* text columns an edit may set to ""
    RequiredFields,  \* columns that are never empty (packaging_type)
    Valid,           \* Valid[f]: the values the API schemas accept for f
    Stored,          \* Stored[f][v]: what _apply stores for v; its domain: what it accepts
    MaxSuggestions,  \* bound: proposals of one extraction
    MaxEdits         \* bound: slots changed by one edit

ASSUME ExtractionReviewAssumption ==
    /\ IsFiniteSet(Rows)
    /\ NoRow \notin [doc : Docs, comp : Components \cup {NoComponent}, field : Fields,
                      value : Values, review : {"pending", "accepted", "rejected"}]
    /\ SupplierFields \subseteq Fields
    /\ TextFields \subseteq Fields
    /\ RequiredFields \subseteq Fields
    /\ \A f \in Fields : Valid[f] \subseteq Values
    /\ \A f \in Fields : \A v \in DOMAIN Stored[f] : Stored[f][v] \in Values
    /\ MaxSuggestions \in Nat
    /\ MaxEdits \in Nat

VARIABLES
    comps,  \* the components the request's products have now
    value,  \* the columns of every component
    docs,   \* extraction_status of every document, "absent" for no document
    rows    \* the extracted_fields table

reviewVars == <<comps, value, docs, rows>>

ExtractionStatuses == {"completed", "failed", "review_required"}

RowRecords == [doc    : Docs,
               comp   : Components \cup {NoComponent},
               field  : Fields,
               value  : Values,
               review : {"pending", "accepted", "rejected"}]

ReviewTypeOK ==
    /\ comps \subseteq Components
    /\ value \in Valuations
    /\ docs \in [Docs -> ExtractionStatuses \cup {"absent"}]
    /\ rows \in [Rows -> RowRecords \cup {NoRow}]

ReviewInit ==
    /\ comps = {}
    /\ value = [s \in Components \X Fields |-> NoValue]
    /\ docs = [d \in Docs |-> "absent"]
    /\ rows = [r \in Rows |-> NoRow]

LiveRows(rs) == {r \in Rows : rs[r] # NoRow}

PendingRows(rs) == {r \in LiveRows(rs) : rs[r].review = "pending"}

\* list_pending_for_request, as the summary reads it.
PendingProposals(rs) ==
    {[comp |-> rs[r].comp, field |-> rs[r].field, value |-> rs[r].value] : r \in PendingRows(rs)}
-----------------------------------------------------------------------------
(* Extraction *)

\* Mutation: with several components the first one is guessed.
LinkedComponentGuessed == IF comps # {} THEN CHOOSE c \in comps : TRUE ELSE NoComponent

\* _unambiguous_component_id
LinkedComponent ==
    IF \E c \in comps : comps = {c} THEN CHOOSE c \in comps : TRUE ELSE NoComponent

NewRow(d, suggestion) ==
    [doc |-> d, comp |-> LinkedComponent, field |-> suggestion[1], value |-> suggestion[2],
     review |-> "pending"]

\* The suggestions of one extraction, each already given a free row identity.
Extractions ==
    UNION {[S -> Fields \X Values] :
              S \in {T \in SUBSET (Rows \ LiveRows(rows)) : Cardinality(T) <= MaxSuggestions}}

\* Mutation: the failure is not recorded before the commit.
ExtractionFailsUnmarked(d) ==
    /\ docs' = [docs EXCEPT ![d] = "processing"]
    /\ UNCHANGED rows

\* process() when the extractor raises: _mark_failed keeps the older rows.
ExtractionFails(d) ==
    /\ docs' = [docs EXCEPT ![d] = "failed"]
    /\ UNCHANGED rows

\* process() otherwise: one more PENDING row per suggestion, whatever rows
\* the document has already.
ExtractionSucceeds(d) ==
    \E found \in Extractions :
        /\ rows' = [r \in Rows |->
                      IF r \in DOMAIN found THEN NewRow(d, found[r]) ELSE rows[r]]
        /\ \E low \in BOOLEAN :
              /\ low => DOMAIN found # {}
              /\ docs' = [docs EXCEPT ![d] = IF low THEN "review_required" ELSE "completed"]

Process(d) == ExtractionFails(d) \/ ExtractionSucceeds(d)

UploadDocument(d) ==
    /\ docs[d] = "absent"
    /\ Process(d)
    /\ UNCHANGED <<comps, value>>

RetryExtraction(d) ==
    /\ docs[d] # "absent"
    /\ Process(d)
    /\ UNCHANGED <<comps, value>>

\* Mutation: the proposals of a deleted document stay.
DeleteDocumentOnly(d) ==
    /\ docs[d] # "absent"
    /\ docs' = [docs EXCEPT ![d] = "absent"]
    /\ UNCHANGED <<comps, value, rows>>

\* The extracted_fields relationship cascades the deletion.
DeleteDocument(d) ==
    /\ docs[d] # "absent"
    /\ docs' = [docs EXCEPT ![d] = "absent"]
    /\ rows' = [r \in Rows |-> IF rows[r] # NoRow /\ rows[r].doc = d THEN NoRow ELSE rows[r]]
    /\ UNCHANGED <<comps, value>>
-----------------------------------------------------------------------------
(* Review *)

Resolutions == {"none", "use_extracted", "keep_current"}

\* _resolve_component: the link of the row wins over the reviewer's choice c.
TargetComponent(r, c) == IF rows[r].comp # NoComponent THEN rows[r].comp ELSE c

\* Mutation: the conflict is looked for in the reviewer's choice, not in the
\* component the value goes to.
HasConflictWithChoice(r, c) ==
    LET s == <<c, rows[r].field>>
    IN  value[s] # NoValue /\ ValuesDiffer(s[2], value[s], rows[r].value)

HasConflict(r, c) ==
    LET s == <<TargetComponent(r, c), rows[r].field>>
    IN  value[s] # NoValue /\ ValuesDiffer(s[2], value[s], rows[r].value)

Decide(r, review, comp) ==
    rows' = [rows EXCEPT ![r].review = review, ![r].comp = comp]

KeepCurrent(r, c) ==
    /\ HasConflict(r, c)
    /\ Decide(r, "rejected", rows[r].comp)
    /\ UNCHANGED value

\* Mutation: the text of the proposal is parsed, and stored as it was.
ApplyExtractedRaw(r, c) ==
    LET s == <<TargetComponent(r, c), rows[r].field>>
    IN  /\ rows[r].value \in DOMAIN Stored[s[2]]
        /\ value' = [value EXCEPT ![s] = rows[r].value]
        /\ Decide(r, "accepted", s[1])

\* _apply raises for a value outside the domain of Stored.
ApplyExtracted(r, c) ==
    LET s == <<TargetComponent(r, c), rows[r].field>>
    IN  /\ rows[r].value \in DOMAIN Stored[s[2]]
        /\ value' = [value EXCEPT ![s] = Stored[s[2]][rows[r].value]]
        /\ Decide(r, "accepted", s[1])

AcceptField(r, c, resolution) ==
    /\ r \in PendingRows(rows)
    /\ TargetComponent(r, c) \in comps
    /\ HasConflict(r, c) => resolution # "none"
    /\ IF HasConflict(r, c) /\ resolution = "keep_current"
       THEN KeepCurrent(r, c)
       ELSE ApplyExtracted(r, c)
    /\ UNCHANGED <<comps, docs>>

\* Mutation: a proposal that was already reviewed can be rejected.
RejectFieldAgain(r) ==
    /\ r \in LiveRows(rows)
    /\ Decide(r, "rejected", rows[r].comp)
    /\ UNCHANGED <<comps, value, docs>>

RejectField(r) ==
    /\ r \in PendingRows(rows)
    /\ Decide(r, "rejected", rows[r].comp)
    /\ UNCHANGED <<comps, value, docs>>
-----------------------------------------------------------------------------
(* Typed edits *)

\* What a payload may set f to: a valid value, or "" in a text column.
Typed(f) == Valid[f] \cup (IF f \in TextFields \ RequiredFields THEN {NoValue} ELSE {})

\* Payloads that set some of the slots S and leave the others out.
Edits(S) ==
    UNION {{e \in [E -> Values \cup {NoValue}] : \A s \in E : e[s] \in Typed(s[2])} :
              E \in {T \in SUBSET S : Cardinality(T) <= MaxEdits}}

WriteEdit(e) ==
    value' = [s \in Components \X Fields |-> IF s \in DOMAIN e THEN e[s] ELSE value[s]]

\* save_progress: the supplier's part of the columns, all or nothing.
SaveProgress(e) ==
    /\ e \in Edits(comps \X SupplierFields)
    /\ WriteEdit(e)
    /\ UNCHANGED <<comps, docs, rows>>

\* PackagingComponentService.update, by the company.
UpdateComponent(c, e) ==
    /\ c \in comps
    /\ e \in Edits({c} \X Fields)
    /\ WriteEdit(e)
    /\ UNCHANGED <<comps, docs, rows>>

\* PackagingComponentService.create for a product of the request.
CreateComponent(c, e) ==
    /\ c \in Components \ comps
    /\ e \in [{c} \X Fields -> Values \cup {NoValue}]
    /\ \A s \in DOMAIN e : \/ e[s] \in Typed(s[2])
                           \/ e[s] = NoValue /\ s[2] \notin RequiredFields
    /\ comps' = comps \cup {c}
    /\ WriteEdit(e)
    /\ UNCHANGED <<docs, rows>>

\* accept of a proposal that another request of the company has for a
\* component of both.
AcceptElsewhere(c, f, v) ==
    /\ c \in comps
    /\ v \in DOMAIN Stored[f]
    /\ value' = [value EXCEPT ![<<c, f>>] = Stored[f][v]]
    /\ UNCHANGED <<comps, docs, rows>>
-----------------------------------------------------------------------------
ReviewNext ==
    \/ \E d \in Docs : UploadDocument(d) \/ RetryExtraction(d) \/ DeleteDocument(d)
    \/ \E r \in Rows :
          \/ \E c \in Components, resolution \in Resolutions : AcceptField(r, c, resolution)
          \/ RejectField(r)
    \/ \E e \in Edits(comps \X SupplierFields) : SaveProgress(e)
    \/ \E c \in Components :
          \/ \E e \in Edits({c} \X Fields) : UpdateComponent(c, e)
          \/ \E e \in [{c} \X Fields -> Values \cup {NoValue}] : CreateComponent(c, e)
          \/ \E f \in Fields : \E v \in DOMAIN Stored[f] : AcceptElsewhere(c, f, v)

ReviewSpec == ReviewInit /\ [][ReviewNext]_reviewVars
-----------------------------------------------------------------------------
(* Properties *)

Accepts(r) == r \in PendingRows(rows) /\ rows'[r] # NoRow /\ rows'[r].review = "accepted"

WriteHasProvenance ==
    value' # value =>
        \/ rows' = rows
        \/ \E r \in Rows :
              /\ Accepts(r)
              /\ \A q \in Rows \ {r} : rows'[q] = rows[q]
              /\ LET s == <<rows'[r].comp, rows[r].field>>
                 IN  value' = [value EXCEPT ![s] = Stored[s[2]][rows[r].value]]

\* README "Never overwrite without approval": the only way data of the
\* extraction reaches a component is one accepted proposal.  A step that
\* changes any column either leaves every proposal alone (somebody typed the
\* value, or accepted one of another request) or accepts exactly one proposal
\* and writes only the slot of the component that proposal now names, with what
\* that proposal said.
ValueHasProvenance == [][WriteHasProvenance]_reviewVars

AcceptWithoutResolution ==
    \E r \in Rows, c \in Components : AcceptField(r, c, "none")

AcceptFindsNoConflict(r) ==
    LET s == <<rows'[r].comp, rows[r].field>>
    IN  value[s] = NoValue \/ ~ValuesDiffer(s[2], value[s], rows[r].value)

\* FieldConflictError: an accept that names no conflict resolution never
\* replaces a value by one the code finds different from it, whichever of the
\* row's link and the reviewer's choice decides the component.
NoSilentOverwrite ==
    [][AcceptWithoutResolution =>
          \A r \in Rows : Accepts(r) => AcceptFindsNoConflict(r)]_reviewVars

\* Every proposal belongs to a document that still exists, is linked only to a
\* component of this very request (ComponentNotInRequestError, and the cross
\* request leak it prevents), and an accepted one names that component.
LinksStayValid ==
    \A r \in LiveRows(rows) :
        /\ docs[rows[r].doc] # "absent"
        /\ rows[r].comp \in comps \cup {NoComponent}
        /\ rows[r].review = "accepted" => rows[r].comp # NoComponent

LinkHasReason(r) ==
    (rows'[r] # NoRow /\ rows'[r].comp # NoComponent) =>
        \/ rows[r] = NoRow /\ comps = {rows'[r].comp}
        \/ rows[r] # NoRow /\ rows[r].comp = rows'[r].comp
        \/ Accepts(r) /\ rows[r].comp = NoComponent

\* A proposal is never linked by guessing: a row that appears with a link
\* appears while the request covers that single component, and a link is set
\* or changed afterwards only by the accept of an unlinked row.
LinkIsNeverGuessed == [][\A r \in Rows : LinkHasReason(r)]_reviewVars

ProposalIsKept(r) ==
    \/ rows'[r] = rows[r]
    \/ rows'[r] = NoRow /\ docs'[rows[r].doc] = "absent"
    \/ /\ rows[r].review = "pending"
       /\ rows'[r] # NoRow
       /\ rows'[r].review # "pending"
       /\ rows'[r].doc = rows[r].doc
       /\ rows'[r].field = rows[r].field
       /\ rows'[r].value = rows[r].value

\* FieldAlreadyReviewedError, and "a failed extraction never deletes or loses
\* the original document": a reviewed proposal never changes again, a pending
\* one changes only by its review, and either disappears only together with
\* its document.
ProposalsAreKept == [][\A r \in LiveRows(rows) : ProposalIsKept(r)]_reviewVars
=============================================================================
