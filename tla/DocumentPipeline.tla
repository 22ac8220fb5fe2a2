-------------------------- MODULE DocumentPipeline --------------------------
(***************************************************************************)
(* What happens to one file: upload, malware scan, storage, extraction,    *)
(* retry and deletion, as overlapping transactions over two stores, the    *)
(* database and the object storage, of which only the first can roll back. *)
(*                                                                         *)
(* Sources: app/services/document_service.py and extraction_service.py,    *)
(* app/integrations/storage, malware and extraction, the models of         *)
(* documents and extracted fields, and the endpoints that commit them      *)
(* (app/api/deps.py, get_db).  The supplier uploads and deletes, the       *)
(* company retries.                                                        *)
(*                                                                         *)
(* A content is what the scanner and the extractor tell apart in a file,   *)
(* a proposal what its evidence is worth; equal proposals of one           *)
(* extraction are one.  ExtractionReview has the same calls as atomic      *)
(* steps, with what the proposals say and their review.                    *)
(***************************************************************************)
EXTENDS Naturals, FiniteSets

CONSTANTS
    Docs,           \* document ids (uuid4: never used twice)
    Calls,          \* calls under way at the same time
    Contents,       \* the files that are uploaded
    NoContent,      \* no object under this path
    NoDocument,     \* no row with this id
    ScannerIsReal,  \* MALWARE_SCAN_PROVIDER=clamav (otherwise the stub)
    MaxSuggestions, \* bound: different suggestions of one extraction
    MaxCalls,       \* bound: calls made
    MaxFailures     \* bound: calls that fail half-way

ContentRecords ==
    [kind     : {"pdf", "image", "sheet", "other"}, \* "sheet": xlsx, csv, docx
     readable : BOOLEAN,                            \* text can be taken from it
     infected : BOOLEAN]

Statuses == {"pending", "processing", "completed", "review_required", "failed"}

DocumentRows == [status : Statuses, error : BOOLEAN, attempts : Nat]

ASSUME DocumentPipelineAssumption ==
    /\ Contents \subseteq ContentRecords
    /\ NoContent \notin ContentRecords
    /\ NoDocument \notin DocumentRows
    /\ ScannerIsReal \in BOOLEAN
    /\ MaxSuggestions \in Nat
    /\ MaxCalls \in Nat
    /\ MaxFailures \in Nat

VARIABLES
    objects,   \* the bucket: the object under every document's path
    documents, \* supplier_documents, committed
    proposals, \* extracted_fields, committed
    tx,        \* the transaction of every call
    made,      \* calls made so far
    failures,  \* calls that failed so far
    origin,    \* history: what was uploaded under every id
    abandoned, \* history: ids whose upload was rolled back
    undone,    \* history: ids with a rolled back deletion that removed the object
    crossed,   \* history: ids with an extraction committed over a row it had not read
    log        \* history: extractions committed, and the call of the last one

stores == <<objects, documents, proposals>>
history == <<origin, abandoned, undone, crossed, log>>
vars == <<stores, tx, made, failures, history>>

Confidences == {"low", "medium", "high"}

Proposals == [doc : Docs, call : Nat, confidence : Confidences, verified : BOOLEAN]

Transactions ==
    [pc    : {"idle", "stored", "loaded", "marked", "processed", "removed", "flushed"},
     kind  : {"upload", "retry", "delete"},
     doc   : Docs,
     id    : 0..MaxCalls,
     base  : DocumentRows,        \* as loaded
     mine  : DocumentRows,        \* as this session has it now
     found : SUBSET Proposals]    \* the rows it inserts, or those it loaded to delete

TypeOK ==
    /\ objects \in [Docs -> Contents \cup {NoContent}]
    /\ documents \in [Docs -> DocumentRows \cup {NoDocument}]
    /\ proposals \subseteq Proposals
    /\ tx \in [Calls -> Transactions]
    /\ made \in 0..MaxCalls
    /\ failures \in 0..MaxFailures
    /\ origin \in [Docs -> Contents \cup {NoContent}]
    /\ abandoned \subseteq Docs
    /\ undone \subseteq Docs
    /\ crossed \subseteq Docs
    /\ log \in [Docs -> [runs : Nat, last : Nat]]

\* The defaults of a new row.
NewDocument == [status |-> "pending", error |-> FALSE, attempts |-> 0]

NoTransaction(d) ==
    [pc |-> "idle", kind |-> "retry", doc |-> d, id |-> 0, base |-> NewDocument,
     mine |-> NewDocument, found |-> {}]

Init ==
    /\ objects = [d \in Docs |-> NoContent]
    /\ documents = [d \in Docs |-> NoDocument]
    /\ proposals = {}
    /\ \E d \in Docs : tx = [k \in Calls |-> NoTransaction(d)]
    /\ made = 0
    /\ failures = 0
    /\ origin = [d \in Docs |-> NoContent]
    /\ abandoned = {}
    /\ undone = {}
    /\ crossed = {}
    /\ log = [d \in Docs |-> [runs |-> 0, last |-> 0]]

ProposalsOf(d) == {p \in proposals : p.doc = d}

\* The row is updated or deleted by a transaction that has not ended.
Locked(d) == \E k \in Calls : tx[k].doc = d /\ tx[k].pc \in {"marked", "processed", "flushed"}

\* The transaction of k ends.
End(k) == tx' = [tx EXCEPT ![k] = NoTransaction(tx[k].doc)]

Begin(k, kind, d, pc, base, mine) ==
    /\ tx[k].pc = "idle"
    /\ made < MaxCalls
    /\ made' = made + 1
    /\ tx' = [tx EXCEPT ![k] = [NoTransaction(d) EXCEPT
                 !.pc = pc, !.kind = kind, !.id = made + 1, !.base = base, !.mine = mine]]
-----------------------------------------------------------------------------
(* What the extractor makes of a content (claude_extraction.py) *)

\* extract_pages returns pages, not None.
HasPages(c) == c.kind \in {"pdf", "sheet"} /\ c.readable

\* build_content_blocks has something to send.
Sendable(c) == c.kind = "sheet" => HasPages(c)

\* verify_quote, for a quote that is or is not on the page it names.
Verified(c, quoted) == HasPages(c) /\ quoted

Rank == [low |-> 0, medium |-> 1, high |-> 2]

Lower(a, b) == IF Rank[a] <= Rank[b] THEN a ELSE b

\* Mutation: a scan is trusted as far as the model trusts itself.
ResolveConfidenceOfScans(said, pages, verified) ==
    IF pages /\ ~verified THEN "low" ELSE said

\* resolve_confidence: what the model said, under the ceiling of the evidence.
ResolveConfidence(said, pages, verified) ==
    Lower(said, IF ~pages THEN "medium" ELSE IF verified THEN "high" ELSE "low")

\* The suggestions that may come of a content; a field the model did not
\* find gives none.
Suggestions(c) ==
    {[confidence |-> ResolveConfidence(said, HasPages(c), Verified(c, quoted)),
      verified |-> Verified(c, quoted)] : said \in Confidences, quoted \in BOOLEAN}
-----------------------------------------------------------------------------
(* Upload *)

\* _validate: extension, declared content type and size.
Accepted(c) == c.kind # "other"

\* scan() returned: found clean, or not looked at by the stub.
PassesScan(c) == ~ScannerIsReal \/ ~c.infected

\* process(): PROCESSING is flushed, the attempt counted.
Marked(row) == [row EXCEPT !.status = "processing", !.attempts = @ + 1]

\* upload_for_request up to the end of storage.upload, then the INSERT, which
\* nobody sees before the commit, and the UPDATE of process.
Upload(k, d, c) ==
    /\ origin[d] = NoContent
    /\ Accepted(c)
    /\ PassesScan(c)
    /\ Begin(k, "upload", d, "stored", NewDocument, Marked(NewDocument))
    /\ objects' = [objects EXCEPT ![d] = c]
    /\ origin' = [origin EXCEPT ![d] = c]
    /\ UNCHANGED <<documents, proposals, failures, abandoned, undone, crossed, log>>
-----------------------------------------------------------------------------
(* Retry *)

\* retry_extraction reads the row.
Retry(k, d) ==
    /\ documents[d] # NoDocument
    /\ Begin(k, "retry", d, "loaded", documents[d], documents[d])
    /\ UNCHANGED <<stores, failures, history>>

\* The UPDATE waits for the row's lock; on a row deleted meanwhile it matches
\* nothing (StaleDataError) and the call is rolled back.
MarkProcessing(k) ==
    LET d == tx[k].doc
    IN  /\ tx[k].kind = "retry" /\ tx[k].pc = "loaded"
        /\ ~Locked(d)
        /\ \/ /\ documents[d] = NoDocument
              /\ End(k)
           \/ /\ documents[d] # NoDocument
              /\ tx' = [tx EXCEPT ![k].pc = "marked", ![k].mine = Marked(tx[k].base)]
        /\ UNCHANGED <<stores, made, failures, history>>
-----------------------------------------------------------------------------
(* Extraction, of an upload or a retry *)

\* Mutation: the error of an earlier attempt is left.
SucceededStillWrong(row, found) ==
    [row EXCEPT !.status = IF \E p \in found : p.confidence = "low"
                           THEN "review_required" ELSE "completed"]

Succeeded(row, found) ==
    [row EXCEPT !.error = FALSE,
                !.status = IF \E p \in found : p.confidence = "low"
                           THEN "review_required" ELSE "completed"]

\* Mutation: a status the enumeration does not have.
FailedOtherwise(row) == [row EXCEPT !.status = "error", !.error = TRUE]

\* _mark_failed
Failed(row) == [row EXCEPT !.status = "failed", !.error = TRUE]

Processes(k) == tx[k].pc \in {"stored", "marked"}

\* The download or the provider fails, which both may at any time.
ExtractFails(k) ==
    /\ Processes(k)
    /\ tx' = [tx EXCEPT ![k].pc = "processed", ![k].mine = Failed(tx[k].mine)]
    /\ UNCHANGED <<stores, made, failures, history>>

ExtractSucceeds(k) ==
    LET d == tx[k].doc
        c == objects[d]
    IN  /\ Processes(k)
        /\ c # NoContent
        /\ Sendable(c)
        /\ \E said \in SUBSET Suggestions(c) :
              LET found == {[doc |-> d, call |-> tx[k].id, confidence |-> s.confidence,
                             verified |-> s.verified] : s \in said}
              IN  /\ Cardinality(said) <= MaxSuggestions
                  /\ tx' = [tx EXCEPT ![k].pc = "processed", ![k].found = found,
                                      ![k].mine = Succeeded(tx[k].mine, found)]
        /\ UNCHANGED <<stores, made, failures, history>>

\* Mutation: the status is compared with the one loaded, as when PROCESSING
\* is not flushed before the extractor runs.
WrittenOverLoaded(t) ==
    [documents[t.doc] EXCEPT
       !.attempts = t.mine.attempts,
       !.status = IF t.mine.status # t.base.status THEN t.mine.status ELSE @,
       !.error = IF t.mine.error # t.base.error THEN t.mine.error ELSE @]

\* The row after the commit: the flush of PROCESSING makes the final status a
\* change in any case, an error equal to the one loaded is not written.
Written(t) ==
    [documents[t.doc] EXCEPT
       !.attempts = t.mine.attempts,
       !.status = t.mine.status,
       !.error = IF t.mine.error # t.base.error THEN t.mine.error ELSE @]

CommitExtraction(k) ==
    LET t == tx[k]
        d == t.doc
    IN  /\ t.pc = "processed"
        /\ documents' = [documents EXCEPT ![d] =
              IF t.kind = "upload" THEN t.mine ELSE Written(t)]
        /\ proposals' = proposals \cup t.found
        /\ crossed' = IF t.kind = "retry" /\ documents[d] # t.base
                      THEN crossed \cup {d} ELSE crossed
        /\ log' = [log EXCEPT ![d] = [runs |-> @.runs + 1, last |-> t.id]]
        /\ End(k)
        /\ UNCHANGED <<objects, made, failures, origin, abandoned, undone>>
-----------------------------------------------------------------------------
(* Deletion *)

\* delete_for_request reads the row.
Delete(k, d) ==
    /\ documents[d] # NoDocument
    /\ Begin(k, "delete", d, "loaded", documents[d], documents[d])
    /\ UNCHANGED <<stores, failures, history>>

\* Mutation: the object is left in the bucket.
RemoveObjectNot(k) ==
    /\ tx[k].kind = "delete" /\ tx[k].pc = "loaded"
    /\ tx' = [tx EXCEPT ![k].pc = "removed", ![k].found = ProposalsOf(tx[k].doc)]
    /\ UNCHANGED <<stores, made, failures, history>>

\* storage.delete, which accepts a missing object; db.delete then loads the
\* proposals that its cascade will delete.
RemoveObject(k) ==
    /\ tx[k].kind = "delete" /\ tx[k].pc = "loaded"
    /\ objects' = [objects EXCEPT ![tx[k].doc] = NoContent]
    /\ tx' = [tx EXCEPT ![k].pc = "removed", ![k].found = ProposalsOf(tx[k].doc)]
    /\ UNCHANGED <<documents, proposals, made, failures, history>>

\* Mutation: no foreign key from extracted_fields to supplier_documents.
ReferencedNever(k) == FALSE

\* A proposal that was committed since the cascade loaded them still refers
\* to the document.
Referenced(k) == ProposalsOf(tx[k].doc) \ tx[k].found # {}

\* The flush deletes the loaded proposals and the row, whose lock it waits
\* for.  A foreign key that would dangle rolls it back; a row that is gone
\* already is a warning.
DeleteRow(k) ==
    LET d == tx[k].doc
    IN  /\ tx[k].pc = "removed"
        /\ ~Locked(d)
        /\ \/ /\ Referenced(k)
              /\ End(k)
              /\ undone' = undone \cup {d}
           \/ /\ ~Referenced(k)
              /\ tx' = [tx EXCEPT ![k].pc = "flushed"]
              /\ UNCHANGED undone
        /\ UNCHANGED <<stores, made, failures, origin, abandoned, crossed, log>>

CommitDelete(k) ==
    /\ tx[k].pc = "flushed"
    /\ documents' = [documents EXCEPT ![tx[k].doc] = NoDocument]
    /\ proposals' = proposals \ tx[k].found
    /\ End(k)
    /\ UNCHANGED <<objects, made, failures, history>>
-----------------------------------------------------------------------------
\* The call is rolled back: an exception, a lost connection, a crash.  The
\* bucket is left as it is.
Fail(k) ==
    LET t == tx[k]
    IN  /\ t.pc # "idle"
        /\ failures < MaxFailures
        /\ failures' = failures + 1
        /\ abandoned' = IF t.kind = "upload" THEN abandoned \cup {t.doc} ELSE abandoned
        /\ undone' = IF t.pc \in {"removed", "flushed"} THEN undone \cup {t.doc} ELSE undone
        /\ End(k)
        /\ UNCHANGED <<stores, made, origin, crossed, log>>

Next ==
    \E k \in Calls :
       \/ \E d \in Docs : \/ \E c \in Contents : Upload(k, d, c)
                          \/ Retry(k, d)
                          \/ Delete(k, d)
       \/ MarkProcessing(k)
       \/ ExtractFails(k)
       \/ ExtractSucceeds(k)
       \/ CommitExtraction(k)
       \/ RemoveObject(k)
       \/ DeleteRow(k)
       \/ CommitDelete(k)
       \/ Fail(k)

Spec == Init /\ [][Next]_vars
-----------------------------------------------------------------------------
(* Properties *)

Stores(k, d) == tx[k].doc = d /\ tx[k].kind = "upload" /\ tx[k].pc # "idle"

Removes(k, d) == tx[k].doc = d /\ tx[k].pc \in {"removed", "flushed"}

\* document_service.py, upload_for_request and delete_for_request: the bucket
\* and the table agree but for what a rollback left behind.  A document
\* without its file has a deletion under way or one that was rolled back; a
\* file without its document is being uploaded or its upload was rolled back.
\* No file gets there that the scanner found infected.
StorageIsAccounted ==
    \A d \in Docs :
       /\ documents[d] # NoDocument /\ objects[d] = NoContent =>
             d \in undone \/ \E k \in Calls : Removes(k, d)
       /\ documents[d] = NoDocument /\ objects[d] # NoContent =>
             d \in abandoned \/ \E k \in Calls : Stores(k, d)
       /\ objects[d] # NoContent /\ ScannerIsReal => ~objects[d].infected

\* A deletion removes the proposals it saw, a retry commits new ones at any
\* time: no proposal is ever left without its document, also while a deletion
\* of it waits for its commit.
ProposalsKeepTheirDocument ==
    \A p \in proposals :
       /\ documents[p.doc] # NoDocument
       /\ \A k \in Calls : tx[k].doc = p.doc /\ tx[k].pc = "flushed" => p \in tx[k].found

FoundLast(d) == {p \in ProposalsOf(d) : p.call = log[d].last}

\* ExtractionStatus: the status of a document tells the outcome of the
\* extraction that committed last, however many ran at once, and PROCESSING
\* is seen by nobody.
StatusTellsLastExtraction ==
    \A d \in Docs : documents[d] # NoDocument =>
       \/ documents[d].status = "failed" /\ FoundLast(d) = {}
       \/ /\ documents[d].status = "review_required"
          /\ \E p \in FoundLast(d) : p.confidence = "low"
       \/ /\ documents[d].status = "completed"
          /\ \A p \in FoundLast(d) : p.confidence # "low"

\* models/supplier_document.py, "set by ExtractionService once a run
\* finishes": attempts are counted and an error is there exactly after a
\* failure, unless extractions of one document overlapped (each counts from
\* what it read, and an outcome it had already read is not written again).
BookkeepingWrongOnlyByOverlap ==
    \A d \in Docs : documents[d] # NoDocument /\ d \notin crossed =>
       /\ documents[d].attempts = log[d].runs
       /\ documents[d].error <=> documents[d].status = "failed"

\* claude_extraction.py, "confidence is a deterministic ceiling": high only
\* with a quote found in text of ours, low when there was text and the quote
\* was not in it, never high without text.
EvidenceIsHonest ==
    \A p \in proposals :
       LET c == origin[p.doc]
       IN  /\ p.confidence = "high" => p.verified
           /\ p.verified => HasPages(c)
           /\ HasPages(c) /\ ~p.verified => p.confidence = "low"
           /\ Sendable(c)
=============================================================================
