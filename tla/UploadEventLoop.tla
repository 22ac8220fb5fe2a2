-------------------------- MODULE UploadEventLoop --------------------------
(***************************************************************************)
(* The upload endpoint is a coroutine that calls the database and the      *)
(* extractor without awaiting them: it keeps the only thread of the event  *)
(* loop (app/api/v1/public_requests.py, upload_public_document).  The      *)
(* other endpoints are plain functions and run in worker threads, but it   *)
(* is the loop that starts them and, after they returned, that has their   *)
(* session committed (app/api/deps.py, get_db, a generator dependency).    *)
(*                                                                         *)
(* Inserting a document locks its request's row FOR KEY SHARE, because of  *)
(* the foreign key; minting a link updates secure_token_hash, which is     *)
(* unique, so that UPDATE locks the row FOR UPDATE.  The two exclude each  *)
(* other until the commit.  All calls here are about one request.          *)
(***************************************************************************)
CONSTANTS
    Uploads,  \* calls of POST /public/requests/{token}/documents
    Mints,    \* calls that mint a link: send, resend, follow-up, reminders
    Nobody

VARIABLES
    loop,   \* the upload whose coroutine runs on the event loop, or Nobody
    upload, \* every upload: reading, inserting, extracting, returned, done
    mint    \* every minting call: queued, running, flushed, returned, done

vars == <<loop, upload, mint>>

Init ==
    /\ loop = Nobody
    /\ upload = [u \in Uploads |-> "reading"]
    /\ mint = [m \in Mints |-> "queued"]

KeyShared == \E u \in Uploads : upload[u] \in {"extracting", "returned"}

LockedForUpdate == \E m \in Mints : mint[m] \in {"flushed", "returned"}

\* await file.read() is over: the coroutine goes on.
Resume(u) ==
    /\ upload[u] = "reading" /\ loop = Nobody
    /\ loop' = u
    /\ upload' = [upload EXCEPT ![u] = "inserting"]
    /\ UNCHANGED mint

\* upload_for_request: the INSERT, as soon as the row's lock is free.
Insert(u) ==
    /\ upload[u] = "inserting" /\ ~LockedForUpdate
    /\ upload' = [upload EXCEPT ![u] = "extracting"]
    /\ UNCHANGED <<loop, mint>>

\* process: the one call of the provider; the handler returns.
Extract(u) ==
    /\ upload[u] = "extracting"
    /\ upload' = [upload EXCEPT ![u] = "returned"]
    /\ loop' = Nobody
    /\ UNCHANGED mint

CommitUpload(u) ==
    /\ upload[u] = "returned" /\ loop = Nobody
    /\ upload' = [upload EXCEPT ![u] = "done"]
    /\ UNCHANGED <<loop, mint>>

\* The loop hands the call to a worker thread.
Start(m) ==
    /\ mint[m] = "queued" /\ loop = Nobody
    /\ mint' = [mint EXCEPT ![m] = "running"]
    /\ UNCHANGED <<loop, upload>>

\* The flush of the new hash, in the thread.
Flush(m) ==
    /\ mint[m] = "running" /\ ~KeyShared /\ ~LockedForUpdate
    /\ mint' = [mint EXCEPT ![m] = "flushed"]
    /\ UNCHANGED <<loop, upload>>

Return(m) ==
    /\ mint[m] = "flushed"
    /\ mint' = [mint EXCEPT ![m] = "returned"]
    /\ UNCHANGED <<loop, upload>>

\* The loop has the session committed, which frees the row.
CommitMint(m) ==
    /\ mint[m] = "returned" /\ loop = Nobody
    /\ mint' = [mint EXCEPT ![m] = "done"]
    /\ UNCHANGED <<loop, upload>>

UploadStep(u) == Resume(u) \/ Insert(u) \/ Extract(u) \/ CommitUpload(u)
MintStep(m) == Start(m) \/ Flush(m) \/ Return(m) \/ CommitMint(m)

Next == (\E u \in Uploads : UploadStep(u)) \/ (\E m \in Mints : MintStep(m))

\* The loop, the threads, the database and the provider all make progress
\* when they can.
Fairness ==
    /\ \A u \in Uploads : WF_vars(UploadStep(u))
    /\ \A m \in Mints : WF_vars(MintStep(m))

Spec == Init /\ [][Next]_vars /\ Fairness
-----------------------------------------------------------------------------
(* Property *)

\* extraction_service.py:17, "at the cost of the supplier's upload request
\* taking as long as that call": an upload that the loop took up returns, it
\* waits for the provider and for nothing that waits for it.
UploadReturns ==
    \A u \in Uploads : upload[u] = "inserting" ~> upload[u] \in {"returned", "done"}
=============================================================================
