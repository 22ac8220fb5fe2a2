--------------------- MODULE RequestTransactions_proofs ---------------------
(***************************************************************************)
(* Proofs about the overlapping calls on one request: whatever overlaps,   *)
(* the request's row stays coherent, and a revocation is undone only by a  *)
(* resend that had seen it; what module RequestWorkflow promises is broken *)
(* by overlaps only, and calls that never overlap implement it.            *)
(*                                                                         *)
(* The invariant is about every open session: what it has loaded was a     *)
(* coherent row, what it has written so far can be laid over any coherent  *)
(* row that is no older.  A session that nobody's commit has overlapped    *)
(* has loaded what is committed, and takes the work from there to what it  *)
(* leaves by a step of the workflow.                                       *)
(***************************************************************************)
EXTENDS RequestTransactions, FiniteSetTheorems, SequenceTheorems, TLAPS

\* What RowIsCoherent says of a row, once the tokens in carried were emailed,
\* and that a draft is not revoked.
Coherent(row, carried) ==
    /\ row.token = NoToken <=> row.status = "draft"
    /\ row.token # NoToken => row.token \in carried
    /\ row.snapshot # NoSnapshot <=> row.submitted
    /\ row.status = "draft" => ~row.revoked

\* The calls that write a status whatever it is by then.
Overwriting == {"send", "open", "save", "submit"}

\* A session that has written: the token it leaves was emailed, the request
\* it leaves is no draft, only a resend has revived a link, only some calls
\* have written a status but "completed".
WriteSound(t, carried) ==
    /\ t.mine.row.token \in carried
    /\ t.mine.row.status # "draft"
    /\ t.base.row.revoked /\ ~t.mine.row.revoked => t.call.kind = "resend"
    /\ t.mine.row.status \in {t.base.row.status, "completed"} \/ t.call.kind \in Overwriting

\* Before reevaluate a submission has been noted and no snapshot taken.
BeforeSnapshot(t) ==
    /\ t.mine.row.revoked = t.base.row.revoked
    /\ t.mine.row.snapshot = t.base.row.snapshot
    /\ t.mine.row.submitted <=> (t.base.row.submitted \/ t.call.kind = "submit")

\* After it nothing of the snapshot has changed but together with the first
\* submission.
SnapshotSound(t) ==
    \/ /\ t.mine.row.submitted = t.base.row.submitted
       /\ t.mine.row.snapshot = t.base.row.snapshot
    \/ /\ t.mine.row.submitted /\ ~t.base.row.submitted
       /\ t.mine.row.snapshot # NoSnapshot /\ t.base.row.snapshot = NoSnapshot

\* status is the committed one.
SessionSound(t, carried, status) ==
    t.pc # "idle" =>
        /\ Coherent(t.base.row, carried)
        /\ t.base.row.status = "draft" <=> t.call.kind = "send"
        /\ t.base.row.status # "draft" => status # "draft"
        /\ t.call.kind = "follow_up" => ~t.base.row.revoked
        /\ t.call.kind \in Overwriting => t.base.row.status # "completed"
        /\ t.pc # "read" => WriteSound(t, carried)
        /\ t.pc = "flushed" => BeforeSnapshot(t)
        /\ t.pc \in {"evaluated", "done"} => SnapshotSound(t)

SessionsAreSound == \A k \in Calls : SessionSound(tx[k], emailed, db.row.status)

\* A draft has no documents, hence nothing to review.
DraftsHaveNoReviews ==
    db.row.status = "draft" => \A p \in Proposals : db.review[p] = "absent"

TransactionsInv ==
    /\ TypeOK
    /\ Coherent(db.row, emailed)
    /\ DraftsHaveNoReviews
    /\ SessionsAreSound
-----------------------------------------------------------------------------
(* Data and sessions *)

\* The columns in which a differs from b, laid over d.
Laid(a, b, d) == [c \in DOMAIN d |-> IF a[c] # b[c] THEN a[c] ELSE d[c]]

(* Columns laid over columns make a row. *)
LEMMA OverlaidRow ==
    ASSUME NEW a \in RequestRows, NEW b \in RequestRows, NEW d \in RequestRows
    PROVE  LET o == Laid(a, b, d)
           IN  /\ o \in RequestRows
               /\ o.status = IF a.status # b.status THEN a.status ELSE d.status
               /\ o.token = IF a.token # b.token THEN a.token ELSE d.token
               /\ o.revoked = IF a.revoked # b.revoked THEN a.revoked ELSE d.revoked
               /\ o.submitted = IF a.submitted # b.submitted THEN a.submitted ELSE d.submitted
               /\ o.snapshot = IF a.snapshot # b.snapshot THEN a.snapshot ELSE d.snapshot
               /\ o.automatic = IF a.automatic # b.automatic THEN a.automatic ELSE d.automatic
<1> DEFINE o == [c \in DOMAIN d |-> IF a[c] # b[c] THEN a[c] ELSE d[c]]
<1>1. DOMAIN d = {"status", "token", "revoked", "submitted", "snapshot", "automatic"}
  BY DEF RequestRows
<1>2. /\ o.status = IF a.status # b.status THEN a.status ELSE d.status
      /\ o.token = IF a.token # b.token THEN a.token ELSE d.token
      /\ o.revoked = IF a.revoked # b.revoked THEN a.revoked ELSE d.revoked
      /\ o.submitted = IF a.submitted # b.submitted THEN a.submitted ELSE d.submitted
      /\ o.snapshot = IF a.snapshot # b.snapshot THEN a.snapshot ELSE d.snapshot
      /\ o.automatic = IF a.automatic # b.automatic THEN a.automatic ELSE d.automatic
  BY <1>1
<1>3. o \in RequestRows
  <2>1. o = [status |-> o.status, token |-> o.token, revoked |-> o.revoked,
             submitted |-> o.submitted, snapshot |-> o.snapshot, automatic |-> o.automatic]
    BY <1>1
  <2> QED BY <1>2, <2>1 DEF RequestRows
<1>4. o = Laid(a, b, d)
  BY DEF Laid
<1> HIDE DEF o
<1> QED BY <1>2, <1>3, <1>4

LEMMA Constants ==
    /\ Proposals \cap {"request", "component"} = {}
    /\ SlotOf \in [Proposals -> Slots]
    /\ MaxCalls \in Nat /\ MaxFailures \in Nat /\ MaxAutomaticRounds \in Nat
    /\ \A S \in SUBSET Slots : Cardinality(S) \in Nat
BY RequestTransactionsAssumption, FS_Subset, FS_CardinalityType DEF RequestTransactionsAssumption

LEMMA FreshTyped ==
    /\ Fresh(TRUE) \in Data /\ Fresh(FALSE) \in Data
    /\ NoTransaction(Fresh(FALSE)) \in Transactions
<1>1. ASSUME NEW b \in BOOLEAN PROVE Fresh(b) \in Data
  <2>1. Fresh(b).row \in RequestRows
    BY DEF Fresh, RequestRows, Statuses, NoToken, NoSnapshot
  <2>2. Fresh(b).answer \in [Slots -> Answers] /\ Fresh(b).review \in [Proposals -> Reviews]
    BY DEF Fresh, Answers, Reviews
  <2> QED BY <2>1, <2>2 DEF Fresh, Data
<1>2. NoCall \in Requested /\ NoRound \in Round
  BY DEF NoCall, Requested, Kinds, NoRound, Round
<1>3. NoTransaction(Fresh(FALSE)) \in Transactions
  BY <1>1, <1>2 DEF NoTransaction, Transactions
<1> QED BY <1>1, <1>3

(* A session without a call is sound. *)
LEMMA IdleIsSound ==
    \A data, carried, status : SessionSound(NoTransaction(data), carried, status)
BY DEF SessionSound, NoTransaction

(* Fields of a session. *)
LEMMA SessionFields ==
    ASSUME NEW t \in Transactions
    PROVE  /\ t.pc \in {"idle", "read", "flushed", "evaluated", "done"}
           /\ t.call.kind \in Kinds /\ t.call.proposal \subseteq Proposals
           /\ t.call.typed \subseteq Slots
           /\ t.base.row \in RequestRows /\ t.base.answer \in [Slots -> Answers]
           /\ t.base.review \in [Proposals -> Reviews]
           /\ t.mine.row \in RequestRows /\ t.mine.answer \in [Slots -> Answers]
           /\ t.mine.review \in [Proposals -> Reviews]
           /\ t.base \in Data /\ t.mine \in Data
           /\ t.call \in Requested
           /\ t.round \in Round /\ t.missed \in BOOLEAN
<1>1. t.call \in Requested /\ t.base \in Data /\ t.mine \in Data /\ t.round \in Round
  BY DEF Transactions
<1>2. t.call.kind \in Kinds /\ t.call.proposal \subseteq Proposals /\ t.call.typed \subseteq Slots
  BY <1>1 DEF Requested
<1>3. t.base.row \in RequestRows /\ t.base.answer \in [Slots -> Answers]
      /\ t.base.review \in [Proposals -> Reviews]
  BY <1>1 DEF Data
<1>4. t.mine.row \in RequestRows /\ t.mine.answer \in [Slots -> Answers]
      /\ t.mine.review \in [Proposals -> Reviews]
  BY <1>1 DEF Data
<1> QED BY <1>1, <1>2, <1>3, <1>4 DEF Transactions

LEMMA OverlayTyped ==
    ASSUME NEW t \in Transactions, db \in Data
    PROVE  Overlay(t) \in Data
<1>1. db.row \in RequestRows /\ db.answer \in [Slots -> Answers]
      /\ db.review \in [Proposals -> Reviews]
  BY DEF Data
<1>2. Overlay(t).row \in RequestRows
  <2>1. t.mine.row \in RequestRows /\ t.base.row \in RequestRows
    BY SessionFields
  <2>2. Overlay(t).row = Laid(t.mine.row, t.base.row, db.row)
    BY DEF Overlay, Laid
  <2> QED BY <1>1, <2>1, <2>2, OverlaidRow
<1>3. Overlay(t).answer \in [Slots -> Answers]
  BY <1>1, SessionFields DEF Overlay
<1>4. Overlay(t).review \in [Proposals -> Reviews]
  BY <1>1, SessionFields DEF Overlay
<1> QED BY <1>2, <1>3, <1>4 DEF Overlay, Data

(* The columns of the request after a commit. *)
LEMMA OverlayColumns ==
    ASSUME NEW t \in Transactions, db \in Data
    PROVE  LET new == Overlay(t).row
           IN  /\ new.status = IF t.mine.row.status # t.base.row.status
                               THEN t.mine.row.status ELSE db.row.status
               /\ new.token = IF t.mine.row.token # t.base.row.token
                              THEN t.mine.row.token ELSE db.row.token
               /\ new.revoked = IF t.mine.row.revoked # t.base.row.revoked
                                THEN t.mine.row.revoked ELSE db.row.revoked
               /\ new.submitted = IF t.mine.row.submitted # t.base.row.submitted
                                  THEN t.mine.row.submitted ELSE db.row.submitted
               /\ new.snapshot = IF t.mine.row.snapshot # t.base.row.snapshot
                                 THEN t.mine.row.snapshot ELSE db.row.snapshot
<1>1. db.row \in RequestRows /\ t.mine.row \in RequestRows /\ t.base.row \in RequestRows
  BY SessionFields DEF Data
<1>2. Overlay(t).row = Laid(t.mine.row, t.base.row, db.row)
  BY DEF Overlay, Laid
<1> QED BY <1>1, <1>2, OverlaidRow

(* What a mint changes of the request's row. *)
LEMMA MintedRow ==
    ASSUME NEW data \in Data, mints \in Nat
    PROVE  /\ Minted(data) \in Data
           /\ Minted(data).row.token = mints + 1 /\ ~Minted(data).row.revoked
           /\ Minted(data).row.status = data.row.status
           /\ Minted(data).row.submitted = data.row.submitted
           /\ Minted(data).row.snapshot = data.row.snapshot
           /\ Minted(data).answer = data.answer /\ Minted(data).review = data.review
<1> DEFINE tokened == [data EXCEPT !.row.token = NewToken]
<1>1. data.row \in RequestRows /\ data.answer \in [Slots -> Answers]
      /\ data.review \in [Proposals -> Reviews]
  BY DEF Data
<1>2. Minted(data) = [tokened EXCEPT !.row.revoked = FALSE]
  BY DEF Minted
<1>3. /\ tokened \in Data /\ tokened.row.token = mints + 1
      /\ tokened.row.status = data.row.status
      /\ tokened.row.submitted = data.row.submitted
      /\ tokened.row.snapshot = data.row.snapshot
      /\ tokened.answer = data.answer /\ tokened.review = data.review
  <2>1. NewToken \in Nat /\ NewToken = mints + 1
    BY DEF NewToken
  <2>2. tokened.row \in RequestRows /\ tokened.row.token = NewToken
        /\ tokened.row.status = data.row.status
        /\ tokened.row.submitted = data.row.submitted
        /\ tokened.row.snapshot = data.row.snapshot
    BY <1>1, <2>1 DEF RequestRows, Data
  <2>3. tokened.answer = data.answer /\ tokened.review = data.review
    BY DEF Data
  <2>4. tokened = [row |-> tokened.row, answer |-> tokened.answer, review |-> tokened.review]
    BY DEF Data
  <2> HIDE DEF tokened
  <2> QED BY <1>1, <2>1, <2>2, <2>3, <2>4 DEF Data
<1> HIDE DEF tokened
<1> DEFINE minted == [tokened EXCEPT !.row.revoked = FALSE]
<1>4. tokened.row \in RequestRows /\ tokened.answer \in [Slots -> Answers]
      /\ tokened.review \in [Proposals -> Reviews]
  BY <1>3 DEF Data
<1>5. minted.row \in RequestRows /\ minted.row.token = tokened.row.token
      /\ minted.row.revoked = FALSE
      /\ minted.row.status = tokened.row.status
      /\ minted.row.submitted = tokened.row.submitted
      /\ minted.row.snapshot = tokened.row.snapshot
  BY <1>3, <1>4 DEF RequestRows, Data
<1>6. minted.answer = tokened.answer /\ minted.review = tokened.review
      /\ minted = [row |-> minted.row, answer |-> minted.answer, review |-> minted.review]
  <2>1. tokened = [row |-> tokened.row, answer |-> tokened.answer, review |-> tokened.review]
    BY <1>3 DEF Data
  <2>2. minted = [tokened EXCEPT !.row = [tokened.row EXCEPT !.revoked = FALSE]]
    BY <2>1
  <2> DEFINE cleared == [tokened.row EXCEPT !.revoked = FALSE]
  <2> HIDE DEF minted, cleared
  <2> QED BY <2>1, <2>2
<1>7. minted \in Data
  <2> HIDE DEF minted
  <2> QED BY <1>4, <1>5, <1>6 DEF Data
<1> QED BY <1>2, <1>3, <1>5, <1>6, <1>7
-----------------------------------------------------------------------------
(* What a call writes *)

(* A session with another row in it. *)
LEMMA SetRow ==
    ASSUME NEW data \in Data, NEW row \in RequestRows
    PROVE  LET d == [data EXCEPT !.row = row]
           IN  d \in Data /\ d.row = row /\ d.answer = data.answer /\ d.review = data.review
BY DEF Data

(* Setting one column: the others stay. *)
LEMMA SetStatus ==
    ASSUME NEW data \in Data, NEW status \in Statuses
    PROVE  LET d == [data EXCEPT !.row.status = status]
           IN  /\ d \in Data /\ d.row.status = status
               /\ d.row.token = data.row.token /\ d.row.revoked = data.row.revoked
               /\ d.row.submitted = data.row.submitted /\ d.row.snapshot = data.row.snapshot
               /\ d.answer = data.answer /\ d.review = data.review
<1> DEFINE row == [data.row EXCEPT !.status = status]
<1>1. /\ row \in RequestRows /\ row.status = status
      /\ row.token = data.row.token /\ row.revoked = data.row.revoked
      /\ row.submitted = data.row.submitted /\ row.snapshot = data.row.snapshot
  BY DEF Data, RequestRows
<1>2. [data EXCEPT !.row.status = status] = [data EXCEPT !.row = row]
  OBVIOUS
<1> HIDE DEF row
<1> QED BY <1>1, <1>2, SetRow

LEMMA SetSubmitted ==
    ASSUME NEW data \in Data
    PROVE  LET d == [data EXCEPT !.row.submitted = TRUE]
           IN  /\ d \in Data /\ d.row.submitted
               /\ d.row.status = data.row.status /\ d.row.token = data.row.token
               /\ d.row.revoked = data.row.revoked /\ d.row.snapshot = data.row.snapshot
               /\ d.answer = data.answer /\ d.review = data.review
<1> DEFINE row == [data.row EXCEPT !.submitted = TRUE]
<1>1. /\ row \in RequestRows /\ row.submitted = TRUE
      /\ row.status = data.row.status /\ row.token = data.row.token
      /\ row.revoked = data.row.revoked /\ row.snapshot = data.row.snapshot
  BY DEF Data, RequestRows
<1>2. [data EXCEPT !.row.submitted = TRUE] = [data EXCEPT !.row = row]
  OBVIOUS
<1> HIDE DEF row
<1> QED BY <1>1, <1>2, SetRow

LEMMA SetSnapshot ==
    ASSUME NEW data \in Data, NEW n \in Nat
    PROVE  LET d == [data EXCEPT !.row.snapshot = n]
           IN  /\ d \in Data /\ d.row.snapshot = n
               /\ d.row.status = data.row.status /\ d.row.token = data.row.token
               /\ d.row.revoked = data.row.revoked /\ d.row.submitted = data.row.submitted
               /\ d.answer = data.answer /\ d.review = data.review
<1> DEFINE row == [data.row EXCEPT !.snapshot = n]
<1>1. /\ row \in RequestRows /\ row.snapshot = n
      /\ row.status = data.row.status /\ row.token = data.row.token
      /\ row.revoked = data.row.revoked /\ row.submitted = data.row.submitted
  BY DEF Data, RequestRows
<1>2. [data EXCEPT !.row.snapshot = n] = [data EXCEPT !.row = row]
  OBVIOUS
<1> HIDE DEF row
<1> QED BY <1>1, <1>2, SetRow

LEMMA SetRevoked ==
    ASSUME NEW data \in Data
    PROVE  LET d == [data EXCEPT !.row.revoked = TRUE]
           IN  /\ d \in Data /\ d.row.revoked
               /\ d.row.status = data.row.status /\ d.row.token = data.row.token
               /\ d.row.submitted = data.row.submitted /\ d.row.snapshot = data.row.snapshot
               /\ d.answer = data.answer /\ d.review = data.review
<1> DEFINE row == [data.row EXCEPT !.revoked = TRUE]
<1>1. /\ row \in RequestRows /\ row.revoked = TRUE
      /\ row.status = data.row.status /\ row.token = data.row.token
      /\ row.submitted = data.row.submitted /\ row.snapshot = data.row.snapshot
  BY DEF Data, RequestRows
<1>2. [data EXCEPT !.row.revoked = TRUE] = [data EXCEPT !.row = row]
  OBVIOUS
<1> HIDE DEF row
<1> QED BY <1>1, <1>2, SetRow

(* Setting answers or reviews leaves the row alone. *)
LEMMA SetAnswers ==
    ASSUME NEW data \in Data, NEW answer \in [Slots -> Answers]
    PROVE  LET d == [data EXCEPT !.answer = answer]
           IN  d \in Data /\ d.row = data.row /\ d.answer = answer /\ d.review = data.review
BY DEF Data

LEMMA SetReviews ==
    ASSUME NEW data \in Data, NEW review \in [Proposals -> Reviews]
    PROVE  LET d == [data EXCEPT !.review = review]
           IN  d \in Data /\ d.row = data.row /\ d.review = review /\ d.answer = data.answer
BY DEF Data

\* What AfterFlush makes of the row of t, by the kind of its call.
FlushedRow(t, row) ==
    LET old == t.base.row IN
    /\ row.snapshot = old.snapshot
    /\ row.submitted <=> (old.submitted \/ t.call.kind = "submit")
    /\ row.status = CASE t.call.kind = "send" -> "sent"
                      [] t.call.kind = "open" -> "opened"
                      [] t.call.kind = "save" -> "in_progress"
                      [] t.call.kind = "submit" -> "submitted"
                      [] OTHER -> old.status
    /\ IF t.call.kind \in {"send", "resend", "follow_up"}
       THEN row.token = mints + 1 /\ ~row.revoked
       ELSE /\ row.token = old.token
            /\ row.revoked <=> (old.revoked \/ t.call.kind = "revoke")

\* What it does to the reviews and the answers.
FlushedRest(t, data) ==
    /\ IF t.call.kind \in {"accept", "reject", "extract"}
       THEN \A p \in Proposals \ t.call.proposal : data.review[p] = t.base.review[p]
       ELSE data.review = t.base.review
    /\ t.call.kind \notin {"save", "accept"} => data.answer = t.base.answer

LEMMA FlushedData ==
    ASSUME NEW t \in Transactions, mints \in Nat
    PROVE  /\ AfterFlush(t) \in Data /\ FlushedRow(t, AfterFlush(t).row)
           /\ FlushedRest(t, AfterFlush(t))
<1>1. t.call.kind \in Kinds /\ t.base \in Data
      /\ t.call.typed \subseteq Slots /\ t.call.proposal \subseteq Proposals
  BY SessionFields
<1>2. Typed(t) \in [Slots -> Answers] /\ Applied(t) \in [Slots -> Answers]
      /\ \A review \in Reviews : Reviewed(t, review) \in [Proposals -> Reviews]
  BY SessionFields DEF Typed, Applied, Reviewed, Answers
<1>3. t.base.row \in RequestRows /\ t.base.row.submitted \in BOOLEAN /\ t.base.row.revoked \in BOOLEAN
  BY SessionFields DEF RequestRows
<1>4. {"sent", "opened", "in_progress", "submitted", "completed"} \subseteq Statuses
      /\ {"pending", "accepted", "rejected"} \subseteq Reviews
  BY DEF Statuses, Reviews
<1>5. CASE t.call.kind = "send"
  <2>1. AfterFlush(t) = [Minted(t.base) EXCEPT !.row.status = "sent"]
    BY <1>5 DEF AfterFlush
  <2>2. Minted(t.base) \in Data
    BY <1>1, MintedRow
  <2> DEFINE d == [Minted(t.base) EXCEPT !.row.status = "sent"]
  <2>3. /\ d \in Data /\ d.row.status = "sent" /\ d.row.token = Minted(t.base).row.token
        /\ d.row.revoked = Minted(t.base).row.revoked
        /\ d.row.submitted = Minted(t.base).row.submitted
        /\ d.row.snapshot = Minted(t.base).row.snapshot
        /\ d.answer = Minted(t.base).answer /\ d.review = Minted(t.base).review
    BY <1>4, <2>2, SetStatus
  <2> HIDE DEF d
  <2>4. AfterFlush(t) = d
    BY <2>1 DEF d
  <2> QED BY <1>1, <1>5, <2>3, <2>4, MintedRow DEF FlushedRow, FlushedRest
<1>6. CASE t.call.kind \in {"resend", "follow_up"}
  <2>1. AfterFlush(t) = Minted(t.base)
    BY <1>6 DEF AfterFlush
  <2> QED BY <1>1, <1>6, <2>1, MintedRow DEF FlushedRow, FlushedRest
<1>7. CASE t.call.kind = "revoke"
  <2> DEFINE d == [t.base EXCEPT !.row.revoked = TRUE]
  <2>1. AfterFlush(t) = d
    BY <1>7 DEF AfterFlush
  <2>2. /\ d \in Data /\ d.row.revoked /\ d.row.token = t.base.row.token
        /\ d.row.status = t.base.row.status /\ d.row.submitted = t.base.row.submitted
        /\ d.row.snapshot = t.base.row.snapshot
        /\ d.answer = t.base.answer /\ d.review = t.base.review
    BY <1>1, SetRevoked
  <2> HIDE DEF d
  <2> QED BY <1>7, <2>1, <2>2 DEF FlushedRow, FlushedRest
<1>8. CASE t.call.kind = "open"
  <2> DEFINE d == [t.base EXCEPT !.row.status = "opened"]
  <2>1. AfterFlush(t) = d
    BY <1>8 DEF AfterFlush
  <2>2. /\ d \in Data /\ d.row.status = "opened" /\ d.row.token = t.base.row.token
        /\ d.row.revoked = t.base.row.revoked /\ d.row.submitted = t.base.row.submitted
        /\ d.row.snapshot = t.base.row.snapshot
        /\ d.answer = t.base.answer /\ d.review = t.base.review
    BY <1>1, <1>4, SetStatus
  <2> HIDE DEF d
  <2> QED BY <1>8, <2>1, <2>2 DEF FlushedRow, FlushedRest
<1>9. CASE t.call.kind = "save"
  <2> DEFINE d == [t.base EXCEPT !.row.status = "in_progress"]
  <2>1. AfterFlush(t) = [d EXCEPT !.answer = Typed(t)]
    BY <1>9 DEF AfterFlush
  <2>2. /\ d \in Data /\ d.row.status = "in_progress" /\ d.row.token = t.base.row.token
        /\ d.row.revoked = t.base.row.revoked /\ d.row.submitted = t.base.row.submitted
        /\ d.row.snapshot = t.base.row.snapshot
        /\ d.answer = t.base.answer /\ d.review = t.base.review
    BY <1>1, <1>4, SetStatus
  <2> HIDE DEF d
  <2>3. AfterFlush(t) \in Data /\ AfterFlush(t).row = d.row /\ AfterFlush(t).review = d.review
    BY <1>2, <2>1, <2>2, SetAnswers
  <2> QED BY <1>9, <2>2, <2>3 DEF FlushedRow, FlushedRest
<1>10. CASE t.call.kind = "submit"
  <2> DEFINE d == [t.base EXCEPT !.row.status = "submitted"]
  <2>1. AfterFlush(t) = [d EXCEPT !.row.submitted = TRUE]
    BY <1>10 DEF AfterFlush
  <2>2. /\ d \in Data /\ d.row.status = "submitted" /\ d.row.token = t.base.row.token
        /\ d.row.revoked = t.base.row.revoked /\ d.row.snapshot = t.base.row.snapshot
        /\ d.answer = t.base.answer /\ d.review = t.base.review
    BY <1>1, <1>4, SetStatus
  <2> HIDE DEF d
  <2> DEFINE e == [d EXCEPT !.row.submitted = TRUE]
  <2>3. /\ e \in Data /\ e.row.submitted /\ e.row.token = d.row.token
        /\ e.row.revoked = d.row.revoked /\ e.row.status = d.row.status
        /\ e.row.snapshot = d.row.snapshot
        /\ e.answer = d.answer /\ e.review = d.review
    BY <2>2, SetSubmitted
  <2>4. AfterFlush(t) = e
    BY <2>1
  <2> HIDE DEF e
  <2> QED BY <1>10, <2>2, <2>3, <2>4 DEF FlushedRow, FlushedRest
<1>11. CASE t.call.kind = "accept"
  <2> DEFINE d == [t.base EXCEPT !.answer = Applied(t)]
  <2>1. AfterFlush(t) = [d EXCEPT !.review = Reviewed(t, "accepted")]
    BY <1>11 DEF AfterFlush
  <2>2. d \in Data /\ d.row = t.base.row /\ d.review = t.base.review
    BY <1>1, <1>2, SetAnswers
  <2> HIDE DEF d
  <2>3. AfterFlush(t) \in Data /\ AfterFlush(t).row = d.row
        /\ AfterFlush(t).review = Reviewed(t, "accepted")
    BY <1>2, <1>4, <2>1, <2>2, SetReviews
  <2> QED BY <1>11, <2>2, <2>3 DEF FlushedRow, FlushedRest, Reviewed
<1>12. CASE t.call.kind \in {"reject", "extract"}
  <2>1. PICK review \in Reviews : AfterFlush(t) = [t.base EXCEPT !.review = Reviewed(t, review)]
    BY <1>4, <1>12 DEF AfterFlush
  <2>2. AfterFlush(t) \in Data /\ AfterFlush(t).row = t.base.row
        /\ AfterFlush(t).review = Reviewed(t, review) /\ AfterFlush(t).answer = t.base.answer
    BY <1>1, <1>2, <2>1, SetReviews
  <2> QED BY <1>12, <2>2 DEF FlushedRow, FlushedRest, Reviewed
<1> QED BY <1>1, <1>5, <1>6, <1>7, <1>8, <1>9, <1>10, <1>11, <1>12 DEF Kinds

\* A session that has got further.
Session(t, pc, mine, round) == [t EXCEPT !.pc = pc, !.mine = mine, !.round = round]

LEMMA SetSession ==
    ASSUME NEW t \in Transactions, NEW mine \in Data, NEW round \in Round,
           NEW pc \in {"read", "flushed", "evaluated", "done"}
    PROVE  LET n == Session(t, pc, mine, round)
           IN  /\ n \in Transactions /\ n.pc = pc /\ n.mine = mine /\ n.round = round
               /\ n.call = t.call /\ n.base = t.base /\ n.missed = t.missed
BY DEF Transactions, Session

\* The automatic round that reevaluate sends, and why it may.
Again(t, round) ==
    /\ round = [refs |-> Empty(Seen(t).answer), automatic |-> TRUE]
    /\ CanFollowUp(Seen(t))
    /\ Cardinality(AutomaticRounds) < MaxAutomaticRounds

(* What reevaluate does to a session: it may complete the request or mint   *)
(* one token for a round, and takes the snapshot of a first submission.     *)
LEMMA EvaluatedSession ==
    ASSUME NEW t \in Transactions, BeforeSnapshot(t), t.base.row.snapshot # NoSnapshot <=> t.base.row.submitted,
           mints \in Nat
    PROVE  LET e == Evaluated(t)
           IN  /\ e \in Transactions /\ e.pc = "evaluated"
               /\ e.call = t.call /\ e.base = t.base
               /\ SnapshotSound(e)
               /\ e.mine.answer = t.mine.answer /\ e.mine.review = t.mine.review
               /\ e.missed = t.missed
               /\ \/ /\ e.mine.row.token = t.mine.row.token /\ e.round = t.round
                     /\ e.mine.row.revoked = t.mine.row.revoked
                  \/ /\ e.mine.row.token = mints + 1 /\ Again(t, e.round)
                     /\ ~t.mine.row.revoked /\ ~e.mine.row.revoked
               /\ e.mine.row.status = IF AllAnswered(Seen(t)) THEN "completed"
                                      ELSE t.mine.row.status
<1> DEFINE s == WithSnapshot(t)
<1>1. t.mine \in Data /\ t.base \in Data /\ t.round \in Round
      /\ t.mine.row.submitted \in BOOLEAN /\ t.base.row.submitted \in BOOLEAN
  BY SessionFields DEF RequestRows
<1>2. Cardinality(Available(Seen(t))) \in Nat
  BY Constants DEF Available
<1>3. /\ s \in Data /\ s.answer = t.mine.answer /\ s.review = t.mine.review
      /\ s.row.status = t.mine.row.status /\ s.row.token = t.mine.row.token
      /\ s.row.revoked = t.mine.row.revoked /\ s.row.submitted = t.mine.row.submitted
      /\ \/ s.row.submitted = t.base.row.submitted /\ s.row.snapshot = t.base.row.snapshot
         \/ /\ s.row.submitted /\ ~t.base.row.submitted
            /\ s.row.snapshot # NoSnapshot /\ t.base.row.snapshot = NoSnapshot
  <2>1. CASE t.call.kind = "submit" /\ ~t.base.row.submitted
    <3> DEFINE n == Cardinality(Available(Seen(t)))
    <3>1. s = [t.mine EXCEPT !.row.snapshot = n]
      BY <2>1 DEF WithSnapshot
    <3> HIDE DEF n, s
    <3>2. /\ s \in Data /\ s.row.snapshot = n /\ s.row.token = t.mine.row.token
          /\ s.row.revoked = t.mine.row.revoked /\ s.row.status = t.mine.row.status
          /\ s.row.submitted = t.mine.row.submitted
          /\ s.answer = t.mine.answer /\ s.review = t.mine.review
      BY <1>1, <1>2, <3>1, SetSnapshot DEF n
    <3>3. n # NoSnapshot
      BY <1>2 DEF n, NoSnapshot
    <3> QED BY <2>1, <3>2, <3>3 DEF BeforeSnapshot
  <2>2. CASE ~(t.call.kind = "submit" /\ ~t.base.row.submitted)
    <3>1. s = t.mine
      BY <2>2 DEF WithSnapshot
    <3> HIDE DEF s
    <3> QED BY <1>1, <2>2, <3>1 DEF BeforeSnapshot
  <2> QED BY <2>1, <2>2
<1> DEFINE ready == [t EXCEPT !.pc = "evaluated", !.mine = s]
           seen == Seen(t)
           again == [refs |-> Empty(seen.answer), automatic |-> TRUE]
<1>4. again \in Round
  BY DEF Round, Empty
<1>5. \/ /\ Evaluated(t) = [ready EXCEPT !.mine.row.status = "completed"]
         /\ AllAnswered(seen)
      \/ /\ Evaluated(t) = [ready EXCEPT !.mine = Minted(ready.mine), !.round = again]
         /\ Again(t, again) /\ ~AllAnswered(seen)
      \/ Evaluated(t) = ready /\ ~AllAnswered(seen)
  <2> DEFINE retry == /\ SomethingMissing(seen)
                      /\ seen.row.automatic
                      /\ CanFollowUp(seen)
                      /\ Cardinality(AutomaticRounds) < MaxAutomaticRounds
  <2>1. Evaluated(t) =
          CASE AllAnswered(seen) -> [ready EXCEPT !.mine.row.status = "completed"]
            [] retry -> [ready EXCEPT !.mine = Minted(ready.mine), !.round = again]
            [] OTHER -> ready
    BY DEF Evaluated
  <2>2. AllAnswered(seen) => ~retry
    BY DEF AllAnswered, SomethingMissing
  <2>3. retry => Again(t, again)
    BY DEF Again
  <2> HIDE DEF seen, s, again, ready, retry
  <2> QED BY <2>1, <2>2, <2>3
<1> HIDE DEF s, again, seen
<1>6. ready = Session(t, "evaluated", s, t.round)
  BY DEF Transactions, Session
<1>7. CASE Evaluated(t) = [ready EXCEPT !.mine.row.status = "completed"] /\ AllAnswered(seen)
  <2> DEFINE m == [s EXCEPT !.row.status = "completed"]
  <2>1. /\ m \in Data /\ m.row.status = "completed" /\ m.row.token = s.row.token
        /\ m.row.revoked = s.row.revoked /\ m.row.submitted = s.row.submitted
        /\ m.row.snapshot = s.row.snapshot
        /\ m.answer = s.answer /\ m.review = s.review
    BY <1>3, SetStatus DEF Statuses
  <2>2. Evaluated(t) = Session(t, "evaluated", m, t.round)
    BY <1>7 DEF Transactions, Session
  <2> HIDE DEF m
  <2>3. LET e == Session(t, "evaluated", m, t.round)
        IN  e \in Transactions /\ e.pc = "evaluated" /\ e.mine = m
            /\ e.call = t.call /\ e.base = t.base /\ e.missed = t.missed /\ e.round = t.round
    <3>1. m \in Data /\ t.round \in Round
      BY <1>1, <2>1
    <3> QED BY <3>1, SetSession
  <2>4. AllAnswered(Seen(t))
    BY <1>7 DEF seen
  <2> HIDE DEF ready
  <2> QED BY <1>3, <2>1, <2>2, <2>3, <2>4 DEF SnapshotSound
<1>8. CASE Evaluated(t) = [ready EXCEPT !.mine = Minted(ready.mine), !.round = again]
           /\ Again(t, again) /\ ~AllAnswered(seen)
  <2> DEFINE m == Minted(s)
  <2>1. /\ m \in Data /\ m.row.status = s.row.status /\ m.row.token = mints + 1
        /\ m.row.submitted = s.row.submitted /\ m.row.snapshot = s.row.snapshot
        /\ m.answer = s.answer /\ m.review = s.review /\ ~m.row.revoked
    BY <1>3, MintedRow
  <2>2. ready.mine = s
    BY DEF Transactions
  <2>3. Evaluated(t) = Session(t, "evaluated", m, again)
    BY <1>8, <2>2 DEF Transactions, Session
  <2>4. ~t.mine.row.revoked
    BY <1>8 DEF Again, CanFollowUp, Seen
  <2> HIDE DEF m
  <2>5. LET e == Session(t, "evaluated", m, again)
        IN  e \in Transactions /\ e.pc = "evaluated" /\ e.mine = m
            /\ e.round = again /\ e.call = t.call /\ e.base = t.base /\ e.missed = t.missed
    <3>1. m \in Data /\ again \in Round
      BY <1>4, <2>1
    <3> QED BY <3>1, SetSession
  <2>6. ~AllAnswered(Seen(t)) /\ Again(t, again)
    BY <1>8 DEF seen
  <2> HIDE DEF ready
  <2> QED BY <1>3, <2>1, <2>3, <2>4, <2>5, <2>6 DEF SnapshotSound
<1>9. CASE Evaluated(t) = ready /\ ~AllAnswered(seen)
  <2>1. LET e == Evaluated(t) IN e \in Transactions /\ e.pc = "evaluated" /\ e.mine = s
                                /\ e.call = t.call /\ e.base = t.base
                                /\ e.missed = t.missed /\ e.round = t.round
    BY <1>1, <1>3, <1>6, <1>9, SetSession
  <2> QED BY <1>3, <1>9, <2>1 DEF SnapshotSound, seen
<1> QED BY <1>5, <1>7, <1>8, <1>9
-----------------------------------------------------------------------------
(* What a commit leaves *)

(* A sound session laid over a coherent row: the row is coherent, no draft, *)
(* and its revocation is undone by a resend only.                           *)
LEMMA CommitLeavesCoherence ==
    ASSUME NEW t \in Transactions, db \in Data, mints \in Nat, emailed \subseteq 1..mints,
           Coherent(db.row, emailed), SessionSound(t, emailed, db.row.status), t.pc = "done"
    PROVE  /\ Coherent(Overlay(t).row, emailed)
           /\ Overlay(t).row.status # "draft"
           /\ db.row.revoked /\ ~Overlay(t).row.revoked =>
                 t.call.kind = "resend" /\ t.base.row.revoked
           /\ db.row.status = "completed" /\ Overlay(t).row.status # "completed" =>
                 t.call.kind \in Overwriting /\ t.base.row.status # "completed"
<1> DEFINE new == Overlay(t).row
           old == db.row
           a == t.mine.row
           b == t.base.row
<1>1. /\ new.status = IF a.status # b.status THEN a.status ELSE old.status
      /\ new.token = IF a.token # b.token THEN a.token ELSE old.token
      /\ new.revoked = IF a.revoked # b.revoked THEN a.revoked ELSE old.revoked
      /\ new.submitted = IF a.submitted # b.submitted THEN a.submitted ELSE old.submitted
      /\ new.snapshot = IF a.snapshot # b.snapshot THEN a.snapshot ELSE old.snapshot
  BY OverlayColumns
<1>2. a.token \in emailed /\ a.status # "draft" /\ Coherent(b, emailed) /\ SnapshotSound(t)
      /\ (b.revoked /\ ~a.revoked => t.call.kind = "resend")
      /\ (b.status # "draft" => old.status # "draft")
      /\ (a.status \in {b.status, "completed"} \/ t.call.kind \in Overwriting)
      /\ (t.call.kind \in Overwriting => b.status # "completed")
  BY DEF SessionSound, WriteSound
<1>3. NoToken \notin emailed
  BY DEF NoToken
<1>4. a \in RequestRows /\ b \in RequestRows /\ old \in RequestRows
  BY SessionFields DEF Data
<1> HIDE DEF new, old, a, b
<1>5. new.status # "draft"
  BY <1>1, <1>2
<1>6. new.token # NoToken /\ new.token \in emailed
  BY <1>1, <1>2, <1>3 DEF Coherent, old
<1>7. new.snapshot # NoSnapshot <=> new.submitted
  BY <1>1, <1>2 DEF Coherent, SnapshotSound, old, a, b
<1>8. old.revoked /\ ~new.revoked => t.call.kind = "resend" /\ b.revoked
  <2>1. a.revoked \in BOOLEAN /\ b.revoked \in BOOLEAN /\ old.revoked \in BOOLEAN
    BY <1>4 DEF RequestRows
  <2> QED BY <1>1, <1>2, <2>1
<1>9. old.status = "completed" /\ new.status # "completed" =>
         t.call.kind \in Overwriting /\ b.status # "completed"
  BY <1>1, <1>2
<1> QED BY <1>5, <1>6, <1>7, <1>8, <1>9 DEF Coherent, new, old, b

(* What is sound stays so when more was emailed and the committed request   *)
(* has not become a draft again.                                            *)
LEMMA StaysSound ==
    ASSUME NEW t, NEW carried, NEW more, NEW status, NEW later,
           SessionSound(t, carried, status), carried \subseteq more,
           status # "draft" => later # "draft"
    PROVE  SessionSound(t, more, later)
BY DEF SessionSound, Coherent, WriteSound, BeforeSnapshot, SnapshotSound
-----------------------------------------------------------------------------
(* The steps *)

LEMMA InitEstablishes == Init => TransactionsInv
<1> SUFFICES ASSUME Init PROVE TransactionsInv OBVIOUS
<1>1. /\ db \in Data /\ mints \in Nat
      /\ Coherent(db.row, 1..mints)
      /\ DraftsHaveNoReviews
  <2>1. PICK automatic \in BOOLEAN :
          \/ db = Fresh(automatic) /\ mints = 0
          \/ \E extracted \in SUBSET Proposals :
                /\ db = [Fresh(automatic) EXCEPT
                           !.row.status = "in_progress", !.row.token = 1,
                           !.review = [p \in Proposals |->
                              IF p \in extracted THEN "pending" ELSE "absent"]]
                /\ mints = 1
    BY DEF Init
  <2>2. CASE db = Fresh(automatic) /\ mints = 0
    <3>1. db \in Data
      BY <2>2, FreshTyped
    <3>2. Coherent(db.row, 1..mints) /\ DraftsHaveNoReviews
      BY <2>2 DEF Fresh, Coherent, DraftsHaveNoReviews, NoToken, NoSnapshot
    <3> QED BY <2>2, <3>1, <3>2
  <2>3. CASE \E extracted \in SUBSET Proposals :
                /\ db = [Fresh(automatic) EXCEPT
                           !.row.status = "in_progress", !.row.token = 1,
                           !.review = [p \in Proposals |->
                              IF p \in extracted THEN "pending" ELSE "absent"]]
                /\ mints = 1
    <3>1. PICK extracted \in SUBSET Proposals :
                db = [Fresh(automatic) EXCEPT
                           !.row.status = "in_progress", !.row.token = 1,
                           !.review = [p \in Proposals |->
                              IF p \in extracted THEN "pending" ELSE "absent"]]
      BY <2>3
    <3> DEFINE review == [p \in Proposals |-> IF p \in extracted THEN "pending" ELSE "absent"]
    <3>2. db = [row |-> [status |-> "in_progress", token |-> 1, revoked |-> FALSE,
                         submitted |-> FALSE, snapshot |-> NoSnapshot, automatic |-> automatic],
                answer |-> [s \in Slots |-> "none"], review |-> review]
      BY <3>1 DEF Fresh
    <3>3. review \in [Proposals -> Reviews] /\ [s \in Slots |-> "none"] \in [Slots -> Answers]
      BY DEF Reviews, Answers
    <3> HIDE DEF review
    <3>4. db \in Data
      BY <3>2, <3>3 DEF Data, RequestRows, Statuses
    <3>5. DraftsHaveNoReviews
      BY <3>2 DEF DraftsHaveNoReviews
    <3>6. /\ db.row.status = "in_progress" /\ db.row.token = 1 /\ db.row.submitted = FALSE
          /\ db.row.snapshot = NoSnapshot
      BY <3>2
    <3>7. Coherent(db.row, 1..mints)
      BY <2>3, <3>6 DEF Coherent, NoToken
    <3> QED BY <2>3, <3>4, <3>5, <3>7
  <2> QED BY <2>1, <2>2, <2>3
<1>2. TypeOK
  <2>1. /\ rounds = <<>> /\ sends = 0 /\ emailed = 1..mints /\ made = 0 /\ failures = 0
        /\ tx = [k \in Calls |-> NoTransaction(Fresh(FALSE))]
    BY DEF Init
  <2>2. tx \in [Calls -> Transactions]
    BY <2>1, FreshTyped
  <2>3. made \in 0..MaxCalls /\ failures \in 0..MaxFailures
    BY <2>1, Constants
  <2>4. rounds \in Seq(Round) /\ emailed \subseteq 1..mints /\ sends \in Nat
    BY <2>1
  <2> QED BY <1>1, <2>2, <2>3, <2>4 DEF TypeOK
<1>3. SessionsAreSound
  BY IdleIsSound DEF Init, SessionsAreSound
<1> QED BY <1>1, <1>2, <1>3 DEF Init, TransactionsInv

(* The guards of the calls: only a send is admitted on a draft. *)
LEMMA OnlySendsOnDrafts ==
    ASSUME TransactionsInv, NEW call \in Requested, WellFormed(call), Admits(call)
    PROVE  db.row.status = "draft" <=> call.kind = "send"
<1>1. NoToken \notin emailed
  BY DEF TransactionsInv, TypeOK, NoToken
<1>2. call.kind \in Kinds /\ call.proposal \subseteq Proposals
  BY DEF Requested
<1>3. CASE call.kind = "send"
  BY <1>3 DEF Admits
<1>4. CASE call.kind = "resend" \/ call.kind = "open"
  BY <1>4 DEF Admits
<1>5. CASE call.kind \in {"revoke", "follow_up", "extract"}
  BY <1>5 DEF Admits, CanFollowUp, TransactionsInv, Coherent
<1>6. CASE call.kind \in {"save", "submit"}
  BY <1>1, <1>6 DEF Admits, LinkWorks, TransactionsInv, Coherent
<1>7. CASE call.kind \in {"accept", "reject"}
  <2>1. Cardinality(call.proposal) = 1
    BY <1>7 DEF WellFormed
  <2>2. PICK p \in call.proposal : TRUE
    BY <2>1, FS_EmptySet
  <2>3. db.review[p] = "pending"
    BY <1>7 DEF Admits
  <2> QED BY <1>2, <1>7, <2>3 DEF TransactionsInv, DraftsHaveNoReviews
<1> QED BY <1>2, <1>3, <1>4, <1>5, <1>6, <1>7 DEF Kinds

(* A step that changes one session and commits nothing. *)
LEMMA OneSessionKeeps ==
    ASSUME TransactionsInv, NEW k \in Calls, NEW t \in Transactions,
           tx' = [tx EXCEPT ![k] = t],
           db' = db, rounds' = rounds, mints' \in Nat, emailed \subseteq emailed',
           emailed' \subseteq 1..mints', sends' \in Nat, made' \in 0..MaxCalls,
           failures' = failures,
           SessionSound(t, emailed', db.row.status)
    PROVE  TransactionsInv'
<1> USE DEF TransactionsInv
<1>1. TypeOK'
  BY DEF TypeOK
<1>2. Coherent(db.row, emailed)'
  BY DEF Coherent
<1>3. DraftsHaveNoReviews'
  BY DEF DraftsHaveNoReviews
<1>4. SessionsAreSound'
  <2> SUFFICES ASSUME NEW j \in Calls PROVE SessionSound(tx'[j], emailed', db.row.status)
    BY DEF SessionsAreSound
  <2>1. CASE j = k
    BY <2>1 DEF TypeOK
  <2>2. CASE j # k
    <3>1. tx'[j] = tx[j] /\ SessionSound(tx[j], emailed, db.row.status)
      BY <2>2 DEF TypeOK, SessionsAreSound
    <3> QED BY <3>1, StaysSound
  <2> QED BY <2>1, <2>2
<1> QED BY <1>1, <1>2, <1>3, <1>4

(* What the email of a call does to the tokens. *)
LEMMA EmailsGrow ==
    ASSUME TypeOK, EmailLink \/ EmailNothing
    PROVE  /\ mints' \in Nat /\ emailed \subseteq emailed' /\ emailed' \subseteq 1..mints'
           /\ EmailLink => mints + 1 \in emailed'
<1>1. mints \in Nat /\ emailed \subseteq 1..mints
  BY DEF TypeOK
<1>2. CASE EmailLink
  <2>1. mints' = mints + 1 /\ emailed' = emailed \cup {mints + 1}
    BY <1>2 DEF EmailLink, NewToken
  <2>2. 1..mints \subseteq 1..(mints + 1) /\ mints + 1 \in 1..(mints + 1)
    BY <1>1
  <2> QED BY <1>1, <2>1, <2>2
<1>3. CASE EmailNothing
  BY <1>1, <1>3 DEF EmailNothing, EmailLink, NewToken
<1> QED BY <1>2, <1>3

LEMMA ReadKeeps ==
    ASSUME TransactionsInv, NEW k \in Calls, NEW call \in Requested, WellFormed(call),
           Read(k, call)
    PROVE  TransactionsInv'
<1> DEFINE t == [NoTransaction(db) EXCEPT !.pc = "read", !.call = call]
<1>1. db \in Data
  BY DEF TransactionsInv, TypeOK
<1>2. /\ t \in Transactions /\ t.pc = "read" /\ t.call = call /\ t.base = db /\ t.mine = db
  <2> DEFINE n == NoTransaction(db)
  <2>1. n \in Transactions /\ n.base = db /\ n.mine = db
    <3>1. NoRound \in Round /\ NoCall \in Requested
      BY DEF NoRound, Round, NoCall, Requested, Kinds
    <3> QED BY <1>1, <3>1 DEF NoTransaction, Transactions
  <2> HIDE DEF n
  <2> DEFINE m == [n EXCEPT !.pc = "read", !.call = call]
  <2>2. /\ m \in Transactions /\ m.pc = "read" /\ m.call = call /\ m.base = n.base
        /\ m.mine = n.mine
    BY <2>1 DEF Transactions
  <2>3. m = t
    BY DEF n
  <2> QED BY <2>1, <2>2, <2>3, Zenon
<1>3. tx' = [tx EXCEPT ![k] = t]
  BY DEF Read
<1> HIDE DEF t
<1>5. SessionSound(t, emailed, db.row.status)
  <2>1. db.row.status = "draft" <=> call.kind = "send"
    BY OnlySendsOnDrafts DEF Read
  <2>2. call.kind = "follow_up" => ~db.row.revoked
    BY DEF Read, Admits, CanFollowUp
  <2>3. call.kind \in Overwriting => db.row.status # "completed"
    BY DEF Read, Admits, Overwriting
  <2> QED BY <1>2, <2>1, <2>2, <2>3 DEF SessionSound, TransactionsInv
<1>6. /\ db' = db /\ rounds' = rounds /\ mints' = mints /\ emailed' = emailed /\ sends' = sends
      /\ failures' = failures /\ made' = made + 1 /\ made < MaxCalls
  BY DEF Read
<1>7. made' \in 0..MaxCalls /\ mints' \in Nat /\ emailed' \subseteq 1..mints' /\ sends' \in Nat
  BY <1>6, Constants DEF TransactionsInv, TypeOK
<1> QED BY <1>2, <1>3, <1>5, <1>6, <1>7, OneSessionKeeps

LEMMA FlushKeeps ==
    ASSUME TransactionsInv, NEW k \in Calls, Flush(k)
    PROVE  TransactionsInv'
<1> DEFINE old == tx[k]
           mine == AfterFlush(old)
           pc == IF Reevaluates(old) THEN "flushed" ELSE "done"
           round == IF old.call.kind = "follow_up"
                    THEN [refs |-> Empty(old.base.answer), automatic |-> FALSE] ELSE NoRound
           t == Session(old, pc, mine, round)
<1>1. /\ old \in Transactions /\ mints \in Nat /\ TypeOK
      /\ SessionSound(old, emailed, db.row.status)
  BY DEF TransactionsInv, TypeOK, SessionsAreSound
<1>2. old.pc = "read" /\ tx' = [tx EXCEPT ![k] = t]
  BY DEF Flush, Session
<1>3. IF old.call.kind \in {"send", "resend", "follow_up"} THEN EmailLink ELSE EmailNothing
  <2>1. [old EXCEPT !.mine = mine, !.pc = pc, !.round = round].call.kind = old.call.kind
    BY <1>1 DEF Transactions
  <2> QED BY <2>1 DEF Flush
<1>4. /\ db' = db /\ rounds' = rounds /\ made' = made /\ failures' = failures
      /\ sends' \in {sends, sends + 1}
  BY DEF Flush
<1>5. mine \in Data /\ FlushedRow(old, mine.row)
  BY <1>1, FlushedData
<1>6. round \in Round /\ pc \in {"flushed", "done"}
  BY DEF Round, Empty, NoRound
<1>7. pc = "flushed" <=> old.call.kind \in {"submit", "accept", "reject"}
  BY DEF Reevaluates
<1> HIDE DEF mine, pc, round
<1>8. /\ t \in Transactions /\ t.pc = pc /\ t.mine = mine /\ t.call = old.call
      /\ t.base = old.base
  <2> HIDE DEF old
  <2> QED BY <1>1, <1>5, <1>6, SetSession
<1> HIDE DEF t
<1>9. /\ mints' \in Nat /\ emailed \subseteq emailed' /\ emailed' \subseteq 1..mints'
      /\ EmailLink => mints + 1 \in emailed'
  BY <1>1, <1>3, EmailsGrow
<1>10. /\ Coherent(old.base.row, emailed)
       /\ old.base.row.status = "draft" <=> old.call.kind = "send"
       /\ old.base.row.status # "draft" => db.row.status # "draft"
       /\ old.call.kind = "follow_up" => ~old.base.row.revoked
       /\ old.call.kind \in Overwriting => old.base.row.status # "completed"
  BY <1>1, <1>2 DEF SessionSound
<1>11. old.base.row \in RequestRows /\ mine.row \in RequestRows
  BY <1>1, <1>5, SessionFields DEF Data
<1>12. WriteSound(t, emailed')
  <2>1. mine.row.token \in emailed'
    <3>1. CASE old.call.kind \in {"send", "resend", "follow_up"}
      BY <1>3, <1>5, <1>9, <3>1 DEF FlushedRow
    <3>2. CASE old.call.kind \notin {"send", "resend", "follow_up"}
      BY <1>5, <1>9, <1>10, <3>2 DEF FlushedRow, Coherent
    <3> QED BY <3>1, <3>2
  <2>2. mine.row.status # "draft"
    BY <1>5, <1>10 DEF FlushedRow
  <2>3. old.base.row.revoked /\ ~mine.row.revoked => old.call.kind = "resend"
    <3>1. CASE old.call.kind = "send"
      BY <1>10, <3>1 DEF Coherent
    <3>2. CASE old.call.kind = "follow_up"
      BY <1>1, <1>2, <3>2 DEF SessionSound
    <3>3. CASE old.call.kind \notin {"send", "resend", "follow_up"}
      BY <1>5, <3>3 DEF FlushedRow
    <3> QED BY <3>1, <3>2, <3>3
  <2>4. mine.row.status = old.base.row.status \/ old.call.kind \in Overwriting
    BY <1>5 DEF FlushedRow, Overwriting
  <2> QED BY <1>8, <2>1, <2>2, <2>3, <2>4 DEF WriteSound
<1>13. t.pc = "flushed" => BeforeSnapshot(t)
  BY <1>5, <1>7, <1>8, <1>11 DEF FlushedRow, BeforeSnapshot, RequestRows
<1>14. t.pc = "done" => SnapshotSound(t)
  BY <1>5, <1>6, <1>7, <1>8, <1>11 DEF FlushedRow, SnapshotSound, RequestRows
<1>15. SessionSound(t, emailed', db.row.status)
  BY <1>6, <1>8, <1>9, <1>10, <1>12, <1>13, <1>14 DEF SessionSound, Coherent
<1>16. sends' \in Nat /\ made' \in 0..MaxCalls
  BY <1>1, <1>4 DEF TypeOK
<1> QED BY <1>2, <1>4, <1>8, <1>9, <1>15, <1>16, OneSessionKeeps

LEMMA EvaluateKeeps ==
    ASSUME TransactionsInv, NEW k \in Calls, Evaluate(k)
    PROVE  TransactionsInv'
<1> DEFINE old == tx[k]
           t == Evaluated(old)
<1>1. /\ old \in Transactions /\ mints \in Nat /\ TypeOK
      /\ SessionSound(old, emailed, db.row.status)
  BY DEF TransactionsInv, TypeOK, SessionsAreSound
<1>2. old.pc = "flushed" /\ tx' = [tx EXCEPT ![k] = t]
  BY DEF Evaluate
<1>3. IF t.round # NoRound THEN EmailLink ELSE EmailNothing
  BY DEF Evaluate
<1>4. /\ db' = db /\ rounds' = rounds /\ made' = made /\ failures' = failures /\ sends' = sends
  BY DEF Evaluate
<1>5. /\ Coherent(old.base.row, emailed) /\ BeforeSnapshot(old) /\ WriteSound(old, emailed)
      /\ old.base.row.status = "draft" <=> old.call.kind = "send"
      /\ old.base.row.status # "draft" => db.row.status # "draft"
      /\ old.call.kind = "follow_up" => ~old.base.row.revoked
      /\ old.call.kind \in Overwriting => old.base.row.status # "completed"
  BY <1>1, <1>2 DEF SessionSound
<1>6. old.base.row.snapshot # NoSnapshot <=> old.base.row.submitted
  BY <1>5 DEF Coherent
<1>7. /\ t \in Transactions /\ t.pc = "evaluated" /\ t.call = old.call /\ t.base = old.base
      /\ SnapshotSound(t)
      /\ t.mine.row.status \in {old.mine.row.status, "completed"}
      /\ \/ /\ t.mine.row.token = old.mine.row.token
            /\ t.mine.row.revoked = old.mine.row.revoked
         \/ /\ t.mine.row.token = mints + 1 /\ Again(old, t.round)
            /\ ~old.mine.row.revoked
  BY <1>1, <1>5, <1>6, EvaluatedSession
<1> HIDE DEF t
<1>8. /\ mints' \in Nat /\ emailed \subseteq emailed' /\ emailed' \subseteq 1..mints'
      /\ EmailLink => mints + 1 \in emailed'
  BY <1>1, <1>3, EmailsGrow
<1>9. WriteSound(t, emailed')
  <2>1. Again(old, t.round) => t.round # NoRound
    BY DEF Again, NoRound
  <2> HIDE DEF old
  <2> QED BY <1>3, <1>5, <1>7, <1>8, <2>1 DEF WriteSound, BeforeSnapshot
<1>10. SessionSound(t, emailed', db.row.status)
  BY <1>5, <1>7, <1>8, <1>9 DEF SessionSound, Coherent
<1>11. sends' \in Nat /\ made' \in 0..MaxCalls
  BY <1>1, <1>4 DEF TypeOK
<1> QED BY <1>2, <1>4, <1>7, <1>8, <1>10, <1>11, OneSessionKeeps

LEMMA FlushRowKeeps ==
    ASSUME TransactionsInv, NEW k \in Calls, FlushRow(k)
    PROVE  TransactionsInv'
<1> DEFINE t == Session(tx[k], "done", tx[k].mine, tx[k].round)
<1>1. /\ tx[k] \in Transactions /\ SessionSound(tx[k], emailed, db.row.status)
      /\ TypeOK
  BY DEF TransactionsInv, TypeOK, SessionsAreSound
<1>2. tx[k].mine \in Data /\ tx[k].round \in Round
  BY <1>1, SessionFields
<1>3. tx[k].pc = "evaluated" /\ tx' = [tx EXCEPT ![k] = t]
  <2>1. [tx[k] EXCEPT !.pc = "done"] = t
    BY <1>1 DEF Transactions, Session
  <2> QED BY <2>1 DEF FlushRow
<1>4. /\ t \in Transactions /\ t.pc = "done" /\ t.mine = tx[k].mine /\ t.call = tx[k].call
      /\ t.base = tx[k].base
  BY <1>1, <1>2, SetSession
<1> HIDE DEF t
<1>5. SessionSound(t, emailed, db.row.status)
  BY <1>1, <1>3, <1>4 DEF SessionSound, WriteSound, SnapshotSound
<1>6. /\ db' = db /\ rounds' = rounds /\ made' = made /\ failures' = failures /\ sends' = sends
      /\ mints' = mints /\ emailed' = emailed
  BY DEF FlushRow
<1> QED BY <1>1, <1>3, <1>4, <1>5, <1>6, OneSessionKeeps DEF TypeOK

(* The end of a session: the others only learn that they have missed it.    *)
LEMMA EndKeepsSessions ==
    ASSUME TransactionsInv, NEW k \in Calls, NEW changed \in BOOLEAN, End(k, changed),
           emailed' = emailed, db.row.status # "draft" => db'.row.status # "draft"
    PROVE  tx' \in [Calls -> Transactions] /\ SessionsAreSound'
<1>1. ASSUME NEW j \in Calls
      PROVE  tx'[j] \in Transactions /\ SessionSound(tx'[j], emailed', db'.row.status)
  <2>1. tx[j] \in Transactions /\ SessionSound(tx[j], emailed, db.row.status)
    BY DEF TransactionsInv, TypeOK, SessionsAreSound
  <2>2. CASE tx'[j] = NoTransaction(Fresh(FALSE))
    BY <2>2, FreshTyped, IdleIsSound
  <2>3. CASE tx'[j] = tx[j]
    BY <2>1, <2>3, StaysSound
  <2>4. CASE tx'[j] = [tx[j] EXCEPT !.missed = TRUE]
    <3> DEFINE old == tx[j]
               t == [old EXCEPT !.missed = TRUE]
    <3>1. /\ t \in Transactions /\ t.pc = old.pc /\ t.call = old.call
          /\ t.base = old.base /\ t.mine = old.mine
      <4> HIDE DEF old
      <4>1. old \in Transactions
        BY <2>1 DEF old
      <4> QED BY <4>1 DEF Transactions
    <3>2. SessionSound(old, emailed', db'.row.status)
      BY <2>1, StaysSound
    <3> HIDE DEF old, t
    <3>3. SessionSound(t, emailed', db'.row.status)
      BY <3>1, <3>2 DEF SessionSound, WriteSound, BeforeSnapshot, SnapshotSound
    <3> QED BY <2>4, <3>1, <3>3 DEF t, old
  <2> QED BY <2>2, <2>3, <2>4 DEF End
<1>2. tx' \in [Calls -> Transactions]
  BY <1>1 DEF End
<1> QED BY <1>1, <1>2 DEF SessionsAreSound

LEMMA CommitKeeps ==
    ASSUME TransactionsInv, NEW k \in Calls, Commit(k)
    PROVE  TransactionsInv'
<1>1. /\ TypeOK /\ tx[k] \in Transactions /\ tx[k].pc = "done" /\ db \in Data
      /\ SessionSound(tx[k], emailed, db.row.status)
  BY DEF TransactionsInv, TypeOK, SessionsAreSound, Commit
<1>2. /\ db' = Overlay(tx[k]) /\ End(k, TRUE) /\ mints' = mints /\ emailed' = emailed
      /\ sends' = sends /\ made' = made /\ failures' = failures
      /\ rounds' = IF tx[k].round = NoRound THEN rounds ELSE Append(rounds, tx[k].round)
  BY DEF Commit
<1>3. Coherent(db'.row, emailed) /\ db'.row.status # "draft"
  BY <1>1, <1>2, CommitLeavesCoherence DEF TransactionsInv, TypeOK
<1>4. tx' \in [Calls -> Transactions] /\ SessionsAreSound'
  BY <1>2, <1>3, EndKeepsSessions
<1>5. db' \in Data
  BY <1>1, <1>2, OverlayTyped
<1>6. rounds' \in Seq(Round)
  <2>1. tx[k].round \in Round
    BY <1>1, SessionFields
  <2> QED BY <1>1, <1>2, <2>1 DEF TypeOK
<1>7. TypeOK'
  BY <1>1, <1>2, <1>4, <1>5, <1>6 DEF TypeOK
<1> QED BY <1>2, <1>3, <1>4, <1>7 DEF TransactionsInv, DraftsHaveNoReviews, Coherent

LEMMA FailKeeps ==
    ASSUME TransactionsInv, NEW k \in Calls, Fail(k)
    PROVE  TransactionsInv'
<1>1. /\ db' = db /\ End(k, FALSE) /\ mints' = mints /\ emailed' = emailed
      /\ sends' = sends /\ made' = made /\ rounds' = rounds
      /\ failures' = failures + 1 /\ failures < MaxFailures
  BY DEF Fail
<1>2. tx' \in [Calls -> Transactions] /\ SessionsAreSound'
  BY <1>1, EndKeepsSessions
<1>3. failures' \in 0..MaxFailures
  BY <1>1, Constants DEF TransactionsInv, TypeOK
<1>4. TypeOK'
  BY <1>1, <1>2, <1>3 DEF TransactionsInv, TypeOK
<1> QED BY <1>1, <1>2, <1>4 DEF TransactionsInv, DraftsHaveNoReviews, Coherent

LEMMA TransactionsStep == TransactionsInv /\ [Next]_vars => TransactionsInv'
<1> SUFFICES ASSUME TransactionsInv, [Next]_vars PROVE TransactionsInv' OBVIOUS
<1>1. CASE UNCHANGED vars
  BY <1>1 DEF vars, TransactionsInv, TypeOK, DraftsHaveNoReviews, SessionsAreSound
<1>2. ASSUME NEW k \in Calls, NEW call \in Requested, WellFormed(call), Read(k, call)
      PROVE  TransactionsInv'
  BY <1>2, ReadKeeps
<1>3. ASSUME NEW k \in Calls, Flush(k) PROVE TransactionsInv'
  BY <1>3, FlushKeeps
<1>4. ASSUME NEW k \in Calls, Evaluate(k) PROVE TransactionsInv'
  BY <1>4, EvaluateKeeps
<1>5. ASSUME NEW k \in Calls, FlushRow(k) PROVE TransactionsInv'
  BY <1>5, FlushRowKeeps
<1>6. ASSUME NEW k \in Calls, Commit(k) PROVE TransactionsInv'
  BY <1>6, CommitKeeps
<1>7. ASSUME NEW k \in Calls, Fail(k) PROVE TransactionsInv'
  BY <1>7, FailKeeps
<1> QED BY <1>1, <1>2, <1>3, <1>4, <1>5, <1>6, <1>7 DEF Next
-----------------------------------------------------------------------------
(* The theorems *)

(* Every session that is open can be committed over what is committed.      *)
THEOREM TransactionsInvariant == Spec => []TransactionsInv
BY InitEstablishes, TransactionsStep, PTL DEF Spec

(* Type correctness of the overlapping calls. *)
THEOREM TransactionsTypeCorrect == Spec => []TypeOK
<1>1. TransactionsInv => TypeOK BY DEF TransactionsInv
<1> QED BY <1>1, TransactionsInvariant, PTL

(* Whatever calls overlap, the stored link was emailed, a link exists       *)
(* exactly when the request is no draft, and a snapshot exactly when there  *)
(* was a submission.                                                        *)
THEOREM RowStaysCoherent == Spec => []RowIsCoherent
<1>1. TransactionsInv => RowIsCoherent
  BY DEF TransactionsInv, Coherent, RowIsCoherent
<1> QED BY <1>1, TransactionsInvariant, PTL

(* A call that had not seen a revocation does not undo it: the commit of a  *)
(* send, a follow-up or a round of reevaluate writes only what it changed.  *)
THEOREM RevocationOutlastsCalls == Spec => RevocationWins
<1> DEFINE Wins == (db.row.revoked /\ ~db'.row.revoked) =>
                      \E k \in Calls : /\ Commits(k)
                                      /\ tx[k].call.kind = "resend"
                                      /\ tx[k].base.row.revoked
<1>1. TransactionsInv /\ [Next]_vars => [Wins]_vars
  <2> SUFFICES ASSUME TransactionsInv, [Next]_vars, db.row.revoked, ~db'.row.revoked
               PROVE  \E k \in Calls : /\ Commits(k)
                                      /\ tx[k].call.kind = "resend"
                                      /\ tx[k].base.row.revoked
    OBVIOUS
  <2>1. db' # db
    OBVIOUS
  <2>2. PICK k \in Calls : Commit(k)
    BY <2>1 DEF Next, vars, Read, Flush, Evaluate, FlushRow, Fail
  <2>3. /\ TypeOK /\ tx[k] \in Transactions /\ tx[k].pc = "done"
        /\ SessionSound(tx[k], emailed, db.row.status)
    BY <2>2 DEF TransactionsInv, TypeOK, SessionsAreSound, Commit
  <2>4. db' = Overlay(tx[k]) /\ failures' = failures /\ End(k, TRUE)
    BY <2>2 DEF Commit
  <2>5. tx[k].call.kind = "resend" /\ tx[k].base.row.revoked
    BY <2>3, <2>4, CommitLeavesCoherence DEF TransactionsInv, TypeOK
  <2>6. tx'[k].pc = "idle"
    BY <2>4 DEF End, NoTransaction
  <2> QED BY <2>3, <2>4, <2>5, <2>6 DEF Commits
<1> QED BY <1>1, TransactionsInvariant, PTL DEF Spec, RevocationWins

(* A completed request is reopened only by a call that read it before and   *)
(* writes a status whatever it is: a supplier's call or a second send.      *)
THEOREM ReopenedOnlyByStaleCalls == Spec => CompletionReopensOnlyStale
<1> DEFINE Stale == (db.row.status = "completed" /\ db'.row.status # "completed") =>
                      \E k \in Calls : /\ Commits(k)
                                      /\ tx[k].call.kind \in {"send", "open", "save", "submit"}
                                      /\ tx[k].base.row.status # "completed"
<1>1. TransactionsInv /\ [Next]_vars => [Stale]_vars
  <2> SUFFICES ASSUME TransactionsInv, [Next]_vars,
                      db.row.status = "completed", db'.row.status # "completed"
               PROVE  \E k \in Calls : /\ Commits(k)
                                      /\ tx[k].call.kind \in {"send", "open", "save", "submit"}
                                      /\ tx[k].base.row.status # "completed"
    OBVIOUS
  <2>1. db' # db
    OBVIOUS
  <2>2. PICK k \in Calls : Commit(k)
    BY <2>1 DEF Next, vars, Read, Flush, Evaluate, FlushRow, Fail
  <2>3. /\ TypeOK /\ tx[k] \in Transactions /\ tx[k].pc = "done"
        /\ SessionSound(tx[k], emailed, db.row.status)
    BY <2>2 DEF TransactionsInv, TypeOK, SessionsAreSound, Commit
  <2>4. db' = Overlay(tx[k]) /\ failures' = failures /\ End(k, TRUE)
    BY <2>2 DEF Commit
  <2>5. tx[k].call.kind \in Overwriting /\ tx[k].base.row.status # "completed"
    BY <2>3, <2>4, CommitLeavesCoherence DEF TransactionsInv, TypeOK
  <2>6. tx'[k].pc = "idle"
    BY <2>4 DEF End, NoTransaction
  <2> QED BY <2>3, <2>4, <2>5, <2>6 DEF Commits, Overwriting
<1> QED BY <1>1, TransactionsInvariant, PTL DEF Spec, CompletionReopensOnlyStale
-----------------------------------------------------------------------------
(***************************************************************************)
(* What a call does that nobody's commit overlapped.  Such a call has      *)
(* loaded what is committed, and what it decided is right about what it    *)
(* leaves.                                                                 *)
(***************************************************************************)

Judged(review) == review \in {"accepted", "rejected"}

\* Calls review or extract only what nobody has decided when they read it.
ReviewsUndecided(t) ==
    t.pc # "idle" =>
        /\ t.call.kind \in {"accept", "reject", "extract"} =>
              \A p \in t.call.proposal : ~Judged(t.base.review[p])
        /\ \A p \in Proposals : Judged(t.base.review[p]) => t.mine.review[p] = t.base.review[p]

\* The round that t inserts is one that _assert_can_follow_up allows.
RoundIsRight(t) ==
    t.round # NoRound =>
        /\ db.row.status # "completed" /\ ~t.mine.row.revoked
        /\ t.round.refs = Empty(t.mine.answer) /\ t.round.refs # {}
        /\ rounds # <<>> => rounds[Len(rounds)].refs # t.round.refs
        /\ t.round.automatic => Cardinality(AutomaticRounds) < MaxAutomaticRounds

\* t completes the request exactly if everything is answered and reviewed.
CompletionIsRight(t) ==
    Reevaluates(t) =>
        /\ AllAnswered(t.mine) => t.mine.row.status = "completed"
        /\ t.mine.row.status = "completed" => db.row.status = "completed" \/ AllAnswered(t.mine)

UpToDate(t) ==
    t.pc # "idle" /\ ~t.missed =>
        /\ t.base = db
        /\ t.pc = "read" => t.mine = db
        /\ t.call.kind = "follow_up" => CanFollowUp(db)
        /\ t.pc = "flushed" =>
              /\ t.round = NoRound
              /\ t.mine.row.status = "completed" <=> db.row.status = "completed"
        /\ t.pc \in {"evaluated", "done"} => RoundIsRight(t) /\ CompletionIsRight(t)

OverlapInv == \A k \in Calls : ReviewsUndecided(tx[k]) /\ UpToDate(tx[k])

(* A session laid over what it has loaded leaves what it has. *)
LEMMA OverlayOfCurrent ==
    ASSUME NEW t \in Transactions, db \in Data, t.base = db
    PROVE  /\ Overlay(t).answer = t.mine.answer /\ Overlay(t).review = t.mine.review
           /\ Overlay(t).row.status = t.mine.row.status
           /\ Overlay(t).row.token = t.mine.row.token
           /\ Overlay(t).row.revoked = t.mine.row.revoked
           /\ Overlay(t).row.snapshot = t.mine.row.snapshot
<1>1. /\ t.mine.answer \in [Slots -> Answers] /\ t.mine.review \in [Proposals -> Reviews]
      /\ db.answer \in [Slots -> Answers] /\ db.review \in [Proposals -> Reviews]
  BY SessionFields DEF Data
<1>2. Overlay(t).answer = t.mine.answer
  BY <1>1 DEF Overlay
<1>3. Overlay(t).review = t.mine.review
  BY <1>1 DEF Overlay
<1> QED BY <1>2, <1>3, OverlayColumns

(* Only a commit moves the committed data, and it tells everybody.          *)
LEMMA OneSessionKeepsOverlap ==
    ASSUME TypeOK, OverlapInv, NEW k \in Calls, NEW t \in Transactions,
           tx' = [tx EXCEPT ![k] = t], db' = db, rounds' = rounds,
           ReviewsUndecided(t), UpToDate(t)
    PROVE  OverlapInv'
<1> SUFFICES ASSUME NEW j \in Calls PROVE (ReviewsUndecided(tx[j]) /\ UpToDate(tx[j]))'
  BY DEF OverlapInv
<1>1. ReviewsUndecided(tx[j])' /\ (UpToDate(tx[j])' <=> UpToDate(tx'[j]))
  <2>1. ReviewsUndecided(tx'[j])
    BY DEF OverlapInv, TypeOK
  <2>2. ReviewsUndecided(tx[j])'
    BY <2>1 DEF ReviewsUndecided, Judged
  <2>3. UpToDate(tx[j])' <=> UpToDate(tx'[j])
    BY DEF UpToDate, RoundIsRight, CompletionIsRight, CanFollowUp, AutomaticRounds,
       SomethingMissing, AllAnswered, Reevaluates, Empty, Pending
  <2> QED BY <2>2, <2>3
<1>2. UpToDate(tx'[j])
  BY DEF OverlapInv, TypeOK
<1> QED BY <1>1, <1>2

LEMMA InitEstablishesOverlap == Init => OverlapInv
<1> SUFFICES ASSUME Init, NEW k \in Calls PROVE ReviewsUndecided(tx[k]) /\ UpToDate(tx[k])
  BY DEF OverlapInv
<1>1. tx[k].pc = "idle"
  BY DEF Init, NoTransaction
<1> QED BY <1>1 DEF ReviewsUndecided, UpToDate

LEMMA ReadKeepsOverlap ==
    ASSUME TransactionsInv, OverlapInv, NEW k \in Calls, NEW call \in Requested,
           WellFormed(call), Read(k, call), TypeOK'
    PROVE  OverlapInv'
<1> DEFINE t == tx'[k]
<1>1. t = [NoTransaction(db) EXCEPT !.pc = "read", !.call = call]
  BY DEF Read, TransactionsInv, TypeOK
<1>2. NoTransaction(db) \in Transactions /\ NoTransaction(db).base = db
      /\ NoTransaction(db).mine = db
  <2>1. NoRound \in Round /\ NoCall \in Requested /\ db \in Data
    BY DEF NoRound, Round, NoCall, Requested, Kinds, TransactionsInv, TypeOK
  <2> QED BY <2>1 DEF NoTransaction, Transactions
<1>3. /\ t.pc = "read" /\ t.call = call /\ t.base = db /\ t.mine = db
  BY <1>1, <1>2 DEF Transactions
<1>4. t \in Transactions /\ tx' = [tx EXCEPT ![k] = t] /\ db' = db /\ rounds' = rounds
  BY DEF Read, TransactionsInv, TypeOK
<1> HIDE DEF t
<1>5. call.kind \in {"accept", "reject", "extract"} =>
         \A p \in call.proposal : ~Judged(db.review[p])
  BY DEF Read, Admits, Judged
<1>6. call.kind = "follow_up" => CanFollowUp(db)
  BY DEF Read, Admits
<1>7. ReviewsUndecided(t) /\ UpToDate(t)
  BY <1>3, <1>5, <1>6 DEF ReviewsUndecided, UpToDate
<1> QED BY <1>4, <1>7, OneSessionKeepsOverlap DEF TransactionsInv

LEMMA FlushKeepsOverlap ==
    ASSUME TransactionsInv, OverlapInv, NEW k \in Calls, Flush(k)
    PROVE  OverlapInv'
<1> DEFINE old == tx[k]
           mine == AfterFlush(old)
           pc == IF Reevaluates(old) THEN "flushed" ELSE "done"
           round == IF old.call.kind = "follow_up"
                    THEN [refs |-> Empty(old.base.answer), automatic |-> FALSE] ELSE NoRound
           t == Session(old, pc, mine, round)
<1>1. /\ old \in Transactions /\ mints \in Nat /\ TypeOK
      /\ SessionSound(old, emailed, db.row.status)
      /\ ReviewsUndecided(old) /\ UpToDate(old)
  BY DEF TransactionsInv, TypeOK, SessionsAreSound, OverlapInv
<1>2. old.pc = "read" /\ tx' = [tx EXCEPT ![k] = t]
  BY DEF Flush, Session
<1>3. db' = db /\ rounds' = rounds
  BY DEF Flush
<1>4. mine \in Data /\ FlushedRow(old, mine.row) /\ FlushedRest(old, mine)
  BY <1>1, FlushedData
<1>5. /\ round \in Round /\ pc \in {"flushed", "done"}
      /\ pc = "flushed" => Reevaluates(old)
      /\ pc = "done" => ~Reevaluates(old)
      /\ old.call.kind # "follow_up" => round = NoRound
      /\ old.call.kind = "follow_up" => round.refs = Empty(old.base.answer) /\ ~round.automatic
  BY DEF Round, Empty, NoRound
<1> HIDE DEF mine, pc, round
<1>6. /\ t \in Transactions /\ t.pc = pc /\ t.mine = mine /\ t.call = old.call
      /\ t.base = old.base /\ t.missed = old.missed /\ t.round = round
  <2> HIDE DEF old
  <2> QED BY <1>1, <1>4, <1>5, SetSession
<1> HIDE DEF t
<1>7. ReviewsUndecided(t)
  <2> SUFFICES ASSUME NEW p \in Proposals, Judged(old.base.review[p])
               PROVE  mine.review[p] = old.base.review[p]
    BY <1>1, <1>2, <1>6 DEF ReviewsUndecided
  <2>1. old.call.kind \in {"accept", "reject", "extract"} => p \notin old.call.proposal
    BY <1>1, <1>2 DEF ReviewsUndecided
  <2> QED BY <1>4, <2>1 DEF FlushedRest
<1>8. UpToDate(t)
  <2> SUFFICES ASSUME ~old.missed PROVE UpToDate(t)
    BY <1>6 DEF UpToDate
  <2>1. old.base = db /\ (old.call.kind = "follow_up" => CanFollowUp(db))
    BY <1>1, <1>2 DEF UpToDate
  <2>2. pc = "flushed" =>
           /\ round = NoRound
           /\ mine.row.status = "completed" <=> db.row.status = "completed"
    <3>1. ASSUME pc = "flushed" PROVE old.call.kind \in {"submit", "accept", "reject"}
      BY <1>5, <3>1 DEF Reevaluates
    <3>2. old.call.kind = "submit" => old.base.row.status # "completed"
      BY <1>1, <1>2 DEF SessionSound, Overwriting
    <3> QED BY <1>4, <1>5, <2>1, <3>1, <3>2 DEF FlushedRow
  <2>3. pc = "done" => CompletionIsRight(t)
    BY <1>5, <1>6 DEF CompletionIsRight, Reevaluates
  <2>4. RoundIsRight(t)
    <3> SUFFICES ASSUME round # NoRound PROVE RoundIsRight(t)
      BY <1>6 DEF RoundIsRight
    <3>1. old.call.kind = "follow_up" /\ CanFollowUp(db) /\ round.refs = Empty(db.answer)
          /\ ~round.automatic
      BY <1>5, <2>1
    <3>2. ~mine.row.revoked /\ mine.answer = db.answer
      BY <1>4, <2>1, <3>1 DEF FlushedRow, FlushedRest
    <3> QED BY <1>6, <3>1, <3>2 DEF RoundIsRight, CanFollowUp, SomethingMissing
  <2> QED BY <1>5, <1>6, <2>1, <2>2, <2>3, <2>4 DEF UpToDate
<1> QED BY <1>1, <1>2, <1>3, <1>6, <1>7, <1>8, OneSessionKeepsOverlap

LEMMA EvaluateKeepsOverlap ==
    ASSUME TransactionsInv, OverlapInv, NEW k \in Calls, Evaluate(k)
    PROVE  OverlapInv'
<1> DEFINE old == tx[k]
           t == Evaluated(old)
<1>1. /\ old \in Transactions /\ mints \in Nat /\ TypeOK /\ db \in Data
      /\ SessionSound(old, emailed, db.row.status)
      /\ ReviewsUndecided(old) /\ UpToDate(old)
  BY DEF TransactionsInv, TypeOK, SessionsAreSound, OverlapInv
<1>2. old.pc = "flushed" /\ tx' = [tx EXCEPT ![k] = t] /\ db' = db /\ rounds' = rounds
  BY DEF Evaluate
<1>3. BeforeSnapshot(old) /\ (old.base.row.snapshot # NoSnapshot <=> old.base.row.submitted)
  BY <1>1, <1>2 DEF SessionSound, Coherent
<1>4. /\ t \in Transactions /\ t.pc = "evaluated" /\ t.call = old.call /\ t.base = old.base
      /\ t.mine.answer = old.mine.answer /\ t.mine.review = old.mine.review
      /\ t.missed = old.missed
      /\ \/ t.round = old.round
         \/ Again(old, t.round) /\ ~t.mine.row.revoked
      /\ t.mine.row.status = IF AllAnswered(Seen(old)) THEN "completed"
                             ELSE old.mine.row.status
  BY <1>1, <1>3, EvaluatedSession
<1> HIDE DEF t
<1>5. ReviewsUndecided(t)
  BY <1>1, <1>2, <1>4 DEF ReviewsUndecided
<1>6. UpToDate(t)
  <2> SUFFICES ASSUME ~old.missed PROVE UpToDate(t)
    BY <1>4 DEF UpToDate
  <2>1. /\ old.base = db /\ old.round = NoRound
        /\ old.call.kind = "follow_up" => CanFollowUp(db)
        /\ old.mine.row.status = "completed" <=> db.row.status = "completed"
    BY <1>1, <1>2 DEF UpToDate
  <2>2. /\ Seen(old).row = old.mine.row /\ Seen(old).answer = old.mine.answer
        /\ Seen(old).review = old.mine.review
    <3>1. Overlay(old).answer = old.mine.answer /\ Overlay(old).review = old.mine.review
      BY <1>1, <2>1, OverlayOfCurrent
    <3> HIDE DEF old
    <3> QED BY <3>1 DEF Seen
  <2>3. AllAnswered(Seen(old)) <=> AllAnswered(t.mine)
    BY <1>4, <2>2 DEF AllAnswered
  <2>4. CompletionIsRight(t)
    BY <1>4, <2>1, <2>3 DEF CompletionIsRight
  <2>5. RoundIsRight(t)
    <3> SUFFICES ASSUME t.round # NoRound PROVE RoundIsRight(t)
      BY DEF RoundIsRight
    <3>1. Again(old, t.round) /\ ~t.mine.row.revoked
      BY <1>4, <2>1
    <3>2. t.round.refs = Empty(t.mine.answer)
      BY <1>4, <2>2, <3>1 DEF Again
    <3>3. /\ Seen(old).row.status # "completed" /\ Empty(Seen(old).answer) # {}
          /\ rounds # <<>> => rounds[Len(rounds)].refs # Empty(Seen(old).answer)
          /\ Cardinality(AutomaticRounds) < MaxAutomaticRounds
      BY <3>1 DEF Again, CanFollowUp, SomethingMissing
    <3> QED BY <1>4, <2>1, <2>2, <3>1, <3>2, <3>3 DEF RoundIsRight
  <2> QED BY <1>4, <2>1, <2>4, <2>5 DEF UpToDate
<1> QED BY <1>1, <1>2, <1>4, <1>5, <1>6, OneSessionKeepsOverlap

LEMMA FlushRowKeepsOverlap ==
    ASSUME TransactionsInv, OverlapInv, NEW k \in Calls, FlushRow(k)
    PROVE  OverlapInv'
<1> DEFINE old == tx[k]
           t == Session(old, "done", old.mine, old.round)
<1>1. /\ old \in Transactions /\ TypeOK /\ ReviewsUndecided(old) /\ UpToDate(old)
  BY DEF TransactionsInv, TypeOK, OverlapInv
<1>2. old.mine \in Data /\ old.round \in Round
  BY <1>1, SessionFields
<1>3. old.pc = "evaluated" /\ tx' = [tx EXCEPT ![k] = t] /\ db' = db /\ rounds' = rounds
  <2>1. [old EXCEPT !.pc = "done"] = t
    BY <1>1 DEF Transactions, Session
  <2> QED BY <2>1 DEF FlushRow
<1>4. /\ t \in Transactions /\ t.pc = "done" /\ t.mine = old.mine /\ t.call = old.call
      /\ t.base = old.base /\ t.round = old.round /\ t.missed = old.missed
  <2> HIDE DEF old
  <2> QED BY <1>1, <1>2, SetSession
<1> HIDE DEF t, old
<1>5. ReviewsUndecided(t) /\ UpToDate(t)
  BY <1>1, <1>3, <1>4 DEF ReviewsUndecided, UpToDate, RoundIsRight, CompletionIsRight, Reevaluates
<1> QED BY <1>1, <1>3, <1>4, <1>5, OneSessionKeepsOverlap

(* The end of a session k: after a commit no other session is up to date.   *)
LEMMA EndKeepsOverlap ==
    ASSUME TransactionsInv, OverlapInv, NEW k \in Calls, NEW changed \in BOOLEAN,
           End(k, changed), ~changed => db' = db /\ rounds' = rounds
    PROVE  OverlapInv'
<1> SUFFICES ASSUME NEW j \in Calls PROVE (ReviewsUndecided(tx[j]) /\ UpToDate(tx[j]))'
  BY DEF OverlapInv
<1>1. tx[j] \in Transactions /\ ReviewsUndecided(tx[j]) /\ UpToDate(tx[j])
  BY DEF TransactionsInv, TypeOK, OverlapInv
<1>2. CASE tx'[j] = NoTransaction(Fresh(FALSE))
  BY <1>2 DEF ReviewsUndecided, UpToDate, NoTransaction
<1>3. CASE tx'[j] = tx[j] /\ (~changed \/ tx[j].pc = "idle")
  <2>1. ReviewsUndecided(tx[j])'
    BY <1>1, <1>3 DEF ReviewsUndecided, Judged
  <2>2. CASE tx[j].pc = "idle"
    BY <1>3, <2>1, <2>2 DEF UpToDate
  <2>3. CASE db' = db /\ rounds' = rounds
    <3>1. UpToDate(tx[j])' <=> UpToDate(tx[j])
      BY <1>3, <2>3 DEF UpToDate, RoundIsRight, CompletionIsRight, CanFollowUp, AutomaticRounds,
         SomethingMissing, AllAnswered, Reevaluates, Empty, Pending
    <3> QED BY <1>1, <2>1, <3>1
  <2> QED BY <1>3, <2>2, <2>3
<1>4. CASE tx'[j] = [tx[j] EXCEPT !.missed = TRUE]
  <2> DEFINE old == tx[j]
             t == [old EXCEPT !.missed = TRUE]
  <2>1. /\ t.pc = old.pc /\ t.call = old.call /\ t.base = old.base /\ t.mine = old.mine
        /\ t.missed
    <3> HIDE DEF old
    <3>1. old \in Transactions
      BY <1>1 DEF old
    <3> QED BY <3>1 DEF Transactions
  <2>2. tx'[j] = t
    BY <1>4
  <2> HIDE DEF t
  <2>3. tx'[j].missed /\ tx'[j].pc = old.pc /\ tx'[j].call = old.call
        /\ tx'[j].base = old.base /\ tx'[j].mine = old.mine
    BY <2>1, <2>2
  <2> QED BY <1>1, <2>3 DEF ReviewsUndecided, UpToDate, Judged
<1> QED BY <1>2, <1>3, <1>4 DEF End

LEMMA OverlapStep == TransactionsInv /\ TypeOK' /\ OverlapInv /\ [Next]_vars => OverlapInv'
<1> SUFFICES ASSUME TransactionsInv, TypeOK', OverlapInv, [Next]_vars PROVE OverlapInv' OBVIOUS
<1>1. CASE UNCHANGED vars
  <2>1. db' = db /\ rounds' = rounds /\ tx' = tx
    BY <1>1 DEF vars
  <2> SUFFICES ASSUME NEW k \in Calls PROVE (ReviewsUndecided(tx[k]) /\ UpToDate(tx[k]))'
    BY DEF OverlapInv
  <2>2. ReviewsUndecided(tx[k]) /\ UpToDate(tx[k])
    BY DEF OverlapInv
  <2>3. ReviewsUndecided(tx[k])'
    BY <2>1, <2>2 DEF ReviewsUndecided, Judged
  <2>4. UpToDate(tx[k])' <=> UpToDate(tx[k])
    BY <2>1 DEF UpToDate, RoundIsRight, CompletionIsRight, CanFollowUp, AutomaticRounds,
       SomethingMissing, AllAnswered, Reevaluates, Empty, Pending
  <2> QED BY <2>2, <2>3, <2>4
<1>2. ASSUME NEW k \in Calls, NEW call \in Requested, WellFormed(call), Read(k, call)
      PROVE  OverlapInv'
  BY <1>2, ReadKeepsOverlap
<1>3. ASSUME NEW k \in Calls, Flush(k) PROVE OverlapInv'
  BY <1>3, FlushKeepsOverlap
<1>4. ASSUME NEW k \in Calls, Evaluate(k) PROVE OverlapInv'
  BY <1>4, EvaluateKeepsOverlap
<1>5. ASSUME NEW k \in Calls, FlushRow(k) PROVE OverlapInv'
  BY <1>5, FlushRowKeepsOverlap
<1>6. ASSUME NEW k \in Calls, Commit(k) PROVE OverlapInv'
  BY <1>6, EndKeepsOverlap DEF Commit
<1>7. ASSUME NEW k \in Calls, Fail(k) PROVE OverlapInv'
  BY <1>7, EndKeepsOverlap DEF Fail
<1> QED BY <1>1, <1>2, <1>3, <1>4, <1>5, <1>6, <1>7 DEF Next

(* Every call that nobody overlapped is right about what is committed, and  *)
(* no call reviews what was decided when it read it.                        *)
THEOREM OverlapInvariant == Spec => [](TransactionsInv /\ OverlapInv)
<1>1. Init => TransactionsInv /\ OverlapInv
  BY InitEstablishes, InitEstablishesOverlap
<1>2. TransactionsInv /\ OverlapInv /\ [Next]_vars => (TransactionsInv /\ OverlapInv)'
  <2>1. TransactionsInv' => TypeOK'
    BY DEF TransactionsInv
  <2> QED BY <2>1, TransactionsStep, OverlapStep
<1> QED BY <1>1, <1>2, PTL DEF Spec

(* What the commit of an up-to-date call leaves. *)
LEMMA UpToDateCommit ==
    ASSUME TransactionsInv, OverlapInv, [Next]_vars, NEW k \in Calls, Commits(k),
           ~tx[k].missed
    PROVE  /\ tx[k] \in Transactions /\ tx[k].base = db /\ tx[k].pc = "done"
           /\ SnapshotSound(tx[k]) /\ ReviewsUndecided(tx[k])
           /\ RoundIsRight(tx[k]) /\ CompletionIsRight(tx[k])
           /\ db'.answer = tx[k].mine.answer /\ db'.review = tx[k].mine.review
           /\ db'.row.status = tx[k].mine.row.status
           /\ db'.row.token = tx[k].mine.row.token
           /\ db'.row.revoked = tx[k].mine.row.revoked
           /\ db'.row.snapshot = tx[k].mine.row.snapshot
           /\ rounds' = IF tx[k].round = NoRound THEN rounds ELSE Append(rounds, tx[k].round)
<1>1. /\ tx[k] \in Transactions /\ db \in Data /\ tx[k].pc = "done" /\ tx'[k].pc = "idle"
      /\ failures' = failures /\ TypeOK
  BY DEF Commits, TransactionsInv, TypeOK
<1>2. Commit(k)
  <2>1. tx'[k] # tx[k]
    BY <1>1
  <2>2. PICK j \in Calls : \/ \E call \in Requested : Read(j, call)
                           \/ Flush(j) \/ Evaluate(j) \/ FlushRow(j) \/ Commit(j) \/ Fail(j)
    BY <2>1 DEF Next, vars
  <2>3. ~Fail(j)
    <3> SUFFICES ASSUME Fail(j) PROVE FALSE OBVIOUS
    <3>1. failures' = failures + 1 /\ failures \in 0..MaxFailures
      BY <1>1 DEF Fail, TypeOK
    <3> QED BY <1>1, <3>1, Constants
  <2>4. CASE Commit(j)
    <3>1. CASE j # k
      <4>1. tx'[k] = tx[k] \/ tx'[k] = [tx[k] EXCEPT !.missed = TRUE]
        BY <2>4, <3>1 DEF Commit, End
      <4>2. [tx[k] EXCEPT !.missed = TRUE].pc = tx[k].pc
        BY <1>1 DEF Transactions
      <4> QED BY <1>1, <4>1, <4>2
    <3> QED BY <2>4, <3>1
  <2>5. CASE (\E call \in Requested : Read(j, call)) \/ Flush(j) \/ Evaluate(j) \/ FlushRow(j)
    <3>1. j = k
      BY <1>1, <2>1, <2>5 DEF Read, Flush, Evaluate, FlushRow, TypeOK
    <3> QED BY <1>1, <2>5, <3>1 DEF Read, Flush, Evaluate, FlushRow
  <2> QED BY <2>2, <2>3, <2>4, <2>5
<1>3. /\ db' = Overlay(tx[k])
      /\ rounds' = IF tx[k].round = NoRound THEN rounds ELSE Append(rounds, tx[k].round)
  BY <1>2 DEF Commit
<1>4. tx[k].base = db /\ RoundIsRight(tx[k]) /\ CompletionIsRight(tx[k])
      /\ ReviewsUndecided(tx[k])
  BY <1>1 DEF OverlapInv, UpToDate
<1>5. SnapshotSound(tx[k])
  BY <1>1 DEF TransactionsInv, SessionsAreSound, SessionSound
<1> QED BY <1>1, <1>3, <1>4, <1>5, OverlayOfCurrent

(* reevaluate is right about what is committed, but for write skew: a       *)
(* submit, accept or reject that nobody overlapped completes the request    *)
(* exactly if it leaves everything answered and reviewed.                   *)
THEOREM CompletionMissedByOverlap == Spec => CompletionMissedOnlyByOverlap
<1> DEFINE Right(k) == /\ AllAnswered(db') => db'.row.status = "completed"
                       /\ db'.row.status = "completed" =>
                             db.row.status = "completed" \/ AllAnswered(db')
           Step == \A k \in Calls : Commits(k) /\ Reevaluates(tx[k]) /\ ~tx[k].missed => Right(k)
<1>1. TransactionsInv /\ OverlapInv /\ [Next]_vars => [Step]_vars
  <2> SUFFICES ASSUME TransactionsInv, OverlapInv, [Next]_vars, NEW k \in Calls, Commits(k),
                      Reevaluates(tx[k]), ~tx[k].missed
               PROVE  Right(k)
    OBVIOUS
  <2>1. /\ CompletionIsRight(tx[k]) /\ db'.answer = tx[k].mine.answer
        /\ db'.review = tx[k].mine.review /\ db'.row.status = tx[k].mine.row.status
    BY UpToDateCommit
  <2>2. AllAnswered(db') <=> AllAnswered(tx[k].mine)
    BY <2>1 DEF AllAnswered
  <2> QED BY <2>1, <2>2 DEF CompletionIsRight
<1> QED BY <1>1, OverlapInvariant, PTL DEF Spec, CompletionMissedOnlyByOverlap

(* A decision and the snapshot of the first submission are replaced only by *)
(* a call that overlapped the one that made them.                           *)
THEOREM DecisionsReplacedByOverlap == Spec => DecisionsReplacedOnlyByOverlap
<1> DEFINE Replaced == \/ \E p \in Proposals : Decided(p) /\ db'.review[p] # db.review[p]
                       \/ db.row.submitted /\ db'.row.snapshot # db.row.snapshot
           Step == Replaced => \E k \in Calls : Commits(k) /\ tx[k].missed
<1>1. TransactionsInv /\ OverlapInv /\ [Next]_vars => [Step]_vars
  <2> SUFFICES ASSUME TransactionsInv, OverlapInv, [Next]_vars, Replaced
               PROVE  \E k \in Calls : Commits(k) /\ tx[k].missed
    OBVIOUS
  <2>1. db' # db
    OBVIOUS
  <2>2. PICK k \in Calls : Commit(k)
    BY <2>1 DEF Next, vars, Read, Flush, Evaluate, FlushRow, Fail
  <2>3. Commits(k) /\ tx[k] \in Transactions /\ db \in Data
    BY <2>2 DEF Commits, Commit, End, NoTransaction, TransactionsInv, TypeOK
  <2>4. ASSUME ~tx[k].missed PROVE FALSE
    <3>1. /\ tx[k].base = db /\ tx[k].pc = "done" /\ SnapshotSound(tx[k])
          /\ ReviewsUndecided(tx[k]) /\ db'.review = tx[k].mine.review
          /\ db'.row.snapshot = tx[k].mine.row.snapshot
      BY <2>3, <2>4, UpToDateCommit
    <3>2. \A p \in Proposals : Decided(p) => db'.review[p] = db.review[p]
      BY <3>1 DEF ReviewsUndecided, Judged, Decided
    <3>3. db.row.submitted => db'.row.snapshot = db.row.snapshot
      BY <3>1 DEF SnapshotSound
    <3> QED BY <3>2, <3>3
  <2> QED BY <2>3, <2>4
<1> QED BY <1>1, OverlapInvariant, PTL DEF Spec, DecisionsReplacedOnlyByOverlap
-----------------------------------------------------------------------------
(***************************************************************************)
(* What a call does to the work and to its link, whoever overlaps it: seen *)
(* from the row that it has loaded, a step of module RequestWorkflow.      *)
(***************************************************************************)

SameWork(old, row) == Phase(row) = Phase(old) /\ Link(row) = Link(old)

\* Nothing, Start, Reissue, Withdraw or Finish.
Moves(old, row) ==
    \/ SameWork(old, row)
    \/ Phase(old) = "draft" /\ Phase(row) = "open" /\ Link(row) = "live"
    \/ Phase(old) = "open" /\ Phase(row) = "open" /\ Link(row) = "live"
    \/ Phase(row) = Phase(old) /\ Link(old) = "live" /\ Link(row) = "revoked"
    \/ Phase(old) = "open" /\ Phase(row) = "completed" /\ Link(row) = Link(old)

\* An ask needs open work and a live link, and leaves both.
MayAsk(old, row) == SameWork(old, row) /\ Phase(old) = "open" /\ Link(old) = "live"

MoveSound(t) ==
    t.pc # "idle" =>
        /\ t.call.kind \in {"resend", "follow_up"} => t.base.row.status # "completed"
        /\ t.call.kind \in {"revoke", "follow_up"} => ~t.base.row.revoked
        /\ t.pc = "flushed" =>
              /\ SameWork(t.base.row, t.mine.row)
              /\ t.round = NoRound
        /\ t.pc \in {"evaluated", "done"} =>
              IF t.round = NoRound THEN Moves(t.base.row, t.mine.row)
                                   ELSE MayAsk(t.base.row, t.mine.row)

MovesAreSound == \A k \in Calls : MoveSound(tx[k])

(* A step that changes one session. *)
LEMMA OneSessionKeepsMoves ==
    ASSUME TypeOK, MovesAreSound, NEW k \in Calls, NEW t,
           tx' = [tx EXCEPT ![k] = t], MoveSound(t)
    PROVE  MovesAreSound'
BY DEF TypeOK, MovesAreSound, MoveSound, SameWork, Moves, MayAsk, Phase, Link

LEMMA ReadMoves ==
    ASSUME TransactionsInv, MovesAreSound, NEW k \in Calls, NEW call \in Requested, Read(k, call)
    PROVE  MovesAreSound'
<1> DEFINE t == [NoTransaction(db) EXCEPT !.pc = "read", !.call = call]
<1>1. t.pc = "read" /\ t.call = call /\ t.base = db
  BY DEF NoTransaction
<1>2. tx' = [tx EXCEPT ![k] = t]
  BY DEF Read
<1> HIDE DEF t
<1>3. /\ call.kind \in {"resend", "follow_up"} => db.row.status # "completed"
      /\ call.kind \in {"revoke", "follow_up"} => ~db.row.revoked
  BY DEF Read, Admits, CanFollowUp
<1>4. MoveSound(t)
  BY <1>1, <1>3 DEF MoveSound
<1> QED BY <1>2, <1>4, OneSessionKeepsMoves DEF TransactionsInv

LEMMA FlushMoves ==
    ASSUME TransactionsInv, MovesAreSound, NEW k \in Calls, Flush(k)
    PROVE  MovesAreSound'
<1> DEFINE old == tx[k]
           mine == AfterFlush(old)
           pc == IF Reevaluates(old) THEN "flushed" ELSE "done"
           round == IF old.call.kind = "follow_up"
                    THEN [refs |-> Empty(old.base.answer), automatic |-> FALSE] ELSE NoRound
           t == Session(old, pc, mine, round)
<1>1. /\ old \in Transactions /\ mints \in Nat /\ TypeOK
      /\ SessionSound(old, emailed, db.row.status) /\ MoveSound(old)
  BY DEF TransactionsInv, TypeOK, SessionsAreSound, MovesAreSound
<1>2. old.pc = "read" /\ tx' = [tx EXCEPT ![k] = t]
  BY DEF Flush, Session
<1>3. mine \in Data /\ FlushedRow(old, mine.row)
  BY <1>1, FlushedData
<1>4. /\ round \in Round /\ pc \in {"flushed", "done"}
      /\ pc = "flushed" => old.call.kind \in {"submit", "accept", "reject"}
      /\ old.call.kind # "follow_up" => round = NoRound
  BY DEF Round, Empty, NoRound, Reevaluates
<1> HIDE DEF mine, pc, round
<1>5. /\ t \in Transactions /\ t.pc = pc /\ t.mine = mine /\ t.call = old.call
      /\ t.base = old.base /\ t.round = round
  <2> HIDE DEF old
  <2> QED BY <1>1, <1>3, <1>4, SetSession
<1> HIDE DEF t
<1> DEFINE a == mine.row
           b == old.base.row
           kind == old.call.kind
<1>6. /\ b.token = NoToken <=> b.status = "draft"
      /\ b.status = "draft" <=> kind = "send"
      /\ kind \in Overwriting => b.status # "completed"
      /\ kind \in {"resend", "follow_up"} => b.status # "completed"
      /\ kind \in {"revoke", "follow_up"} => ~b.revoked
  BY <1>1, <1>2 DEF SessionSound, Coherent, MoveSound
<1>7. /\ a.status = CASE kind = "send" -> "sent"
                      [] kind = "open" -> "opened"
                      [] kind = "save" -> "in_progress"
                      [] kind = "submit" -> "submitted"
                      [] OTHER -> b.status
      /\ IF kind \in {"send", "resend", "follow_up"}
         THEN a.token = mints + 1 /\ ~a.revoked
         ELSE a.token = b.token /\ (a.revoked <=> (b.revoked \/ kind = "revoke"))
      /\ a.revoked \in BOOLEAN /\ b.revoked \in BOOLEAN
  BY <1>1, <1>3, SessionFields DEF FlushedRow, RequestRows, Data
<1>8. mints + 1 # NoToken /\ mints + 1 \in Nat
  BY <1>1 DEF NoToken
<1> HIDE DEF a, b, kind
<1>9. kind \in {"open", "save", "submit", "accept", "reject", "extract"} => SameWork(b, a)
  BY <1>6, <1>7 DEF SameWork, Phase, Link, Overwriting
<1>10. kind = "follow_up" => MayAsk(b, a)
  BY <1>6, <1>7, <1>8 DEF MayAsk, SameWork, Phase, Link
<1>11. kind \in {"send", "resend", "revoke"} => Moves(b, a)
  <2>1. CASE kind = "send"
    BY <1>6, <1>7, <1>8, <2>1 DEF Moves, Phase, Link
  <2>2. CASE kind = "resend"
    BY <1>6, <1>7, <1>8, <2>2 DEF Moves, Phase, Link
  <2>3. CASE kind = "revoke"
    BY <1>6, <1>7, <2>3 DEF Moves, Phase, Link
  <2> QED BY <2>1, <2>2, <2>3
<1>12. kind \in Kinds
  BY <1>1, SessionFields DEF kind
<1>13. MoveSound(t)
  <2>1. pc = "flushed" => SameWork(b, a) /\ round = NoRound
    BY <1>4, <1>9 DEF kind
  <2>2. IF round = NoRound THEN Moves(b, a) ELSE MayAsk(b, a)
    <3>1. CASE kind = "follow_up"
      BY <1>10, <3>1 DEF MayAsk, Moves
    <3>2. CASE kind # "follow_up"
      <4>1. round = NoRound
        BY <1>4, <3>2 DEF kind
      <4>2. kind \in {"open", "save", "submit", "accept", "reject", "extract"}
            \/ kind \in {"send", "resend", "revoke"}
        BY <1>12, <3>2 DEF Kinds
      <4> QED BY <1>9, <1>11, <4>1, <4>2 DEF Moves
    <3> QED BY <3>1, <3>2
  <2> QED BY <1>4, <1>5, <1>6, <2>1, <2>2 DEF MoveSound, a, b, kind
<1> QED BY <1>1, <1>2, <1>13, OneSessionKeepsMoves

LEMMA EvaluateMoves ==
    ASSUME TransactionsInv, MovesAreSound, NEW k \in Calls, Evaluate(k)
    PROVE  MovesAreSound'
<1> DEFINE old == tx[k]
           t == Evaluated(old)
<1>1. /\ old \in Transactions /\ mints \in Nat /\ TypeOK
      /\ SessionSound(old, emailed, db.row.status) /\ MoveSound(old)
  BY DEF TransactionsInv, TypeOK, SessionsAreSound, MovesAreSound
<1>2. old.pc = "flushed" /\ tx' = [tx EXCEPT ![k] = t]
  BY DEF Evaluate
<1>3. BeforeSnapshot(old) /\ (old.base.row.snapshot # NoSnapshot <=> old.base.row.submitted)
  BY <1>1, <1>2 DEF SessionSound, Coherent
<1>4. /\ t \in Transactions /\ t.pc = "evaluated" /\ t.call = old.call /\ t.base = old.base
      /\ \/ /\ t.mine.row.token = old.mine.row.token /\ t.round = old.round
            /\ t.mine.row.revoked = old.mine.row.revoked
         \/ /\ t.mine.row.token = mints + 1 /\ Again(old, t.round)
            /\ ~old.mine.row.revoked /\ ~t.mine.row.revoked
      /\ t.mine.row.status = IF AllAnswered(Seen(old)) THEN "completed"
                             ELSE old.mine.row.status
  BY <1>1, <1>3, EvaluatedSession
<1> HIDE DEF t
<1>5. /\ old.mine.row.status # "draft" /\ SameWork(old.base.row, old.mine.row)
      /\ old.round = NoRound
      /\ t.call.kind \in {"resend", "follow_up"} => t.base.row.status # "completed"
      /\ t.call.kind \in {"revoke", "follow_up"} => ~t.base.row.revoked
  BY <1>1, <1>2, <1>4 DEF SessionSound, WriteSound, MoveSound
<1>6. old.mine.row.status \in Statuses /\ old.base.row.status \in Statuses
  BY <1>1, SessionFields DEF RequestRows
<1> DEFINE a == t.mine.row
           m == old.mine.row
           b == old.base.row
<1>7. CASE a.token = m.token /\ t.round = old.round /\ a.revoked = m.revoked
  <2>1. a.status \in {m.status, "completed"}
    BY <1>4
  <2> HIDE DEF a, m, b
  <2>2. Link(a) = Link(b)
    BY <1>5, <1>7 DEF Link, SameWork, m, b
  <2>3. Phase(m) = Phase(b) /\ m.status # "draft" /\ Phase(b) \in {"open", "completed"}
    BY <1>5, <1>6 DEF SameWork, Phase, Statuses, m, b
  <2>4. Phase(a) = Phase(b) \/ (Phase(b) = "open" /\ Phase(a) = "completed")
    BY <2>1, <2>3 DEF Phase
  <2>5. Moves(b, a) /\ t.round = NoRound
    BY <1>5, <1>7, <2>2, <2>4 DEF Moves, SameWork
  <2> QED BY <1>2, <1>4, <1>5, <2>5, OneSessionKeepsMoves, <1>1 DEF MoveSound, a, b
<1>8. CASE /\ a.token = mints + 1 /\ Again(old, t.round)
           /\ ~m.revoked /\ ~a.revoked
  <2>1. Seen(old).row = m
    BY DEF Seen
  <2>2. m.token # NoToken /\ m.status # "completed" /\ ~AllAnswered(Seen(old))
    BY <1>8, <2>1 DEF Again, CanFollowUp, SomethingMissing, AllAnswered
  <2>3. a.status = m.status /\ t.round # NoRound
    BY <1>4, <1>8, <2>2 DEF Again, NoRound
  <2>4. mints + 1 # NoToken
    BY <1>1 DEF NoToken
  <2> HIDE DEF a, m, b
  <2>5. MayAsk(b, a)
    <3>1. Phase(m) = "open" /\ Link(m) = "live" /\ Phase(a) = "open" /\ Link(a) = "live"
      BY <1>5, <1>8, <2>2, <2>3, <2>4 DEF Phase, Link, m
    <3> QED BY <1>5, <3>1 DEF MayAsk, SameWork, m, b
  <2> QED BY <1>1, <1>2, <1>4, <1>5, <2>3, <2>5, OneSessionKeepsMoves DEF MoveSound, a, b
<1> QED BY <1>4, <1>7, <1>8

LEMMA FlushRowMoves ==
    ASSUME TransactionsInv, MovesAreSound, NEW k \in Calls, FlushRow(k)
    PROVE  MovesAreSound'
<1> DEFINE old == tx[k]
           t == Session(old, "done", old.mine, old.round)
<1>1. old \in Transactions /\ TypeOK /\ MoveSound(old)
  BY DEF TransactionsInv, TypeOK, MovesAreSound
<1>2. old.mine \in Data /\ old.round \in Round
  BY <1>1, SessionFields
<1>3. old.pc = "evaluated" /\ tx' = [tx EXCEPT ![k] = t]
  <2>1. [old EXCEPT !.pc = "done"] = t
    BY <1>1 DEF Transactions, Session
  <2> QED BY <2>1 DEF FlushRow
<1>4. /\ t.pc = "done" /\ t.mine = old.mine /\ t.call = old.call
      /\ t.base = old.base /\ t.round = old.round
  <2> HIDE DEF old
  <2> QED BY <1>1, <1>2, SetSession
<1> HIDE DEF t, old
<1>5. MoveSound(t)
  BY <1>1, <1>3, <1>4 DEF MoveSound
<1> QED BY <1>1, <1>3, <1>5, OneSessionKeepsMoves

LEMMA EndMoves ==
    ASSUME TransactionsInv, MovesAreSound, NEW k \in Calls, NEW changed \in BOOLEAN,
           End(k, changed)
    PROVE  MovesAreSound'
<1> SUFFICES ASSUME NEW j \in Calls PROVE MoveSound(tx'[j])
  BY DEF MovesAreSound, MoveSound, SameWork, Moves, MayAsk, Phase, Link
<1>1. tx[j] \in Transactions /\ MoveSound(tx[j])
  BY DEF TransactionsInv, TypeOK, MovesAreSound
<1>2. CASE tx'[j] = NoTransaction(Fresh(FALSE))
  BY <1>2 DEF MoveSound, NoTransaction
<1>3. CASE tx'[j] = [tx[j] EXCEPT !.missed = TRUE]
  <2> DEFINE old == tx[j]
             t == [old EXCEPT !.missed = TRUE]
  <2>1. /\ t.pc = old.pc /\ t.call = old.call /\ t.base = old.base /\ t.mine = old.mine
        /\ t.round = old.round
    <3> HIDE DEF old
    <3>1. old \in Transactions
      BY <1>1 DEF old
    <3> QED BY <3>1 DEF Transactions
  <2>2. tx'[j] = t
    BY <1>3
  <2> HIDE DEF t
  <2> QED BY <1>1, <2>1, <2>2 DEF MoveSound
<1>4. CASE tx'[j] = tx[j]
  BY <1>1, <1>4
<1> QED BY <1>2, <1>3, <1>4 DEF End

LEMMA MoveStep == TransactionsInv /\ MovesAreSound /\ [Next]_vars => MovesAreSound'
<1> SUFFICES ASSUME TransactionsInv, MovesAreSound, [Next]_vars PROVE MovesAreSound' OBVIOUS
<1>1. CASE UNCHANGED vars
  BY <1>1 DEF vars, MovesAreSound, MoveSound, SameWork, Moves, MayAsk, Phase, Link
<1>2. ASSUME NEW k \in Calls, NEW call \in Requested, Read(k, call) PROVE MovesAreSound'
  BY <1>2, ReadMoves
<1>3. ASSUME NEW k \in Calls, Flush(k) PROVE MovesAreSound'
  BY <1>3, FlushMoves
<1>4. ASSUME NEW k \in Calls, Evaluate(k) PROVE MovesAreSound'
  BY <1>4, EvaluateMoves
<1>5. ASSUME NEW k \in Calls, FlushRow(k) PROVE MovesAreSound'
  BY <1>5, FlushRowMoves
<1>6. ASSUME NEW k \in Calls, Commit(k) \/ Fail(k) PROVE MovesAreSound'
  BY <1>6, EndMoves DEF Commit, Fail
<1> QED BY <1>1, <1>2, <1>3, <1>4, <1>5, <1>6 DEF Next

(* Whatever overlaps, every call takes the work from where it has loaded it *)
(* by a step of the workflow.                                               *)
THEOREM MoveInvariant == Spec => [](TransactionsInv /\ OverlapInv /\ MovesAreSound)
<1>1. Init => MovesAreSound
  <2>1. Init => tx = [k \in Calls |-> NoTransaction(Fresh(FALSE))]
    BY Zenon DEF Init
  <2>2. NoTransaction(Fresh(FALSE)).pc = "idle"
    BY DEF NoTransaction
  <2>3. Init => \A k \in Calls : tx[k].pc = "idle"
    BY <2>1, <2>2
  <2> QED BY <2>3 DEF MovesAreSound, MoveSound
<1>2. TransactionsInv /\ MovesAreSound /\ [Next]_vars => MovesAreSound'
  BY MoveStep
<1> QED BY <1>1, <1>2, OverlapInvariant, PTL DEF Spec
-----------------------------------------------------------------------------
(* The workflow *)

(* A round is appended to what was asked. *)
LEMMA RoundIsAppended ==
    ASSUME rounds \in Seq(Round), NEW round \in Round, rounds' = Append(rounds, round)
    PROVE  /\ AsksSoFar' = Append(AsksSoFar, round.refs)
           /\ AsksSoFar # <<>> => /\ rounds # <<>>
                                  /\ AsksSoFar[Len(AsksSoFar)] = rounds[Len(rounds)].refs
<1>1. /\ Len(rounds) \in Nat /\ DOMAIN rounds = 1..Len(rounds)
      /\ DOMAIN rounds' = 1..(Len(rounds) + 1)
      /\ rounds'[Len(rounds) + 1] = round
      /\ \A i \in 1..Len(rounds) : rounds'[i] = rounds[i]
  BY AppendProperties
<1>2. round.refs \in SUBSET Slots /\ \A i \in 1..Len(rounds) : rounds[i].refs \in SUBSET Slots
  <2>1. \A i \in 1..Len(rounds) : rounds[i] \in Round
    BY <1>1
  <2> QED BY <2>1 DEF Round
<1>3. /\ AsksSoFar \in Seq(SUBSET Slots) /\ Len(AsksSoFar) = Len(rounds)
      /\ \A i \in 1..Len(rounds) : AsksSoFar[i] = rounds[i].refs
  BY <1>1, <1>2 DEF AsksSoFar
<1> DEFINE longer == Append(AsksSoFar, round.refs)
<1>4. /\ longer \in Seq(SUBSET Slots) /\ Len(longer) = Len(rounds) + 1
      /\ longer[Len(rounds) + 1] = round.refs
      /\ \A i \in 1..Len(rounds) : longer[i] = AsksSoFar[i]
  BY <1>2, <1>3, AppendProperties
<1> HIDE DEF longer
<1>5. ASSUME NEW i \in 1..(Len(rounds) + 1) PROVE rounds'[i].refs = longer[i]
  <2>1. CASE i = Len(rounds) + 1
    BY <1>1, <1>4, <2>1
  <2>2. CASE i # Len(rounds) + 1
    <3>1. i \in 1..Len(rounds)
      BY <1>1, <2>2
    <3> QED BY <1>1, <1>3, <1>4, <3>1
  <2> QED BY <2>1, <2>2
<1>6. AsksSoFar' = [i \in 1..Len(longer) |-> longer[i]]
  BY <1>1, <1>4, <1>5 DEF AsksSoFar
<1>7. longer = [i \in 1..Len(longer) |-> longer[i]]
  BY <1>4
<1>8. AsksSoFar # <<>> => /\ rounds # <<>>
                          /\ AsksSoFar[Len(AsksSoFar)] = rounds[Len(rounds)].refs
  <2> SUFFICES ASSUME AsksSoFar # <<>> PROVE rounds # <<>> /\ Len(rounds) \in 1..Len(rounds)
    BY <1>3
  <2> QED BY <1>1, <1>3, EmptySeq
<1> QED BY <1>6, <1>7, <1>8 DEF longer

(* The commit of an up-to-date call is a step of the workflow. *)
LEMMA CommitIsAWorkflowStep ==
    ASSUME TransactionsInv, OverlapInv, MovesAreSound, [Next]_vars, NEW k \in Calls,
           Commits(k), ~tx[k].missed
    PROVE  Workflow!WNext \/ UNCHANGED Workflow!wvars
<1> DEFINE t == tx[k]
           S == t.round.refs
<1>1. /\ t \in Transactions /\ t.base = db /\ t.pc = "done" /\ RoundIsRight(t)
      /\ db'.row.status = t.mine.row.status /\ db'.row.token = t.mine.row.token
      /\ db'.row.revoked = t.mine.row.revoked
      /\ rounds' = IF t.round = NoRound THEN rounds ELSE Append(rounds, t.round)
  BY UpToDateCommit
<1>2. Phase(db.row)' = Phase(t.mine.row) /\ Link(db.row)' = Link(t.mine.row)
  BY <1>1 DEF Phase, Link
<1>3. IF t.round = NoRound THEN Moves(db.row, t.mine.row) ELSE MayAsk(db.row, t.mine.row)
  BY <1>1 DEF MovesAreSound, MoveSound
<1>4. CASE t.round = NoRound
  <2>1. AsksSoFar' = AsksSoFar
    BY <1>1, <1>4 DEF AsksSoFar
  <2>2. Moves(db.row, t.mine.row)
    BY <1>3, <1>4
  <2> HIDE DEF t
  <2>3. CASE SameWork(db.row, t.mine.row)
    BY <1>2, <2>1, <2>3 DEF SameWork, Workflow!wvars
  <2>4. CASE ~SameWork(db.row, t.mine.row)
    BY <1>2, <2>1, <2>2, <2>4
       DEF Moves, Workflow!WNext, Workflow!Start, Workflow!Reissue, Workflow!Withdraw,
           Workflow!Finish
  <2> QED BY <2>3, <2>4
<1>5. CASE t.round # NoRound
  <2>1. t.round \in Round /\ rounds \in Seq(Round) /\ rounds' = Append(rounds, t.round)
    BY <1>1, <1>5, SessionFields DEF TransactionsInv, TypeOK
  <2>2. /\ AsksSoFar' = Append(AsksSoFar, S)
        /\ AsksSoFar # <<>> => /\ rounds # <<>>
                               /\ AsksSoFar[Len(AsksSoFar)] = rounds[Len(rounds)].refs
    BY <2>1, RoundIsAppended
  <2>3. S \in SUBSET Slots /\ S # {} /\ (rounds # <<>> => rounds[Len(rounds)].refs # S)
    BY <1>1, <1>5, <2>1 DEF RoundIsRight, Round
  <2>4. /\ Phase(db.row) = "open" /\ Link(db.row) = "live"
        /\ Phase(db.row)' = Phase(db.row) /\ Link(db.row)' = Link(db.row)
    BY <1>2, <1>3, <1>5 DEF MayAsk, SameWork
  <2> HIDE DEF S
  <2>5. ~Workflow!Repeats(S)
    BY <2>2, <2>3 DEF Workflow!Repeats
  <2>6. Workflow!Ask(S)
    BY <2>2, <2>3, <2>4, <2>5 DEF Workflow!Ask
  <2> QED BY <2>3, <2>6 DEF Workflow!WNext
<1> QED BY <1>4, <1>5

(* The promises of the workflow, finality and "never pester" included, are  *)
(* broken by overlaps only: the commit of a call that nobody overlapped is  *)
(* a step of module RequestWorkflow, from whatever state overlaps have left *)
(* behind, and its round asks for what is missing, within the cap.          *)
THEOREM WorkflowLeftByOverlap == Spec => WorkflowLeftOnlyByOverlap
<1> DEFINE Right(k) ==
              /\ Workflow!WNext \/ UNCHANGED Workflow!wvars
              /\ tx[k].round # NoRound =>
                    /\ tx[k].round.refs = Empty(db'.answer)
                    /\ tx[k].round.automatic => Cardinality(AutomaticRounds) < MaxAutomaticRounds
           Step == \A k \in Calls : Commits(k) /\ ~tx[k].missed => Right(k)
<1>1. TransactionsInv /\ OverlapInv /\ MovesAreSound /\ [Next]_vars => [Step]_vars
  <2> SUFFICES ASSUME TransactionsInv, OverlapInv, MovesAreSound, [Next]_vars,
                      NEW k \in Calls, Commits(k), ~tx[k].missed
               PROVE  Right(k)
    OBVIOUS
  <2>1. Workflow!WNext \/ UNCHANGED Workflow!wvars
    BY CommitIsAWorkflowStep
  <2>2. RoundIsRight(tx[k]) /\ db'.answer = tx[k].mine.answer
    BY UpToDateCommit
  <2>3. tx[k].round # NoRound =>
           /\ tx[k].round.refs = Empty(db'.answer)
           /\ tx[k].round.automatic => Cardinality(AutomaticRounds) < MaxAutomaticRounds
    BY <2>2 DEF RoundIsRight
  <2> QED BY <2>1, <2>3
<1> QED BY <1>1, MoveInvariant, PTL DEF Spec, WorkflowLeftOnlyByOverlap

\* Nobody commits while another call is under way.
NobodyOverlapped == \A k \in Calls : ~tx[k].missed

(* A request that starts as a draft, and whose calls commit without any     *)
(* other call under way, is one piece of work of module RequestWorkflow:    *)
(* the transactions implement what the calls promise one after the other.   *)
THEOREM SerialCallsImplementWorkflow ==
    Spec /\ db.row.status = "draft" /\ []NobodyOverlapped => Workflow!WorkflowSpec
<1>1. Init /\ db.row.status = "draft" => Workflow!WInit
  <2> SUFFICES ASSUME Init, db.row.status = "draft" PROVE Workflow!WInit
    OBVIOUS
  <2>1. AsksSoFar = <<>>
    <3>1. rounds = <<>>
      BY Zenon DEF Init
    <3> QED BY <3>1 DEF AsksSoFar
  <2>2. TransactionsInv
    BY InitEstablishes
  <2>3. Phase(db.row) = "draft" /\ Link(db.row) = "none"
    BY <2>2 DEF TransactionsInv, Coherent, Phase, Link
  <2> QED BY <2>1, <2>3 DEF Workflow!WInit
<1>2. TransactionsInv /\ OverlapInv /\ MovesAreSound /\ [Next]_vars /\ NobodyOverlapped
         => [Workflow!WNext]_(Workflow!wvars)
  <2> SUFFICES ASSUME TransactionsInv, OverlapInv, MovesAreSound, [Next]_vars, NobodyOverlapped
               PROVE  Workflow!WNext \/ UNCHANGED Workflow!wvars
    OBVIOUS
  <2>1. CASE db' = db /\ rounds' = rounds
    BY <2>1 DEF Workflow!wvars, AsksSoFar, Phase, Link
  <2>2. ASSUME NEW k \in Calls, Commit(k) PROVE Workflow!WNext \/ UNCHANGED Workflow!wvars
    <3>1. Commits(k) /\ ~tx[k].missed
      BY <2>2 DEF Commit, Commits, End, NoTransaction, NobodyOverlapped
    <3> QED BY <3>1, CommitIsAWorkflowStep
  <2>3. (db' = db /\ rounds' = rounds) \/ \E k \in Calls : Commit(k)
    BY DEF Next, vars, Read, Flush, Evaluate, FlushRow, Fail
  <2> QED BY <2>1, <2>2, <2>3
<1> QED BY <1>1, <1>2, MoveInvariant, PTL DEF Spec, Workflow!WorkflowSpec
=============================================================================
