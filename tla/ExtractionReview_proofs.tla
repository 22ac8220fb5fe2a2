---------------------- MODULE ExtractionReview_proofs ----------------------
(***************************************************************************)
(* What module ExtractionReview promises, and that the traffic light over  *)
(* its tables (module TrafficLight) agrees with the summary up to what     *)
(* other requests have pending, proved for every set of components,        *)
(* fields, values, documents and rows.                                     *)
(*                                                                         *)
(* The inductive invariant is ReviewInv: the types, and LinksStayValid,    *)
(* which is inductive once the types are known.  The action properties     *)
(* follow from ReviewInv alone, one action at a time; the light needs the  *)
(* types only, and what the two answers of the summary mean.               *)
(***************************************************************************)
EXTENDS TrafficLight, MissingInformation_proofs, TLAPS

ReviewInv == ReviewTypeOK /\ LinksStayValid

\* What the constants are, in the form the steps below use.
LEMMA NoRowIsNoRecord == NoRow \notin RowRecords
BY ExtractionReviewAssumption DEF RowRecords

\* A live row is a record of the table.
LEMMA LiveRowsAreRecords ==
    ASSUME ReviewTypeOK, NEW r \in LiveRows(rows)
    PROVE  /\ r \in Rows
           /\ rows[r] \in RowRecords
           /\ rows[r].doc \in Docs
           /\ rows[r].comp \in Components \cup {NoComponent}
           /\ rows[r].field \in Fields
           /\ rows[r].value \in Values
           /\ rows[r].review \in {"pending", "accepted", "rejected"}
BY DEF ReviewTypeOK, LiveRows, RowRecords

\* _unambiguous_component_id names a component of the request or nothing.
LEMMA LinkedComponentIsInRequest ==
    LinkedComponent \in comps \cup {NoComponent}
BY DEF LinkedComponent

\* A suggestion becomes a pending row of its document.
LEMMA NewRowIsTyped ==
    ASSUME ReviewTypeOK, NEW d \in Docs, NEW suggestion \in Fields \X Values
    PROVE  /\ NewRow(d, suggestion) \in RowRecords
           /\ NewRow(d, suggestion).doc = d
           /\ NewRow(d, suggestion).comp = LinkedComponent
           /\ NewRow(d, suggestion).review = "pending"
<1>1. LinkedComponent \in Components \cup {NoComponent}
  BY LinkedComponentIsInRequest DEF ReviewTypeOK
<1>2. suggestion[1] \in Fields /\ suggestion[2] \in Values
  OBVIOUS
<1> QED
  BY <1>1, <1>2 DEF NewRow, RowRecords

\* A review changes the row it decides, to a record that keeps the document,
\* the field and the value, and no other row.
LEMMA DecideIsLocal ==
    ASSUME ReviewTypeOK,
           NEW r \in LiveRows(rows),
           NEW review \in {"accepted", "rejected"},
           NEW comp \in Components \cup {NoComponent},
           Decide(r, review, comp)
    PROVE  /\ rows' \in [Rows -> RowRecords \cup {NoRow}]
           /\ rows'[r] \in RowRecords
           /\ rows'[r] # NoRow
           /\ rows'[r].doc = rows[r].doc
           /\ rows'[r].field = rows[r].field
           /\ rows'[r].value = rows[r].value
           /\ rows'[r].review = review
           /\ rows'[r].comp = comp
           /\ \A q \in Rows \ {r} : rows'[q] = rows[q]
<1>1. /\ r \in Rows
      /\ rows[r] \in RowRecords
  BY LiveRowsAreRecords
<1>2. rows' = [rows EXCEPT ![r] = [[rows[r] EXCEPT !.review = review] EXCEPT !.comp = comp]]
  BY <1>1 DEF Decide, ReviewTypeOK
<1>3. [[rows[r] EXCEPT !.review = review] EXCEPT !.comp = comp] \in RowRecords
  BY <1>1 DEF RowRecords
<1>4. rows'[r] = [[rows[r] EXCEPT !.review = review] EXCEPT !.comp = comp]
  BY <1>1, <1>2 DEF ReviewTypeOK
<1> QED
  BY <1>1, <1>2, <1>3, <1>4, NoRowIsNoRecord DEF ReviewTypeOK, RowRecords

\* What an accept does: nothing but a review, of a pending row, and of one
\* column when the proposal is applied.
LEMMA AcceptMeaning ==
    ASSUME ReviewTypeOK,
           NEW r \in Rows, NEW c \in Components, NEW resolution \in Resolutions,
           AcceptField(r, c, resolution)
    PROVE  /\ r \in PendingRows(rows)
           /\ UNCHANGED <<comps, docs>>
           /\ \/ /\ Decide(r, "rejected", rows[r].comp)
                 /\ UNCHANGED value
                 /\ resolution # "none"
              \/ /\ Decide(r, "accepted", TargetComponent(r, c))
                 /\ TargetComponent(r, c) \in comps
                 /\ rows[r].value \in DOMAIN Stored[rows[r].field]
                 /\ value' = [value EXCEPT ![<<TargetComponent(r, c), rows[r].field>>] =
                                              Stored[rows[r].field][rows[r].value]]
                 /\ resolution = "none" => ~HasConflict(r, c)
<1>1. CASE HasConflict(r, c) /\ resolution = "keep_current"
  BY <1>1 DEF AcceptField, KeepCurrent
<1>2. CASE ~(HasConflict(r, c) /\ resolution = "keep_current")
  <2>1. ApplyExtracted(r, c)
    BY <1>2 DEF AcceptField
  <2> DEFINE s == <<TargetComponent(r, c), rows[r].field>>
  <2>2. s[1] = TargetComponent(r, c) /\ s[2] = rows[r].field
    OBVIOUS
  <2>3. /\ rows[r].value \in DOMAIN Stored[s[2]]
        /\ value' = [value EXCEPT ![s] = Stored[s[2]][rows[r].value]]
        /\ Decide(r, "accepted", s[1])
    BY <2>1 DEF ApplyExtracted
  <2> QED
    BY <2>2, <2>3 DEF AcceptField
<1> QED
  BY <1>1, <1>2

\* The row an accept decides, and the slot it writes, are what they should be.
LEMMA AcceptIsTyped ==
    ASSUME ReviewTypeOK,
           NEW r \in Rows, NEW c \in Components, NEW resolution \in Resolutions,
           AcceptField(r, c, resolution)
    PROVE  /\ r \in LiveRows(rows)
           /\ value' \in Valuations
           /\ \E review \in {"accepted", "rejected"}, k \in Components \cup {NoComponent} :
                 /\ Decide(r, review, k)
                 /\ \/ review = "rejected" /\ k = rows[r].comp
                    \/ review = "accepted" /\ k \in comps
<1>1. r \in LiveRows(rows) /\ r \in PendingRows(rows) /\ UNCHANGED <<comps, docs>>
  BY AcceptMeaning DEF PendingRows
<1>2. /\ rows[r].comp \in Components \cup {NoComponent}
      /\ rows[r].field \in Fields
  BY <1>1, LiveRowsAreRecords
<1>3. CASE Decide(r, "rejected", rows[r].comp) /\ UNCHANGED value
  BY <1>1, <1>2, <1>3 DEF ReviewTypeOK
<1>4. CASE /\ Decide(r, "accepted", TargetComponent(r, c))
           /\ TargetComponent(r, c) \in comps
           /\ rows[r].value \in DOMAIN Stored[rows[r].field]
           /\ value' = [value EXCEPT ![<<TargetComponent(r, c), rows[r].field>>] =
                                        Stored[rows[r].field][rows[r].value]]
  <2>1. Stored[rows[r].field][rows[r].value] \in Values
    BY <1>2, <1>4, ExtractionReviewAssumption
  <2>2. value' \in Valuations
    BY <1>2, <1>4, <2>1 DEF ReviewTypeOK, Valuations
  <2>3. TargetComponent(r, c) \in Components
    BY <1>4 DEF ReviewTypeOK
  <2> QED
    BY <1>1, <1>4, <2>2, <2>3
<1> QED
  BY <1>3, <1>4, AcceptMeaning

\* A step by which one live row is reviewed keeps the table and its links.
LEMMA DecideKeepsLinks ==
    ASSUME ReviewInv,
           UNCHANGED <<comps, docs>>,
           NEW r \in LiveRows(rows),
           NEW review \in {"accepted", "rejected"},
           NEW k \in Components \cup {NoComponent},
           Decide(r, review, k),
           \/ review = "rejected" /\ k = rows[r].comp
           \/ review = "accepted" /\ k \in comps
    PROVE  /\ rows' \in [Rows -> RowRecords \cup {NoRow}]
           /\ LinksStayValid'
<1> USE DEF ReviewInv
<1>1. /\ rows' \in [Rows -> RowRecords \cup {NoRow}]
      /\ rows'[r].doc = rows[r].doc
      /\ rows'[r].review = review
      /\ rows'[r].comp = k
      /\ \A q \in Rows \ {r} : rows'[q] = rows[q]
  BY DecideIsLocal
<1>2. comps \subseteq Components /\ NoComponent \notin comps
  BY MissingInformationAssumption DEF ReviewTypeOK
<1>3. ASSUME NEW q \in LiveRows(rows')
      PROVE  /\ docs'[rows'[q].doc] # "absent"
             /\ rows'[q].comp \in comps' \cup {NoComponent}
             /\ rows'[q].review = "accepted" => rows'[q].comp # NoComponent
  <2>1. CASE q = r
    BY <1>1, <1>2, <2>1 DEF LinksStayValid
  <2>2. CASE q # r
    <3>1. q \in Rows /\ rows'[q] = rows[q] /\ q \in LiveRows(rows)
      BY <1>1, <1>3, <2>2 DEF LiveRows
    <3> QED
      BY <3>1 DEF LinksStayValid
  <2> QED
    BY <2>1, <2>2
<1> QED
  BY <1>1, <1>3 DEF LinksStayValid

\* A typed edit writes values of the fields only.
LEMMA EditIsTyped ==
    ASSUME ReviewTypeOK, NEW E \in SUBSET (Components \X Fields),
           NEW e \in [E -> Values \cup {NoValue}], WriteEdit(e)
    PROVE  value' \in Valuations
BY DEF WriteEdit, ReviewTypeOK, Valuations

\* A payload sets slots it may set.
LEMMA PayloadIsTyped ==
    ASSUME NEW S \in SUBSET (Components \X Fields), NEW e \in Edits(S)
    PROVE  \E E \in SUBSET (Components \X Fields) : e \in [E -> Values \cup {NoValue}]
BY DEF Edits

\* An extraction adds rows of its own document, linked to the request's
\* components, and touches no other row.
LEMMA ProcessIsTyped ==
    ASSUME ReviewInv, NEW d \in Docs, Process(d)
    PROVE  /\ docs' \in [Docs -> ExtractionStatuses \cup {"absent"}]
           /\ docs'[d] # "absent"
           /\ \A x \in Docs \ {d} : docs'[x] = docs[x]
           /\ rows' \in [Rows -> RowRecords \cup {NoRow}]
           /\ \A r \in LiveRows(rows) : rows'[r] = rows[r]
           /\ \A r \in Rows : rows[r] = NoRow /\ rows'[r] # NoRow =>
                 /\ rows'[r].doc = d
                 /\ rows'[r].comp = LinkedComponent
                 /\ rows'[r].review = "pending"
<1> USE DEF ReviewInv
<1>1. CASE ExtractionFails(d)
  BY <1>1 DEF ExtractionFails, ReviewTypeOK, ExtractionStatuses, LiveRows
<1>2. CASE ExtractionSucceeds(d)
  <2>1. PICK found \in Extractions :
          rows' = [r \in Rows |->
                     IF r \in DOMAIN found THEN NewRow(d, found[r]) ELSE rows[r]]
    BY <1>2 DEF ExtractionSucceeds
  <2>2. \E status \in {"review_required", "completed"} : docs' = [docs EXCEPT ![d] = status]
    BY <1>2 DEF ExtractionSucceeds
  <2>3. PICK S \in SUBSET (Rows \ LiveRows(rows)) : found \in [S -> Fields \X Values]
    BY <2>1 DEF Extractions
  <2>5. \A r \in S : rows'[r] = NewRow(d, found[r])
    BY <2>1, <2>3
  <2>6. ASSUME NEW r \in S
        PROVE  rows'[r] \in RowRecords
    <3>1. found[r] \in Fields \X Values
      BY <2>3
    <3> QED
      BY <2>5, <3>1, NewRowIsTyped
  <2>7. ASSUME NEW r \in Rows \ S
        PROVE  rows'[r] = rows[r]
    BY <2>1, <2>3, <2>7
  <2>8. rows' \in [Rows -> RowRecords \cup {NoRow}]
    <3>1. rows' = [r \in Rows |-> rows'[r]]
      BY <2>1
    <3>2. \A r \in Rows : rows'[r] \in RowRecords \cup {NoRow}
      BY <2>6, <2>7 DEF ReviewTypeOK
    <3> QED
      BY <3>1, <3>2
  <2>9. \A r \in LiveRows(rows) : rows'[r] = rows[r]
    BY <2>3, <2>7 DEF LiveRows
  <2>10. ASSUME NEW r \in Rows, rows[r] = NoRow, rows'[r] # NoRow
         PROVE  rows'[r].doc = d /\ rows'[r].comp = LinkedComponent /\ rows'[r].review = "pending"
    <3>1. r \in S
      BY <2>7, <2>10
    <3>2. found[r] \in Fields \X Values
      BY <2>3, <3>1
    <3> QED
      BY <2>5, <3>1, <3>2, NewRowIsTyped
  <2>11. /\ docs' \in [Docs -> ExtractionStatuses \cup {"absent"}]
         /\ docs'[d] # "absent"
         /\ \A x \in Docs \ {d} : docs'[x] = docs[x]
    BY <2>2 DEF ReviewTypeOK, ExtractionStatuses
  <2> QED
    BY <2>8, <2>9, <2>10, <2>11
<1> QED
  BY <1>1, <1>2 DEF Process
-----------------------------------------------------------------------------
(* The inductive invariant *)

\* The invariant holds before any component, document or proposal exists.
LEMMA ReviewInitInv == ReviewInit => ReviewInv
BY DEF ReviewInit, ReviewInv, ReviewTypeOK, LinksStayValid, LiveRows, Valuations

\* The invariant is kept by every call of the review and by a stutter.
LEMMA ReviewNextInv == ReviewInv /\ [ReviewNext]_reviewVars => ReviewInv'
<1> SUFFICES ASSUME ReviewInv, [ReviewNext]_reviewVars
             PROVE  ReviewInv'
  OBVIOUS
<1> USE DEF ReviewInv
<1>1. ASSUME NEW d \in Docs, Process(d), UNCHANGED <<comps, value>>
      PROVE  ReviewInv'
  <2>1. ReviewTypeOK'
    BY <1>1, ProcessIsTyped DEF ReviewTypeOK
  <2>2. ASSUME NEW r \in LiveRows(rows')
        PROVE  /\ docs'[rows'[r].doc] # "absent"
               /\ rows'[r].comp \in comps' \cup {NoComponent}
               /\ rows'[r].review = "accepted" => rows'[r].comp # NoComponent
    <3>1. r \in Rows /\ rows'[r] # NoRow
      BY <2>2 DEF LiveRows
    <3>2. CASE r \in LiveRows(rows)
      <4>1. rows'[r] = rows[r] /\ rows[r].doc \in Docs
        BY <1>1, <3>2, ProcessIsTyped, LiveRowsAreRecords
      <4>2. docs'[rows[r].doc] # "absent"
        BY <1>1, <3>2, <4>1, ProcessIsTyped DEF LinksStayValid
      <4> QED
        BY <1>1, <3>2, <4>1, <4>2 DEF LinksStayValid
    <3>3. CASE r \notin LiveRows(rows)
      <4>1. rows[r] = NoRow
        BY <3>1, <3>3 DEF LiveRows
      <4>2. /\ rows'[r].doc = d
            /\ rows'[r].comp = LinkedComponent
            /\ rows'[r].review = "pending"
            /\ docs'[d] # "absent"
        BY <1>1, <3>1, <4>1, ProcessIsTyped
      <4> QED
        BY <1>1, <4>2, LinkedComponentIsInRequest
    <3> QED
      BY <3>2, <3>3
  <2> QED
    BY <2>1, <2>2 DEF LinksStayValid
<1>2. ASSUME NEW d \in Docs, DeleteDocument(d)
      PROVE  ReviewInv'
  <2>1. ReviewTypeOK'
    BY <1>2 DEF DeleteDocument, ReviewTypeOK
  <2>2. ASSUME NEW r \in LiveRows(rows')
        PROVE  r \in LiveRows(rows) /\ rows'[r] = rows[r] /\ rows[r].doc # d
    BY <1>2, <2>2 DEF DeleteDocument, LiveRows
  <2>3. \A x \in Docs \ {d} : docs'[x] = docs[x]
    BY <1>2 DEF DeleteDocument, ReviewTypeOK
  <2>4. LinksStayValid'
    <3>1. SUFFICES ASSUME NEW r \in LiveRows(rows')
                   PROVE  /\ docs'[rows'[r].doc] # "absent"
                          /\ rows'[r].comp \in comps' \cup {NoComponent}
                          /\ rows'[r].review = "accepted" => rows'[r].comp # NoComponent
      BY DEF LinksStayValid
    <3>2. r \in LiveRows(rows) /\ rows'[r] = rows[r] /\ rows[r].doc \in Docs \ {d}
      BY <2>2, LiveRowsAreRecords
    <3> QED
      BY <1>2, <2>3, <3>2 DEF LinksStayValid, DeleteDocument
  <2> QED
    BY <2>1, <2>4
<1>3. ASSUME NEW r \in Rows, NEW c \in Components, NEW resolution \in Resolutions,
             AcceptField(r, c, resolution)
      PROVE  ReviewInv'
  <2>1. r \in LiveRows(rows) /\ value' \in Valuations /\ UNCHANGED <<comps, docs>>
    BY <1>3, AcceptIsTyped, AcceptMeaning
  <2>2. PICK review \in {"accepted", "rejected"}, k \in Components \cup {NoComponent} :
           /\ Decide(r, review, k)
           /\ \/ review = "rejected" /\ k = rows[r].comp
              \/ review = "accepted" /\ k \in comps
    BY <1>3, AcceptIsTyped
  <2>3. rows' \in [Rows -> RowRecords \cup {NoRow}] /\ LinksStayValid'
    BY <2>1, <2>2, DecideKeepsLinks
  <2> QED
    BY <2>1, <2>3 DEF ReviewTypeOK
<1>4. ASSUME NEW r \in Rows, RejectField(r)
      PROVE  ReviewInv'
  <2>1. /\ r \in LiveRows(rows)
        /\ Decide(r, "rejected", rows[r].comp)
        /\ UNCHANGED <<comps, value, docs>>
    BY <1>4 DEF RejectField, PendingRows
  <2>2. rows[r].comp \in Components \cup {NoComponent}
    BY <2>1, LiveRowsAreRecords
  <2>3. rows' \in [Rows -> RowRecords \cup {NoRow}] /\ LinksStayValid'
    BY <2>1, <2>2, DecideKeepsLinks
  <2> QED
    BY <2>1, <2>3 DEF ReviewTypeOK
<1>5. ASSUME NEW S \in SUBSET (Components \X Fields), NEW e \in Edits(S),
             WriteEdit(e), UNCHANGED <<comps, docs, rows>>
      PROVE  ReviewInv'
  <2>1. value' \in Valuations
    BY <1>5, PayloadIsTyped, EditIsTyped
  <2> QED
    BY <1>5, <2>1 DEF ReviewTypeOK, LinksStayValid
<1>6. ASSUME NEW c \in Components, NEW e \in [{c} \X Fields -> Values \cup {NoValue}],
             CreateComponent(c, e)
      PROVE  ReviewInv'
  <2>1. {c} \X Fields \in SUBSET (Components \X Fields)
    OBVIOUS
  <2>2. value' \in Valuations
    BY <1>6, <2>1, EditIsTyped DEF CreateComponent
  <2> QED
    BY <1>6, <2>2 DEF CreateComponent, ReviewTypeOK, LinksStayValid
<1>7. CASE UNCHANGED reviewVars
  BY <1>7 DEF reviewVars, ReviewTypeOK, LinksStayValid
<1>8. comps \X SupplierFields \in SUBSET (Components \X Fields)
  BY ExtractionReviewAssumption DEF ReviewTypeOK
<1>9. CASE \E e \in Edits(comps \X SupplierFields) : SaveProgress(e)
  BY <1>5, <1>8, <1>9 DEF SaveProgress
<1>10. CASE \E c \in Components : \E e \in Edits({c} \X Fields) : UpdateComponent(c, e)
  <2>1. PICK c \in Components : \E e \in Edits({c} \X Fields) : UpdateComponent(c, e)
    BY <1>10
  <2>2. {c} \X Fields \in SUBSET (Components \X Fields)
    OBVIOUS
  <2> QED
    BY <1>5, <2>1, <2>2 DEF UpdateComponent
<1>11. CASE \E d \in Docs : UploadDocument(d) \/ RetryExtraction(d)
  BY <1>1, <1>11 DEF UploadDocument, RetryExtraction
<1>12. ASSUME NEW c \in Components, NEW f \in Fields, NEW v \in DOMAIN Stored[f],
              AcceptElsewhere(c, f, v)
       PROVE  ReviewInv'
  <2>1. Stored[f][v] \in Values
    BY ExtractionReviewAssumption
  <2>2. value' \in Valuations
    BY <1>12, <2>1 DEF AcceptElsewhere, ReviewTypeOK, Valuations
  <2> QED
    BY <1>12, <2>2 DEF AcceptElsewhere, ReviewTypeOK, LinksStayValid
<1> QED
  BY <1>2, <1>3, <1>4, <1>6, <1>7, <1>9, <1>10, <1>11, <1>12 DEF ReviewNext

\* Every call of the review keeps the invariant, so it always holds.
THEOREM ReviewInvariant == ReviewSpec => []ReviewInv
<1> QED
  BY ReviewInitInv, ReviewNextInv, PTL DEF ReviewSpec

\* Type correctness of the review's state, for any tables.
THEOREM ReviewTypeCorrect == ReviewSpec => []ReviewTypeOK
<1>1. ReviewInv => ReviewTypeOK
  BY DEF ReviewInv
<1> QED
  BY <1>1, ReviewInvariant, PTL

\* Every proposal belongs to a document that exists and is linked, if at all,
\* to a component of this request; an accepted one is linked.
THEOREM LinksAreValid == ReviewSpec => []LinksStayValid
<1>1. ReviewInv => LinksStayValid
  BY DEF ReviewInv
<1> QED
  BY <1>1, ReviewInvariant, PTL
-----------------------------------------------------------------------------
(* The steps *)

\* What one step does to the proposals and to the columns, whichever call it
\* is: the calls fall into four kinds.
LEMMA StepKinds ==
    ASSUME ReviewInv, ReviewNext
    PROVE  \/ \E d \in Docs : Process(d) /\ UNCHANGED <<comps, value>>
           \/ \E d \in Docs : DeleteDocument(d)
           \/ \E r \in Rows, c \in Components, resolution \in Resolutions :
                 AcceptField(r, c, resolution)
           \/ \E r \in Rows : RejectField(r)
           \/ UNCHANGED <<docs, rows>>
BY DEF ReviewNext, UploadDocument, RetryExtraction, SaveProgress, UpdateComponent,
       CreateComponent, AcceptElsewhere

\* A proposal somebody reviewed is final and a pending one waits until it is
\* reviewed or its document deleted, in every step.
THEOREM ProposalsKept == ReviewSpec => ProposalsAreKept
<1>1. ReviewInv /\ [ReviewNext]_reviewVars =>
        [\A r \in LiveRows(rows) : ProposalIsKept(r)]_reviewVars
  <2> SUFFICES ASSUME ReviewInv, ReviewNext, NEW r \in LiveRows(rows)
               PROVE  ProposalIsKept(r)
    OBVIOUS
  <2> USE DEF ReviewInv
  <2>1. CASE \E d \in Docs : Process(d) /\ UNCHANGED <<comps, value>>
    BY <2>1, ProcessIsTyped DEF ProposalIsKept
  <2>2. CASE \E d \in Docs : DeleteDocument(d)
    <3>1. PICK d \in Docs : DeleteDocument(d)
      BY <2>2
    <3>2. r \in Rows /\ rows[r] # NoRow /\ docs' = [docs EXCEPT ![d] = "absent"]
      BY <3>1 DEF LiveRows, DeleteDocument
    <3>3. CASE rows[r].doc = d
      BY <3>1, <3>2, <3>3 DEF DeleteDocument, ProposalIsKept, ReviewTypeOK
    <3>4. CASE rows[r].doc # d
      BY <3>1, <3>2, <3>4 DEF DeleteDocument, ProposalIsKept
    <3> QED
      BY <3>3, <3>4
  <2>3. ASSUME NEW q \in PendingRows(rows), NEW review \in {"accepted", "rejected"},
               NEW k \in Components \cup {NoComponent}, Decide(q, review, k)
        PROVE  ProposalIsKept(r)
    <3>1. q \in LiveRows(rows) /\ rows[q].review = "pending"
      BY DEF PendingRows
    <3>2. CASE q = r
      BY <2>3, <3>1, <3>2, DecideIsLocal DEF ProposalIsKept
    <3>3. CASE q # r
      BY <2>3, <3>1, <3>3, DecideIsLocal DEF ProposalIsKept, LiveRows
    <3> QED
      BY <3>2, <3>3
  <2>4. CASE \E q \in Rows, c \in Components, resolution \in Resolutions :
                AcceptField(q, c, resolution)
    <3>1. PICK q \in Rows, c \in Components, resolution \in Resolutions :
             AcceptField(q, c, resolution)
      BY <2>4
    <3> QED
      BY <2>3, <3>1, AcceptMeaning, AcceptIsTyped
  <2>5. CASE \E q \in Rows : RejectField(q)
    <3>1. PICK q \in Rows : RejectField(q)
      BY <2>5
    <3>2. /\ q \in PendingRows(rows)
          /\ q \in LiveRows(rows)
          /\ Decide(q, "rejected", rows[q].comp)
      BY <3>1 DEF RejectField, PendingRows
    <3>3. rows[q].comp \in Components \cup {NoComponent}
      BY <3>2, LiveRowsAreRecords
    <3> QED
      BY <2>3, <3>2, <3>3
  <2>6. CASE UNCHANGED <<docs, rows>>
    BY <2>6 DEF ProposalIsKept
  <2> QED
    BY <2>1, <2>2, <2>4, <2>5, <2>6, StepKinds
<1> QED
  BY <1>1, ReviewInvariant, PTL DEF ReviewSpec, ProposalsAreKept

\* The row and the slot of an accept, seen from the step it takes.
LEMMA AcceptedRow ==
    ASSUME ReviewInv,
           NEW r \in Rows, NEW c \in Components, NEW resolution \in Resolutions,
           AcceptField(r, c, resolution),
           NEW q \in Rows, Accepts(q)
    PROVE  /\ q = r
           /\ \A x \in Rows \ {r} : rows'[x] = rows[x]
           /\ rows'[r].comp = TargetComponent(r, c)
           /\ value' = [value EXCEPT ![<<TargetComponent(r, c), rows[r].field>>] =
                                        Stored[rows[r].field][rows[r].value]]
           /\ resolution = "none" => ~HasConflict(r, c)
<1> USE DEF ReviewInv
<1>1. r \in LiveRows(rows) /\ rows[r].comp \in Components \cup {NoComponent}
  BY AcceptIsTyped, LiveRowsAreRecords
<1>2. rows[q].review = "pending" /\ rows'[q].review = "accepted"
  BY DEF Accepts, PendingRows
<1>3. \A x \in Rows \ {r} : rows'[x] = rows[x]
  BY <1>1, AcceptIsTyped, DecideIsLocal
<1>4. q = r
  BY <1>2, <1>3
<1>5. ~Decide(r, "rejected", rows[r].comp)
  BY <1>1, <1>2, <1>4, DecideIsLocal
<1>6. /\ Decide(r, "accepted", TargetComponent(r, c))
      /\ TargetComponent(r, c) \in Components
      /\ value' = [value EXCEPT ![<<TargetComponent(r, c), rows[r].field>>] =
                                   Stored[rows[r].field][rows[r].value]]
      /\ resolution = "none" => ~HasConflict(r, c)
  BY <1>5, AcceptMeaning DEF ReviewTypeOK
<1>7. rows'[r].comp = TargetComponent(r, c)
  BY <1>1, <1>6, DecideIsLocal
<1> QED
  BY <1>3, <1>4, <1>6, <1>7

\* No step that leaves every conflict unresolved replaces a value by a
\* different one of a document.
THEOREM NothingOverwritten == ReviewSpec => NoSilentOverwrite
<1>1. ReviewInv /\ [ReviewNext]_reviewVars =>
        [AcceptWithoutResolution =>
           \A r \in Rows : Accepts(r) => AcceptFindsNoConflict(r)]_reviewVars
  <2> SUFFICES ASSUME ReviewInv, AcceptWithoutResolution, NEW q \in Rows, Accepts(q)
               PROVE  AcceptFindsNoConflict(q)
    OBVIOUS
  <2>1. PICK r \in Rows, c \in Components : AcceptField(r, c, "none")
    BY DEF AcceptWithoutResolution
  <2>2. "none" \in Resolutions
    BY DEF Resolutions
  <2>3. /\ q = r
        /\ rows'[r].comp = TargetComponent(r, c)
        /\ ~HasConflict(r, c)
    BY <2>1, <2>2, AcceptedRow
  <2> QED
    BY <2>3 DEF HasConflict, AcceptFindsNoConflict
<1> QED
  BY <1>1, ReviewInvariant, PTL DEF ReviewSpec, NoSilentOverwrite

\* Data of a document reaches a column only by the accept of its proposal, and
\* only the slot of the component the proposal then names.
THEOREM EveryValueHasProvenance == ReviewSpec => ValueHasProvenance
<1>1. ReviewInv /\ [ReviewNext]_reviewVars => [WriteHasProvenance]_reviewVars
  <2> SUFFICES ASSUME ReviewInv, ReviewNext, value' # value, rows' # rows
               PROVE  \E r \in Rows :
                         /\ Accepts(r)
                         /\ \A q \in Rows \ {r} : rows'[q] = rows[q]
                         /\ value' = [value EXCEPT ![<<rows'[r].comp, rows[r].field>>] =
                                        Stored[rows[r].field][rows[r].value]]
    BY DEF WriteHasProvenance
  <2> USE DEF ReviewInv
  <2>1. PICK r \in Rows, c \in Components, resolution \in Resolutions :
           AcceptField(r, c, resolution)
    BY StepKinds DEF DeleteDocument, RejectField
  <2>2. /\ r \in PendingRows(rows)
        /\ r \in LiveRows(rows)
        /\ Decide(r, "accepted", TargetComponent(r, c))
        /\ TargetComponent(r, c) \in Components
    BY <2>1, AcceptMeaning, AcceptIsTyped DEF ReviewTypeOK
  <2>3. Accepts(r)
    BY <2>2, DecideIsLocal DEF Accepts
  <2> QED
    BY <2>1, <2>3, AcceptedRow
<1> QED
  BY <1>1, ReviewInvariant, PTL DEF ReviewSpec, ValueHasProvenance

\* A link is set by the extraction of a request with one component, or by the
\* reviewer who accepts an unlinked proposal, and never changes afterwards.
THEOREM LinksAreNotGuessed == ReviewSpec => LinkIsNeverGuessed
<1>1. ReviewInv /\ [ReviewNext]_reviewVars => [\A r \in Rows : LinkHasReason(r)]_reviewVars
  <2> SUFFICES ASSUME ReviewInv, ReviewNext, NEW r \in Rows,
                      rows'[r] # NoRow, rows'[r].comp # NoComponent
               PROVE  LinkHasReason(r)
    BY DEF LinkHasReason
  <2> USE DEF ReviewInv
  <2>1. CASE \E d \in Docs : Process(d) /\ UNCHANGED <<comps, value>>
    <3>1. CASE rows[r] = NoRow
      <4>1. rows'[r].comp = LinkedComponent
        BY <2>1, <3>1, ProcessIsTyped
      <4>2. LinkedComponent # NoComponent => comps = {LinkedComponent}
        BY DEF LinkedComponent
      <4> QED
        BY <3>1, <4>1, <4>2 DEF LinkHasReason
    <3>2. CASE rows[r] # NoRow
      BY <2>1, <3>2, ProcessIsTyped DEF LinkHasReason, LiveRows
    <3> QED
      BY <3>1, <3>2
  <2>2. CASE \E d \in Docs : DeleteDocument(d)
    BY <2>2 DEF DeleteDocument, LinkHasReason, ReviewTypeOK
  <2>3. CASE \E q \in Rows, c \in Components, resolution \in Resolutions :
                AcceptField(q, c, resolution)
    <3>1. PICK q \in Rows, c \in Components, resolution \in Resolutions :
             AcceptField(q, c, resolution)
      BY <2>3
    <3>2. q \in PendingRows(rows) /\ q \in LiveRows(rows)
      BY <3>1, AcceptMeaning, AcceptIsTyped
    <3>3. CASE q # r
      BY <3>1, <3>2, <3>3, AcceptIsTyped, DecideIsLocal DEF LinkHasReason
    <3>4. CASE q = r /\ Decide(r, "rejected", rows[r].comp)
      BY <3>2, <3>4, LiveRowsAreRecords, DecideIsLocal DEF LinkHasReason, LiveRows
    <3>5. CASE /\ q = r
               /\ Decide(r, "accepted", TargetComponent(r, c))
               /\ TargetComponent(r, c) \in comps
      <4>1. /\ rows'[r].comp = TargetComponent(r, c)
            /\ rows'[r].review = "accepted"
        BY <3>2, <3>5, DecideIsLocal DEF ReviewTypeOK
      <4>2. Accepts(r) /\ rows[r] # NoRow
        BY <3>2, <3>5, <4>1 DEF Accepts, LiveRows
      <4> QED
        BY <4>1, <4>2 DEF LinkHasReason, TargetComponent
    <3>6. \/ Decide(q, "rejected", rows[q].comp)
          \/ /\ Decide(q, "accepted", TargetComponent(q, c))
             /\ TargetComponent(q, c) \in comps
      BY <3>1, AcceptMeaning
    <3> QED
      BY <3>3, <3>4, <3>5, <3>6
  <2>4. CASE \E q \in Rows : RejectField(q)
    <3>1. PICK q \in Rows : RejectField(q)
      BY <2>4
    <3>2. q \in LiveRows(rows) /\ Decide(q, "rejected", rows[q].comp)
      BY <3>1 DEF RejectField, PendingRows
    <3> QED
      BY <3>2, LiveRowsAreRecords, DecideIsLocal DEF LinkHasReason, LiveRows
  <2>5. CASE UNCHANGED <<docs, rows>>
    BY <2>5 DEF LinkHasReason
  <2> QED
    BY <2>1, <2>2, <2>3, <2>4, <2>5, StepKinds
<1> QED
  BY <1>1, ReviewInvariant, PTL DEF ReviewSpec, LinkIsNeverGuessed
-----------------------------------------------------------------------------
(* The traffic light *)

\* What is pending for a slot, and what is pending without a link, in terms
\* of the rows.
LEMMA PendingMeaning ==
    /\ \A c \in Components, f \in Fields :
          PendingFor(PendingProposals(rows), <<c, f>>) # {} <=>
             \E r \in PendingRows(rows) : rows[r].comp = c /\ rows[r].field = f
    /\ Unresolved(PendingProposals(rows)) # {} <=>
          \E r \in PendingRows(rows) : rows[r].comp = NoComponent
<1> DEFINE proposal(r) == [comp |-> rows[r].comp, field |-> rows[r].field,
                           value |-> rows[r].value]
<1>1. PendingProposals(rows) = {proposal(r) : r \in PendingRows(rows)}
  BY DEF PendingProposals
<1>2. \A r \in PendingRows(rows) :
         proposal(r).comp = rows[r].comp /\ proposal(r).field = rows[r].field
  OBVIOUS
<1> HIDE DEF proposal
<1> QED
  BY <1>1, <1>2 DEF PendingFor, Unresolved

\* A slot is undecided exactly when a proposal for it is pending.
LEMMA UndecidedMeaning ==
    ASSUME comps \subseteq Components
    PROVE  \A s : s \in Undecided <=>
              s \in Slots(comps) /\ \E r \in PendingRows(rows) : <<rows[r].comp, rows[r].field>> = s
<1> DEFINE pend == PendingProposals(rows)
<1>1. \A s : s \in Undecided <=> s \in Slots(comps) /\ PendingFor(pend, s) # {}
  BY DEF Undecided, ReviewSlots, ConflictSlots
<1>2. \A s \in Slots(comps) : \E c \in comps, f \in Fields : s = <<c, f>>
  BY DEF Slots
<1> HIDE DEF pend
<1>3. ASSUME NEW s \in Slots(comps)
      PROVE  PendingFor(pend, s) # {} <=>
                \E r \in PendingRows(rows) : <<rows[r].comp, rows[r].field>> = s
  <2>1. PICK c \in comps, f \in Fields : s = <<c, f>>
    BY <1>2
  <2> QED
    BY <2>1, PendingMeaning DEF pend
<1> QED
  BY <1>1, <1>3

\* A component is red exactly when one of its slots is undecided or another
\* request has a proposal for it: the pending rows of this request have a
\* requested field, and are linked to components of the request only.
LEMMA RedComponents ==
    ASSUME ReviewInv, NEW c \in comps
    PROVE  c \in PendingComponents <=> (\E s \in Undecided : s[1] = c) \/ c \in elsewhere
<1>1. comps \subseteq Components /\ NoComponent \notin Components
  BY MissingInformationAssumption DEF ReviewInv, ReviewTypeOK
<1>2. c \in PendingComponents <=>
         (\E r \in PendingRows(rows) : rows[r].comp = c) \/ c \in elsewhere
  BY <1>1 DEF PendingComponents
<1>3. \A r \in PendingRows(rows) : rows[r].field \in Fields
  BY LiveRowsAreRecords DEF ReviewInv, PendingRows
<1>4. ASSUME NEW r \in PendingRows(rows), rows[r].comp = c
      PROVE  \E s \in Undecided : s[1] = c
  <2>1. <<c, rows[r].field>> \in Slots(comps)
    BY <1>3, <1>4 DEF Slots
  <2>2. <<c, rows[r].field>> \in Undecided
    BY <1>1, <1>4, <2>1, UndecidedMeaning
  <2> QED
    BY <2>2
<1>5. ASSUME NEW s \in Undecided, s[1] = c
      PROVE  \E r \in PendingRows(rows) : rows[r].comp = c
  BY <1>1, <1>5, UndecidedMeaning
<1> QED
  BY <1>2, <1>4, <1>5

\* Every undecided slot belongs to a component of the request.
LEMMA UndecidedHasComponent ==
    ASSUME ReviewInv, NEW s \in Undecided
    PROVE  s[1] \in comps /\ s[1] \in Components /\ s[1] \in ComponentsOf(ProductOf[s[1]])
<1>1. comps \subseteq Components
  BY DEF ReviewInv, ReviewTypeOK
<1>2. s \in Slots(comps)
  BY <1>1, UndecidedMeaning
<1> QED
  BY <1>1, <1>2 DEF Slots, ComponentsOf

\* A product is red exactly when a component of it is, and green exactly when
\* it has components and all of them are.
LEMMA LightOfProduct ==
    ASSUME NEW p \in Products
    PROVE  /\ ProductStatus(p) = "red" <=>
                 \E c \in ComponentsOf(p) : c \in PendingComponents
           /\ ProductStatus(p) = "green" <=>
                 /\ ComponentsOf(p) # {}
                 /\ \A c \in ComponentsOf(p) : c \notin PendingComponents /\ MissingFields(c) = {}
<1> DEFINE statuses == {ComponentStatus(c) : c \in ComponentsOf(p)}
<1>1. /\ \A c \in ComponentsOf(p) : ComponentStatus(c) \in statuses
      /\ \A x \in statuses : \E c \in ComponentsOf(p) : x = ComponentStatus(c)
      /\ statuses = {} <=> ComponentsOf(p) = {}
  OBVIOUS
<1>2. \A c : /\ ComponentStatus(c) = "red" <=> c \in PendingComponents
             /\ ComponentStatus(c) = "green" <=> c \notin PendingComponents /\ MissingFields(c) = {}
  BY DEF ComponentStatus
<1>3. ProductStatus(p) = CASE statuses = {} -> "orange"
                           [] "red" \in statuses -> "red"
                           [] statuses = {"green"} -> "green"
                           [] OTHER -> "orange"
  BY DEF ProductStatus
<1> HIDE DEF statuses
<1>4. ProductStatus(p) = "red" <=> "red" \in statuses
  BY <1>3
<1>5. ProductStatus(p) = "green" <=> statuses = {"green"}
  BY <1>3
<1>6. statuses = {"green"} <=> statuses # {} /\ \A x \in statuses : x = "green"
  OBVIOUS
<1>7. statuses = {"green"} <=>
         /\ ComponentsOf(p) # {}
         /\ \A c \in ComponentsOf(p) : ComponentStatus(c) = "green"
  BY <1>1, <1>6
<1>8. "red" \in statuses <=> \E c \in ComponentsOf(p) : ComponentStatus(c) = "red"
  BY <1>1
<1> QED
  BY <1>2, <1>4, <1>5, <1>7, <1>8

\* The light agrees with the summary in every state whose links are valid, up
\* to what other requests have pending.
LEMMA LightAgrees == ReviewInv => LightTellsTheSummary
<1> SUFFICES ASSUME ReviewInv PROVE LightTellsTheSummary
  OBVIOUS
<1> DEFINE pend == PendingProposals(rows)
           allSettled == \A p \in Products : Settled(p)
<1>1. comps \subseteq Components /\ NoComponent \notin Components
  BY MissingInformationAssumption DEF ReviewInv, ReviewTypeOK
<1>2. \A c \in comps : ProductOf[c] \in Products /\ c \in ComponentsOf(ProductOf[c])
  BY <1>1, TrafficLightAssumption DEF ComponentsOf
<1>3. \A p : \A c : c \in ComponentsOf(p) <=> c \in comps /\ ProductOf[c] = p
  BY DEF ComponentsOf
<1>4. ASSUME NEW p \in Products
      PROVE  ProductStatus(p) = "red" <=>
                (\E s \in Undecided : ProductOf[s[1]] = p) \/ PendingElsewhere(p)
  <2>1. ASSUME NEW c \in ComponentsOf(p), c \in PendingComponents
        PROVE  (\E s \in Undecided : ProductOf[s[1]] = p) \/ PendingElsewhere(p)
    <3>1. (\E s \in Undecided : s[1] = c) \/ c \in elsewhere
      BY <1>3, <2>1, RedComponents
    <3> QED
      BY <1>3, <2>1, <3>1 DEF PendingElsewhere
  <2>2. ASSUME NEW s \in Undecided, ProductOf[s[1]] = p
        PROVE  \E c \in ComponentsOf(p) : c \in PendingComponents
    <3>1. s[1] \in comps /\ s[1] \in ComponentsOf(p)
      BY <2>2, UndecidedHasComponent
    <3> QED
      BY <3>1, RedComponents
  <2>3. ASSUME PendingElsewhere(p)
        PROVE  \E c \in ComponentsOf(p) : c \in PendingComponents
    BY <2>3 DEF PendingElsewhere, PendingComponents
  <2> QED
    BY <2>1, <2>2, <2>3, LightOfProduct
<1>5. ASSUME CompleteNow, NEW p \in Products PROVE Settled(p) \/ PendingElsewhere(p)
  <2>1. /\ \A s \in Slots(comps) : value[s] # NoValue /\ PendingFor(pend, s) = {}
        /\ Unresolved(pend) = {}
    BY <1>5, CompleteMeaning DEF CompleteNow
  <2>2. Undecided = {}
    BY <2>1 DEF Undecided, ReviewSlots, ConflictSlots
  <2>3. \A c \in comps : c \in PendingComponents => c \in elsewhere
    BY <2>2, RedComponents
  <2>4. \A c \in comps : MissingFields(c) = {}
    BY <2>1, TrafficLightAssumption DEF MissingFields, Slots
  <2>5. CASE \E c \in ComponentsOf(p) : c \in elsewhere
    BY <2>5 DEF PendingElsewhere
  <2>6. CASE \A c \in ComponentsOf(p) : c \notin elsewhere
    BY <1>3, <2>3, <2>4, <2>6, LightOfProduct DEF Settled
  <2> QED
    BY <2>5, <2>6
<1>6. ASSUME allSettled
      PROVE  /\ Undecided = {}
             /\ \A s \in Missing : s[2] \notin LightFields
             /\ CompleteNow <=> Missing = {} /\ Unresolved(pend) = {}
  <2>1. \A c \in comps : c \notin PendingComponents /\ MissingFields(c) = {}
    BY <1>2, <1>6, LightOfProduct DEF Settled
  <2>2. Undecided = {}
    BY <2>1, RedComponents, UndecidedHasComponent
  <2>3. ASSUME NEW s \in Missing, s[2] \in LightFields PROVE FALSE
    <3>1. s \in Slots(comps) /\ value[s] = NoValue
      BY <2>3 DEF Missing, MissingSlots
    <3>2. s = <<s[1], s[2]>> /\ s[1] \in comps
      BY <3>1 DEF Slots
    <3>3. s[2] \in MissingFields(s[1])
      BY <2>3, <3>1, <3>2 DEF MissingFields
    <3> QED
      BY <2>1, <3>2, <3>3
  <2>4. \A s \in Slots(comps) : PendingFor(pend, s) = {}
    BY <2>2 DEF Undecided, ReviewSlots, ConflictSlots
  <2>5. Missing = {} <=> \A s \in Slots(comps) : value[s] # NoValue
    BY <2>4 DEF Missing, MissingSlots
  <2>6. CompleteNow <=> Missing = {} /\ Unresolved(pend) = {}
    BY <2>4, <2>5, CompleteMeaning DEF CompleteNow
  <2> QED
    BY <2>2, <2>3, <2>6
<1> QED
  BY <1>4, <1>5, <1>6 DEF LightTellsTheSummary

\* Other requests do to the tables of this one what module ExtractionReview
\* lets them do.
LEMMA LightRefinesReview == LightSpec => ReviewSpec
<1>1. LightInit => ReviewInit
  BY DEF LightInit
<1>2. [LightNext]_lightVars => [ReviewNext]_reviewVars
  <2> SUFFICES ASSUME [LightNext]_lightVars PROVE ReviewNext \/ UNCHANGED reviewVars
    OBVIOUS
  <2>1. ASSUME NEW c \in Components, DecideElsewhere(c)
        PROVE  ReviewNext \/ UNCHANGED reviewVars
    BY <2>1 DEF DecideElsewhere, ReviewNext
  <2>2. ASSUME NEW c \in Components, ProposeElsewhere(c)
        PROVE  UNCHANGED reviewVars
    BY <2>2 DEF ProposeElsewhere
  <2> QED
    BY <2>1, <2>2 DEF LightNext, lightVars
<1> QED
  BY <1>1, <1>2, PTL DEF LightSpec, ReviewSpec

\* The traffic light and the summary contradict each other only about what
\* another request has pending, whatever was uploaded, extracted, reviewed,
\* deleted and edited: two services that read the same tables by rules written
\* apart, one for the company and one for the request.
THEOREM LightIsHonest == LightSpec => []LightTellsTheSummary
BY LightRefinesReview, ReviewInvariant, LightAgrees, PTL
=============================================================================
