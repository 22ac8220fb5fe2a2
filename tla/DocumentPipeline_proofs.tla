---------------------- MODULE DocumentPipeline_proofs ----------------------
(***************************************************************************)
(* What module DocumentPipeline promises, proved for every set of          *)
(* documents and contents and every number of calls under way at once.     *)
(*                                                                         *)
(* The inductive invariant says of every open session what it still may    *)
(* rely on (SessionSound), of every two that they do not both own a row or *)
(* a number (PairSound), and of every id that nothing exists of it before  *)
(* its upload (FileSound).  The properties of the tables follow from it    *)
(* step by step.                                                           *)
(***************************************************************************)
EXTENDS DocumentPipeline, TLAPS

Extracting == {"marked", "processed"}

Locking == {"marked", "processed", "flushed"}

\* The evidence of p is worth what its confidence says.
Honest(p) ==
    LET c == origin[p.doc]
    IN  /\ c # NoContent
        /\ p.confidence = "high" => p.verified
        /\ p.verified => HasPages(c)
        /\ HasPages(c) /\ ~p.verified => p.confidence = "low"
        /\ Sendable(c)

\* A finished extraction: proposals of its own, and a row that tells about them.
Outcome(t) ==
    /\ \A p \in t.found : p.doc = t.doc /\ p.call = t.id /\ Honest(p)
    /\ t.mine.error <=> t.mine.status = "failed"
    /\ \/ t.mine.status = "failed" /\ t.found = {}
       \/ t.mine.status = "review_required" /\ \E p \in t.found : p.confidence = "low"
       \/ t.mine.status = "completed" /\ \A p \in t.found : p.confidence # "low"

\* The steps of an upload, a retry and a deletion.
PhaseFits(t) ==
    /\ t.pc = "stored" => t.kind = "upload"
    /\ t.pc = "loaded" => t.kind \in {"retry", "delete"}
    /\ t.pc = "marked" => t.kind = "retry"
    /\ t.pc = "processed" => t.kind \in {"upload", "retry"}
    /\ t.pc \in {"removed", "flushed"} => t.kind = "delete"

SessionSound(k) ==
    LET t == tx[k]
        d == t.doc
    IN  /\ PhaseFits(t)
        /\ t.pc # "idle" => origin[d] # NoContent /\ t.id \in 1..made
        /\ t.pc # "idle" /\ t.kind = "upload" =>
              /\ documents[d] = NoDocument /\ objects[d] = origin[d]
              /\ log[d].runs = 0 /\ t.base = NewDocument
        /\ t.pc \in Extracting /\ t.kind = "retry" => documents[d] # NoDocument
        /\ t.pc \in Extracting \cup {"stored"} => t.mine.attempts = t.base.attempts + 1
        /\ t.pc \in {"stored", "loaded", "marked"} => t.found = {}
        /\ t.pc = "processed" => Outcome(t)
        /\ t.pc \in {"removed", "flushed"} =>
              objects[d] = NoContent /\ \A p \in t.found : p.doc = d
        /\ t.pc = "flushed" => ProposalsOf(d) \subseteq t.found

PairSound(j, k) ==
    tx[j].pc # "idle" /\ tx[k].pc # "idle" =>
       /\ tx[j].id # tx[k].id
       /\ tx[j].doc = tx[k].doc =>
             /\ tx[j].kind # "upload"
             /\ ~(tx[j].pc \in Locking /\ tx[k].pc \in Locking)

FileSound(d) ==
    /\ origin[d] = NoContent => /\ documents[d] = NoDocument
                                /\ objects[d] = NoContent
                                /\ log[d].runs = 0
    /\ objects[d] \in {NoContent, origin[d]}
    /\ origin[d] # NoContent => PassesScan(origin[d])

ProposalSound(p) ==
    /\ Honest(p)
    /\ documents[p.doc] # NoDocument
    /\ p.call \in 1..made
    /\ \A k \in Calls : tx[k].pc # "idle" => tx[k].id # p.call

SessionsAreSound ==
    /\ \A k \in Calls : SessionSound(k)
    /\ \A j, k \in Calls : j # k => PairSound(j, k)
    /\ \A d \in Docs : FileSound(d)
    /\ \A p \in proposals : ProposalSound(p)

PipelineInv == TypeOK /\ SessionsAreSound
-----------------------------------------------------------------------------
(* Rows and sessions *)

\* The three changes of a row keep it a row and say what they should.
LEMMA RowChanges ==
    ASSUME NEW row \in DocumentRows, NEW found
    PROVE  /\ Marked(row) \in DocumentRows
           /\ Marked(row).attempts = row.attempts + 1
           /\ Failed(row) \in DocumentRows
           /\ Failed(row).attempts = row.attempts
           /\ Failed(row).error /\ Failed(row).status = "failed"
           /\ Succeeded(row, found) \in DocumentRows
           /\ Succeeded(row, found).attempts = row.attempts
           /\ ~Succeeded(row, found).error
           /\ \/ /\ Succeeded(row, found).status = "review_required"
                 /\ \E p \in found : p.confidence = "low"
              \/ /\ Succeeded(row, found).status = "completed"
                 /\ \A p \in found : p.confidence # "low"
<1>1. Marked(row) \in DocumentRows /\ Marked(row).attempts = row.attempts + 1
  <2> DEFINE r == [row EXCEPT !.status = "processing"]
  <2>1. r \in DocumentRows /\ r.attempts = row.attempts
    BY DEF DocumentRows, Statuses
  <2>2. Marked(row) = [r EXCEPT !.attempts = r.attempts + 1]
    BY DEF Marked
  <2> HIDE DEF r
  <2>3. /\ [r EXCEPT !.attempts = r.attempts + 1] \in DocumentRows
        /\ [r EXCEPT !.attempts = r.attempts + 1].attempts = r.attempts + 1
    BY <2>1 DEF DocumentRows
  <2> QED
    BY <2>1, <2>2, <2>3
<1>2. /\ Failed(row) \in DocumentRows /\ Failed(row).attempts = row.attempts
      /\ Failed(row).error /\ Failed(row).status = "failed"
  BY DEF DocumentRows, Statuses, Failed
<1>3. /\ Succeeded(row, found) \in DocumentRows
      /\ Succeeded(row, found).attempts = row.attempts
      /\ ~Succeeded(row, found).error
  BY DEF DocumentRows, Statuses, Succeeded
<1>4. Succeeded(row, found).status = IF \E p \in found : p.confidence = "low"
                                     THEN "review_required" ELSE "completed"
  BY DEF DocumentRows, Succeeded
<1> QED
  BY <1>1, <1>2, <1>3, <1>4

LEMMA NewDocumentIsTyped == NewDocument \in DocumentRows
BY DEF NewDocument, DocumentRows, Statuses

\* A session without anything in it.
LEMMA NoTransactionIsTyped ==
    ASSUME NEW d \in Docs
    PROVE  NoTransaction(d) \in Transactions /\ NoTransaction(d).pc = "idle"
BY NewDocumentIsTyped, DocumentPipelineAssumption DEF NoTransaction, Transactions

\* What a call finds in its session when it begins.
LEMMA BeginMeaning ==
    ASSUME TypeOK, NEW k \in Calls, NEW d \in Docs,
           NEW kind \in {"upload", "retry", "delete"}, NEW pc \in {"stored", "loaded"},
           NEW base \in DocumentRows, NEW mine \in DocumentRows,
           Begin(k, kind, d, pc, base, mine)
    PROVE  /\ tx[k].pc = "idle"
           /\ made' = made + 1 /\ made \in Nat /\ made' \in 0..MaxCalls
           /\ tx' \in [Calls -> Transactions]
           /\ \A j \in Calls \ {k} : tx'[j] = tx[j]
           /\ tx'[k].pc = pc /\ tx'[k].kind = kind /\ tx'[k].doc = d
           /\ tx'[k].id = made + 1 /\ tx'[k].base = base /\ tx'[k].mine = mine
           /\ tx'[k].found = {}
<1> DEFINE new == [NoTransaction(d) EXCEPT !.pc = pc, !.kind = kind, !.id = made + 1,
                                           !.base = base, !.mine = mine]
<1>1. /\ tx' = [tx EXCEPT ![k] = new]
      /\ tx[k].pc = "idle" /\ made' = made + 1 /\ made \in Nat
      /\ made + 1 \in 0..MaxCalls
  BY DocumentPipelineAssumption DEF Begin, TypeOK
<1>2. /\ new \in Transactions
      /\ new.pc = pc /\ new.kind = kind /\ new.doc = d /\ new.id = made + 1
      /\ new.base = base /\ new.mine = mine /\ new.found = {}
  BY <1>1 DEF NoTransaction, Transactions
<1> QED
  BY <1>1, <1>2 DEF TypeOK
-----------------------------------------------------------------------------
(* Steps of one call that change no table *)

Untouched == UNCHANGED <<stores, origin, log>>

\* A session ends without a commit.
LEMMA EndIsQuiet ==
    ASSUME PipelineInv, NEW k \in Calls, End(k), Untouched, made' = made
    PROVE  SessionsAreSound' /\ tx' \in [Calls -> Transactions]
<1>1. /\ tx'[k].pc = "idle" /\ tx' \in [Calls -> Transactions]
      /\ \A j \in Calls \ {k} : tx'[j] = tx[j]
  <2>1. NoTransaction(tx[k].doc) \in Transactions /\ NoTransaction(tx[k].doc).pc = "idle"
    BY NoTransactionIsTyped DEF PipelineInv, TypeOK, Transactions
  <2> QED
    BY <2>1 DEF End, PipelineInv, TypeOK
<1> USE DEF PipelineInv, SessionsAreSound, Untouched, stores
<1>2. ASSUME NEW j \in Calls
      PROVE  SessionSound(j)'
  BY <1>1 DEF SessionSound, PhaseFits, Outcome, Honest, ProposalsOf, Extracting
<1>3. ASSUME NEW i \in Calls, NEW j \in Calls, i # j
      PROVE  PairSound(i, j)'
  BY <1>1, <1>3 DEF PairSound
<1>4. ASSUME NEW d \in Docs
      PROVE  FileSound(d)'
  BY DEF FileSound
<1>5. ASSUME NEW p \in proposals'
      PROVE  ProposalSound(p)'
  BY <1>1, <1>5 DEF ProposalSound, Honest
<1> QED
  BY <1>1, <1>2, <1>3, <1>4, <1>5

\* A session goes on, with what it may still rely on.
LEMMA AdvanceIsQuiet ==
    ASSUME PipelineInv, NEW k \in Calls, Untouched, made' = made,
           \A j \in Calls \ {k} : tx'[j] = tx[j],
           tx[k].pc # "idle", tx'[k].doc = tx[k].doc, tx'[k].kind = tx[k].kind,
           tx'[k].id = tx[k].id,
           SessionSound(k)',
           tx'[k].pc \in Locking => tx[k].pc \in Locking \/ ~Locked(tx[k].doc)
                                                        \/ tx[k].kind = "upload"
    PROVE  SessionsAreSound'
<1> USE DEF PipelineInv, SessionsAreSound, Untouched, stores
<1>1. ASSUME NEW j \in Calls
      PROVE  SessionSound(j)'
  <2>1. CASE j = k
    BY <2>1
  <2>2. CASE j # k
    BY <2>2 DEF SessionSound, Outcome, Honest, ProposalsOf
  <2> QED
    BY <2>1, <2>2
<1>2. ASSUME NEW i \in Calls, NEW j \in Calls, i # j
      PROVE  PairSound(i, j)'
  <2>1. CASE i # k /\ j # k
    BY <1>2, <2>1 DEF PairSound
  <2>2. CASE i = k \/ j = k
    BY <1>2, <2>2 DEF PairSound, Locked, Locking
  <2> QED
    BY <2>1, <2>2
<1>3. ASSUME NEW d \in Docs
      PROVE  FileSound(d)'
  BY DEF FileSound
<1>4. ASSUME NEW p \in proposals'
      PROVE  ProposalSound(p)'
  BY <1>4 DEF ProposalSound, Honest
<1> QED
  BY <1>1, <1>2, <1>3, <1>4

\* A retry or a deletion begins by reading the row.
LEMMA LoadIsQuiet ==
    ASSUME PipelineInv, NEW k \in Calls, NEW d \in Docs, Retry(k, d) \/ Delete(k, d)
    PROVE  PipelineInv'
<1> USE DEF PipelineInv, SessionsAreSound, stores, history
<1>1. PICK kind \in {"retry", "delete"} :
         Begin(k, kind, d, "loaded", documents[d], documents[d])
  BY DEF Retry, Delete
<1>2. /\ documents[d] # NoDocument /\ UNCHANGED <<stores, failures, history>>
      /\ documents[d] \in DocumentRows
  BY DEF Retry, Delete, TypeOK
<1>3. /\ tx[k].pc = "idle"
      /\ made' = made + 1 /\ made \in Nat /\ made' \in 0..MaxCalls
      /\ tx' \in [Calls -> Transactions]
      /\ \A j \in Calls \ {k} : tx'[j] = tx[j]
      /\ tx'[k].pc = "loaded" /\ tx'[k].kind = kind /\ tx'[k].doc = d
      /\ tx'[k].id = made + 1 /\ tx'[k].found = {}
  BY <1>1, <1>2, BeginMeaning
<1>4. TypeOK'
  BY <1>2, <1>3 DEF TypeOK
<1>5. origin[d] # NoContent
  BY <1>2 DEF FileSound
<1>6. ASSUME NEW j \in Calls
      PROVE  SessionSound(j)'
  <2>1. CASE j = k
    BY <1>2, <1>3, <1>5, <2>1 DEF SessionSound, PhaseFits, Extracting
  <2>2. CASE j # k
    BY <1>2, <1>3, <2>2 DEF SessionSound, Outcome, Honest, ProposalsOf
  <2> QED
    BY <2>1, <2>2
<1>7. ASSUME NEW i \in Calls, NEW j \in Calls, i # j
      PROVE  PairSound(i, j)'
  <2>1. \A c \in Calls : tx[c].pc # "idle" => tx[c].id # made + 1
    BY <1>3 DEF SessionSound
  <2>2. \A c \in Calls : tx[c].pc # "idle" /\ tx[c].doc = d => tx[c].kind # "upload"
    BY <1>2 DEF SessionSound
  <2>3. CASE i # k /\ j # k
    BY <1>3, <1>7, <2>3 DEF PairSound
  <2>4. CASE i = k \/ j = k
    BY <1>3, <1>7, <2>1, <2>2, <2>4 DEF PairSound, Locking
  <2> QED
    BY <2>3, <2>4
<1>8. ASSUME NEW f \in Docs
      PROVE  FileSound(f)'
  BY <1>2 DEF FileSound
<1>9. ASSUME NEW p \in proposals'
      PROVE  ProposalSound(p)'
  BY <1>2, <1>3, <1>9 DEF ProposalSound, Honest
<1> QED
  BY <1>4, <1>6, <1>7, <1>8, <1>9
-----------------------------------------------------------------------------
(* The steps of an extraction *)

\* An extraction marks the row it has waited for, or finds it gone.
LEMMA MarkProcessingIsQuiet ==
    ASSUME PipelineInv, NEW k \in Calls, MarkProcessing(k)
    PROVE  PipelineInv'
<1>1. /\ tx[k] \in Transactions /\ tx[k].kind = "retry" /\ tx[k].pc = "loaded"
      /\ ~Locked(tx[k].doc)
      /\ UNCHANGED <<stores, made, failures, history>> /\ Untouched
  BY DEF MarkProcessing, PipelineInv, TypeOK, Untouched, history
<1>2. CASE End(k)
  BY <1>1, <1>2, EndIsQuiet DEF PipelineInv, TypeOK, stores, history
<1>3. CASE /\ documents[tx[k].doc] # NoDocument
           /\ tx' = [tx EXCEPT ![k].pc = "marked", ![k].mine = Marked(tx[k].base)]
  <2>1. tx[k].base \in DocumentRows
    BY <1>1 DEF Transactions
  <2>2. /\ Marked(tx[k].base) \in DocumentRows
        /\ Marked(tx[k].base).attempts = tx[k].base.attempts + 1
    BY <2>1, RowChanges
  <2>3. tx'[k] = [tx[k] EXCEPT !.pc = "marked", !.mine = Marked(tx[k].base)]
    BY <1>3 DEF PipelineInv, TypeOK
  <2>4. /\ tx'[k] \in Transactions
        /\ tx'[k].pc = "marked" /\ tx'[k].mine = Marked(tx[k].base)
        /\ tx'[k].kind = tx[k].kind /\ tx'[k].doc = tx[k].doc /\ tx'[k].id = tx[k].id
        /\ tx'[k].base = tx[k].base /\ tx'[k].found = tx[k].found
    BY <1>1, <2>2, <2>3 DEF Transactions
  <2>5. \A j \in Calls \ {k} : tx'[j] = tx[j]
    BY <1>3 DEF PipelineInv, TypeOK
  <2>6. tx' \in [Calls -> Transactions]
    BY <1>3, <2>4, <2>5 DEF PipelineInv, TypeOK
  <2>7. TypeOK'
    BY <1>1, <2>6 DEF PipelineInv, TypeOK, stores, history
  <2>8. SessionSound(k)
    BY DEF PipelineInv, SessionsAreSound
  <2>9. SessionSound(k)'
    BY <1>1, <1>3, <2>2, <2>4, <2>8
       DEF SessionSound, PhaseFits, Extracting, Untouched, stores
  <2>10. SessionsAreSound'
    BY <1>1, <2>4, <2>5, <2>9, AdvanceIsQuiet
  <2> QED
    BY <2>7, <2>10 DEF PipelineInv
<1> QED
  BY <1>1, <1>2, <1>3 DEF MarkProcessing

\* What the suggestions of a content are worth.
LEMMA SuggestionsAreHonest ==
    ASSUME NEW c, NEW s \in Suggestions(c)
    PROVE  /\ s.confidence \in Confidences /\ s.verified \in BOOLEAN
           /\ s.confidence = "high" => s.verified
           /\ s.verified => HasPages(c)
           /\ HasPages(c) /\ ~s.verified => s.confidence = "low"
<1>1. PICK said \in Confidences, quoted \in BOOLEAN :
         s = [confidence |-> ResolveConfidence(said, HasPages(c), Verified(c, quoted)),
              verified |-> Verified(c, quoted)]
  BY DEF Suggestions
<1>2. /\ s.confidence = ResolveConfidence(said, HasPages(c), Verified(c, quoted))
      /\ s.verified = Verified(c, quoted)
  BY <1>1
<1>3. HasPages(c) \in BOOLEAN /\ Verified(c, quoted) = (HasPages(c) /\ quoted)
  BY DEF HasPages, Verified
<1>4. /\ Lower(said, "low") = "low"
      /\ Lower(said, "medium") \in {"low", "medium"}
      /\ Lower(said, "high") \in Confidences
  BY DEF Lower, Rank, Confidences
<1> QED
  BY <1>2, <1>3, <1>4 DEF ResolveConfidence, Confidences

\* The two ends of an extraction, before its commit.
LEMMA ExtractIsQuiet ==
    ASSUME PipelineInv, NEW k \in Calls, ExtractFails(k) \/ ExtractSucceeds(k)
    PROVE  PipelineInv'
<1> DEFINE d == tx[k].doc
<1>1. /\ tx[k] \in Transactions /\ Processes(k) /\ SessionSound(k)
      /\ UNCHANGED <<stores, made, failures, history>> /\ Untouched
  BY DEF ExtractFails, ExtractSucceeds, PipelineInv, TypeOK, SessionsAreSound, Untouched,
         history
<1>2. ASSUME NEW found \in SUBSET Proposals, NEW mine \in DocumentRows,
             tx'[k].pc = "processed", tx'[k].kind = tx[k].kind, tx'[k].doc = tx[k].doc,
             tx'[k].id = tx[k].id, tx'[k].base = tx[k].base,
             tx'[k].mine = mine, tx'[k].found = found,
             tx'[k] \in Transactions,
             tx' = [tx EXCEPT ![k] = tx'[k]],
             mine.attempts = tx[k].mine.attempts,
             Outcome(tx'[k])
      PROVE  PipelineInv'
  <2>1. /\ \A j \in Calls \ {k} : tx'[j] = tx[j]
        /\ tx' \in [Calls -> Transactions]
    BY <1>2 DEF PipelineInv, TypeOK
  <2>2. TypeOK'
    BY <1>1, <2>1 DEF PipelineInv, TypeOK, stores, history
  <2>3. Outcome(tx[k])'
    BY <1>1, <1>2 DEF Outcome, Honest, Untouched
  <2>4. SessionSound(k)'
    <3>1. /\ tx[k].pc \in {"stored", "marked"}
          /\ tx[k].kind \in {"upload", "retry"}
          /\ tx[k].pc \in Extracting \cup {"stored"}
          /\ tx[k].kind = "retry" => tx[k].pc \in Extracting
      BY <1>1 DEF Processes, SessionSound, PhaseFits, Extracting
    <3> QED
      BY <1>1, <1>2, <2>3, <3>1
         DEF SessionSound, PhaseFits, Extracting, Untouched, stores
  <2>5. tx[k].pc # "idle" /\ (tx[k].pc \in Locking \/ tx[k].kind = "upload")
    BY <1>1 DEF Processes, Locking, SessionSound, PhaseFits
  <2>6. SessionsAreSound'
    BY <1>1, <1>2, <2>1, <2>4, <2>5, AdvanceIsQuiet
  <2> QED
    BY <2>2, <2>6 DEF PipelineInv
<1>3. CASE ExtractFails(k)
  <2>1. tx[k].mine \in DocumentRows
    BY <1>1 DEF Transactions
  <2>2. tx'[k] = [tx[k] EXCEPT !.pc = "processed", !.mine = Failed(tx[k].mine)]
    BY <1>3 DEF ExtractFails, PipelineInv, TypeOK
  <2>3. tx' = [tx EXCEPT ![k] = tx'[k]]
    BY <1>3, <2>2 DEF ExtractFails, PipelineInv, TypeOK
  <2>4. /\ Failed(tx[k].mine) \in DocumentRows
        /\ Failed(tx[k].mine).attempts = tx[k].mine.attempts
        /\ Failed(tx[k].mine).error /\ Failed(tx[k].mine).status = "failed"
    BY <2>1, RowChanges
  <2>5. /\ tx'[k] \in Transactions
        /\ tx'[k].pc = "processed" /\ tx'[k].mine = Failed(tx[k].mine)
        /\ tx'[k].kind = tx[k].kind /\ tx'[k].doc = tx[k].doc /\ tx'[k].id = tx[k].id
        /\ tx'[k].base = tx[k].base /\ tx'[k].found = tx[k].found
    BY <1>1, <2>2, <2>4 DEF Transactions
  <2>6. tx[k].found = {}
    BY <1>1 DEF Processes, SessionSound
  <2>7. Outcome(tx'[k])
    BY <2>4, <2>5, <2>6 DEF Outcome
  <2> QED
    BY <1>2, <2>3, <2>4, <2>5, <2>6, <2>7
<1>4. CASE ExtractSucceeds(k)
  <2> DEFINE c == objects[d]
             Found(said) == {[doc |-> d, call |-> tx[k].id, confidence |-> s.confidence,
                              verified |-> s.verified] : s \in said}
  <2>1. PICK said \in SUBSET Suggestions(c) :
           /\ c # NoContent /\ Sendable(c)
           /\ tx' = [tx EXCEPT ![k].pc = "processed", ![k].found = Found(said),
                               ![k].mine = Succeeded(tx[k].mine, Found(said))]
    BY <1>4 DEF ExtractSucceeds
  <2> DEFINE found == Found(said)
             mine == Succeeded(tx[k].mine, found)
  <2>2. origin[d] = c
    <3>1. d \in Docs
      BY <1>1 DEF Transactions
    <3> QED
      BY <2>1, <3>1 DEF PipelineInv, SessionsAreSound, FileSound
  <2>3. /\ \A p \in found : p.doc = d /\ p.call = tx[k].id /\ Honest(p)
        /\ found \in SUBSET Proposals
    <3>1. d \in Docs /\ tx[k].id \in Nat
      BY <1>1, DocumentPipelineAssumption DEF Transactions
    <3>2. ASSUME NEW s \in said
          PROVE  /\ s.confidence \in Confidences /\ s.verified \in BOOLEAN
                 /\ s.confidence = "high" => s.verified
                 /\ s.verified => HasPages(c)
                 /\ HasPages(c) /\ ~s.verified => s.confidence = "low"
      BY <3>2, SuggestionsAreHonest
    <3>3. ASSUME NEW p \in found
          PROVE  p.doc = d /\ p.call = tx[k].id /\ Honest(p) /\ p \in Proposals
      <4>1. PICK s \in said : p = [doc |-> d, call |-> tx[k].id,
                                   confidence |-> s.confidence, verified |-> s.verified]
        OBVIOUS
      <4>2. /\ p.doc = d /\ p.call = tx[k].id
            /\ p.confidence = s.confidence /\ p.verified = s.verified
        BY <4>1
      <4>3. p \in Proposals
        BY <3>1, <3>2, <4>1 DEF Proposals
      <4>4. Honest(p)
        BY <2>1, <2>2, <3>2, <4>2 DEF Honest
      <4> QED
        BY <4>2, <4>3, <4>4
    <3> QED
      BY <3>3
  <2> HIDE DEF found
  <2>4. /\ mine \in DocumentRows /\ mine.attempts = tx[k].mine.attempts /\ ~mine.error
        /\ \/ mine.status = "review_required" /\ \E p \in found : p.confidence = "low"
           \/ mine.status = "completed" /\ \A p \in found : p.confidence # "low"
    <3>1. tx[k].mine \in DocumentRows
      BY <1>1 DEF Transactions
    <3> QED
      BY <3>1, RowChanges
  <2>5. tx' = [tx EXCEPT ![k].pc = "processed", ![k].found = found, ![k].mine = mine]
    BY <2>1 DEF found
  <2> HIDE DEF mine
  <2>6. tx'[k] = [tx[k] EXCEPT !.pc = "processed", !.found = found, !.mine = mine]
    BY <2>5 DEF PipelineInv, TypeOK
  <2>7. tx' = [tx EXCEPT ![k] = tx'[k]]
    BY <2>5, <2>6 DEF PipelineInv, TypeOK
  <2>8. /\ tx'[k] \in Transactions
        /\ tx'[k].pc = "processed" /\ tx'[k].mine = mine
        /\ tx'[k].kind = tx[k].kind /\ tx'[k].doc = tx[k].doc /\ tx'[k].id = tx[k].id
        /\ tx'[k].base = tx[k].base /\ tx'[k].found = found
    BY <1>1, <2>3, <2>4, <2>6 DEF Transactions
  <2>9. Outcome(tx'[k])
    BY <2>3, <2>4, <2>8 DEF Outcome
  <2> QED
    BY <1>2, <2>3, <2>4, <2>7, <2>8, <2>9
<1> QED
  BY <1>3, <1>4
-----------------------------------------------------------------------------
(* The steps of an upload and of a deletion, and the rollbacks *)

\* A new file is stored under an id nothing exists of yet.
LEMMA UploadIsSound ==
    ASSUME PipelineInv, NEW k \in Calls, NEW d \in Docs, NEW c \in Contents, Upload(k, d, c)
    PROVE  PipelineInv'
<1> USE DEF PipelineInv, SessionsAreSound
<1> DEFINE mine == Marked(NewDocument)
<1>1. /\ mine \in DocumentRows /\ mine.attempts = NewDocument.attempts + 1
      /\ NewDocument \in DocumentRows
  BY RowChanges, NewDocumentIsTyped
<1> HIDE DEF mine
<1>2. /\ tx[k].pc = "idle"
      /\ made' = made + 1 /\ made \in Nat /\ made' \in 0..MaxCalls
      /\ tx' \in [Calls -> Transactions]
      /\ \A j \in Calls \ {k} : tx'[j] = tx[j]
      /\ tx'[k].pc = "stored" /\ tx'[k].kind = "upload" /\ tx'[k].doc = d
      /\ tx'[k].id = made + 1 /\ tx'[k].base = NewDocument /\ tx'[k].mine = mine
      /\ tx'[k].found = {}
  <2>1. Begin(k, "upload", d, "stored", NewDocument, mine)
    BY DEF Upload, mine
  <2> QED
    BY <1>1, <2>1, BeginMeaning
<1>3. /\ origin[d] = NoContent /\ PassesScan(c)
      /\ objects' = [objects EXCEPT ![d] = c] /\ origin' = [origin EXCEPT ![d] = c]
      /\ UNCHANGED <<documents, proposals, failures, abandoned, undone, crossed, log>>
  BY DEF Upload
<1>4. c # NoContent
  BY DocumentPipelineAssumption
<1>5. TypeOK'
  BY <1>2, <1>3 DEF TypeOK
<1>6. /\ objects'[d] = c /\ origin'[d] = c
      /\ \A e \in Docs \ {d} : objects'[e] = objects[e] /\ origin'[e] = origin[e]
  BY <1>3 DEF TypeOK
<1>7. documents[d] = NoDocument /\ log[d].runs = 0
  BY <1>3 DEF FileSound
<1>8. ASSUME NEW j \in Calls, tx[j].pc # "idle"
      PROVE  tx[j].doc \in Docs \ {d} /\ tx[j].id \in 1..made
  BY <1>3, <1>8 DEF SessionSound, TypeOK, Transactions
<1>9. ASSUME NEW p \in Proposals, Honest(p)
      PROVE  p.doc \in Docs \ {d} /\ Honest(p)'
  BY <1>3, <1>6, <1>9 DEF Honest, Proposals
<1>10. ASSUME NEW j \in Calls
       PROVE  SessionSound(j)'
  <2>1. CASE j = k
    BY <1>1, <1>2, <1>3, <1>4, <1>6, <1>7, <2>1 DEF SessionSound, PhaseFits, Extracting
  <2>2. CASE j # k /\ tx[j].pc = "idle"
    BY <1>2, <2>2 DEF SessionSound, PhaseFits, Extracting
  <2>3. CASE j # k /\ tx[j].pc # "idle"
    <3>1. tx[j].doc \in Docs \ {d} /\ tx'[j] = tx[j] /\ SessionSound(j)
      BY <1>2, <1>8, <2>3
    <3>2. tx[j].found \subseteq Proposals
      BY DEF TypeOK, Transactions
    <3>3. Outcome(tx[j]) => Outcome(tx[j])'
      BY <1>9, <3>1, <3>2 DEF Outcome
    <3> QED
      BY <1>2, <1>3, <1>6, <3>1, <3>3 DEF SessionSound, Outcome, ProposalsOf
  <2> QED
    BY <2>1, <2>2, <2>3
<1>11. ASSUME NEW i \in Calls, NEW j \in Calls, i # j
       PROVE  PairSound(i, j)'
  BY <1>2, <1>8, <1>11 DEF PairSound
<1>12. ASSUME NEW e \in Docs
       PROVE  FileSound(e)'
  BY <1>3, <1>4, <1>6, <1>12 DEF FileSound, PassesScan
<1>13. ASSUME NEW p \in proposals'
       PROVE  ProposalSound(p)'
  BY <1>2, <1>3, <1>9, <1>13 DEF ProposalSound, TypeOK
<1> QED
  BY <1>5, <1>10, <1>11, <1>12, <1>13

\* The object goes before the row.
LEMMA RemoveObjectIsSound ==
    ASSUME PipelineInv, NEW k \in Calls, RemoveObject(k)
    PROVE  PipelineInv'
<1> USE DEF PipelineInv, SessionsAreSound
<1>1. PICK d \in Docs, found \in SUBSET Proposals :
         /\ d = tx[k].doc /\ found = ProposalsOf(d)
         /\ objects' = [objects EXCEPT ![d] = NoContent]
         /\ tx' = [tx EXCEPT ![k].pc = "removed", ![k].found = found]
  BY DEF RemoveObject, TypeOK, Transactions, ProposalsOf
<1>2. /\ documents' = documents /\ proposals' = proposals /\ made' = made
      /\ failures' = failures /\ origin' = origin /\ log' = log
      /\ abandoned' = abandoned /\ undone' = undone /\ crossed' = crossed
      /\ tx[k] \in Transactions /\ tx[k].kind = "delete" /\ tx[k].pc = "loaded"
  BY DEF RemoveObject, TypeOK, history
<1>3. tx'[k] = [tx[k] EXCEPT !.pc = "removed", !.found = found]
  BY <1>1 DEF TypeOK
<1>4. /\ tx'[k] \in Transactions
      /\ tx'[k].pc = "removed" /\ tx'[k].kind = "delete" /\ tx'[k].doc = d
      /\ tx'[k].id = tx[k].id /\ tx'[k].found = found
  <2>1. /\ tx'[k] \in Transactions
        /\ tx'[k].pc = "removed" /\ tx'[k].kind = tx[k].kind /\ tx'[k].doc = tx[k].doc
        /\ tx'[k].id = tx[k].id /\ tx'[k].found = found
    BY <1>2, <1>3 DEF Transactions
  <2> QED
    BY <1>1, <1>2, <2>1
<1>5. \A j \in Calls \ {k} : tx'[j] = tx[j]
  BY <1>1 DEF TypeOK
<1>6. objects' \in [Docs -> Contents \cup {NoContent}] /\ tx' \in [Calls -> Transactions]
  BY <1>1, <1>4, <1>5 DEF TypeOK
<1>7. TypeOK'
  BY <1>2, <1>6 DEF TypeOK
<1>8. objects'[d] = NoContent /\ \A e \in Docs \ {d} : objects'[e] = objects[e]
  BY <1>1 DEF TypeOK
<1>9. \A p \in Proposals : Honest(p) => Honest(p)'
  BY <1>2 DEF Honest
<1>10. ASSUME NEW j \in Calls
       PROVE  SessionSound(j)'
  <2>1. CASE j = k
    <3>1. \A p \in found : p.doc = d
      BY <1>1 DEF ProposalsOf
    <3>2. origin[d] # NoContent /\ tx[k].id \in 1..made
      BY <1>1, <1>2 DEF SessionSound
    <3> QED
      BY <1>2, <1>4, <1>8, <2>1, <3>1, <3>2 DEF SessionSound, PhaseFits, Extracting
  <2>2. CASE j # k
    <3>1. /\ tx'[j] = tx[j] /\ SessionSound(j) /\ PairSound(j, k)
          /\ tx[j].doc \in Docs /\ tx[j].found \subseteq Proposals
      BY <1>5, <2>2 DEF TypeOK, Transactions
    <3>2. tx[j].pc # "idle" /\ tx[j].kind = "upload" => objects'[tx[j].doc] = objects[tx[j].doc]
      BY <1>1, <1>2, <1>8, <3>1 DEF PairSound
    <3>3. objects[tx[j].doc] = NoContent => objects'[tx[j].doc] = NoContent
      BY <1>8, <3>1
    <3>4. Outcome(tx[j]) => Outcome(tx[j])'
      BY <1>9, <3>1 DEF Outcome
    <3> QED
      BY <1>2, <3>1, <3>2, <3>3, <3>4 DEF SessionSound, Outcome, ProposalsOf
  <2> QED
    BY <2>1, <2>2
<1>11. ASSUME NEW i \in Calls, NEW j \in Calls, i # j
       PROVE  PairSound(i, j)'
  <2>1. PairSound(i, j)
    BY <1>11
  <2> QED
    BY <1>1, <1>2, <1>4, <1>5, <2>1 DEF PairSound, Locking
<1>12. ASSUME NEW e \in Docs
       PROVE  FileSound(e)'
  BY <1>2, <1>8 DEF FileSound
<1>13. ASSUME NEW p \in proposals'
       PROVE  ProposalSound(p)'
  <2>1. p \in Proposals /\ ProposalSound(p)
    BY <1>2, <1>13 DEF TypeOK
  <2>2. \A j \in Calls : tx'[j].pc # "idle" => tx'[j].id # p.call
    BY <1>2, <1>4, <1>5, <2>1 DEF ProposalSound
  <2> QED
    BY <1>2, <1>9, <2>1, <2>2 DEF ProposalSound
<1> QED
  BY <1>7, <1>10, <1>11, <1>12, <1>13

\* The row is deleted once nobody updates it, with all its proposals or not
\* at all.
LEMMA DeleteRowIsQuiet ==
    ASSUME PipelineInv, NEW k \in Calls, DeleteRow(k)
    PROVE  PipelineInv'
<1>1. /\ tx[k] \in Transactions /\ tx[k].pc = "removed" /\ ~Locked(tx[k].doc)
      /\ UNCHANGED <<stores, made, failures, origin, abandoned, crossed, log>>
      /\ Untouched
  BY DEF DeleteRow, PipelineInv, TypeOK, Untouched
<1>2. CASE End(k) /\ undone' = undone \cup {tx[k].doc}
  <2>1. SessionsAreSound' /\ tx' \in [Calls -> Transactions]
    BY <1>1, <1>2, EndIsQuiet
  <2>2. undone' \subseteq Docs
    BY <1>1, <1>2 DEF PipelineInv, TypeOK, Transactions
  <2> QED
    BY <1>1, <2>1, <2>2 DEF PipelineInv, TypeOK, stores
<1>3. CASE ~Referenced(k) /\ tx' = [tx EXCEPT ![k].pc = "flushed"] /\ UNCHANGED undone
  <2>1. tx'[k] = [tx[k] EXCEPT !.pc = "flushed"]
    BY <1>3 DEF PipelineInv, TypeOK
  <2>2. /\ tx'[k] \in Transactions
        /\ tx'[k].pc = "flushed" /\ tx'[k].kind = tx[k].kind /\ tx'[k].doc = tx[k].doc
        /\ tx'[k].id = tx[k].id /\ tx'[k].found = tx[k].found
    BY <1>1, <2>1 DEF Transactions
  <2>3. \A j \in Calls \ {k} : tx'[j] = tx[j]
    BY <1>3 DEF PipelineInv, TypeOK
  <2>4. tx' \in [Calls -> Transactions]
    BY <1>3, <2>2, <2>3 DEF PipelineInv, TypeOK
  <2>5. TypeOK'
    BY <1>1, <1>3, <2>4 DEF PipelineInv, TypeOK, stores
  <2>6. SessionSound(k)
    BY DEF PipelineInv, SessionsAreSound
  <2>7. SessionSound(k)'
    BY <1>1, <1>3, <2>2, <2>6
       DEF SessionSound, PhaseFits, Extracting, Untouched, stores, Referenced, ProposalsOf
  <2>8. SessionsAreSound'
    BY <1>1, <2>2, <2>3, <2>7, AdvanceIsQuiet
  <2> QED
    BY <2>5, <2>8 DEF PipelineInv
<1> QED
  BY <1>2, <1>3 DEF DeleteRow

\* A rollback leaves both stores as they are.
LEMMA FailIsQuiet ==
    ASSUME PipelineInv, NEW k \in Calls, Fail(k)
    PROVE  PipelineInv'
<1>1. /\ End(k) /\ Untouched /\ made' = made /\ UNCHANGED crossed
      /\ failures' = failures + 1 /\ failures < MaxFailures
      /\ tx[k].doc \in Docs
      /\ abandoned' \subseteq abandoned \cup {tx[k].doc}
      /\ undone' \subseteq undone \cup {tx[k].doc}
  BY DEF Fail, Untouched, PipelineInv, TypeOK, Transactions
<1>2. SessionsAreSound' /\ tx' \in [Calls -> Transactions]
  BY <1>1, EndIsQuiet
<1>3. failures' \in 0..MaxFailures
  BY <1>1, DocumentPipelineAssumption DEF PipelineInv, TypeOK
<1> QED
  BY <1>1, <1>2, <1>3 DEF PipelineInv, TypeOK, Untouched, stores
-----------------------------------------------------------------------------
(* The two commits *)

\* The columns that an extraction writes over the row of another one.
LEMMA WrittenIsTyped ==
    ASSUME NEW t \in Transactions, documents[t.doc] \in DocumentRows
    PROVE  /\ Written(t) \in DocumentRows
           /\ Written(t).attempts = t.mine.attempts
           /\ Written(t).status = t.mine.status
           /\ Written(t).error = IF t.mine.error # t.base.error THEN t.mine.error
                                 ELSE documents[t.doc].error
<1>1. /\ t.mine.attempts \in Nat /\ t.mine.status \in Statuses /\ t.mine.error \in BOOLEAN
  BY DEF Transactions, DocumentRows
<1> QED
  BY <1>1 DEF Written, DocumentRows

\* What the commit of an extraction leaves.
LEMMA CommitExtractionMeaning ==
    ASSUME PipelineInv, NEW k \in Calls, CommitExtraction(k)
    PROVE  LET d == tx[k].doc
               t == tx[k]
           IN  /\ t \in Transactions /\ d \in Docs /\ t.pc = "processed" /\ Outcome(t)
               /\ documents' \in [Docs -> DocumentRows \cup {NoDocument}]
               /\ \A e \in Docs \ {d} : documents'[e] = documents[e]
               /\ documents'[d] = IF t.kind = "upload" THEN t.mine ELSE Written(t)
               /\ documents'[d] \in DocumentRows
               /\ proposals' = proposals \cup t.found
               /\ log' = [log EXCEPT ![d] = [runs |-> log[d].runs + 1, last |-> t.id]]
               /\ End(k)
               /\ UNCHANGED <<objects, made, failures, origin, abandoned, undone>>
               /\ t.kind = "upload" \/ documents[d] \in DocumentRows
<1> DEFINE d == tx[k].doc
           t == tx[k]
<1> USE DEF PipelineInv
<1>1. /\ t \in Transactions /\ d \in Docs /\ t.mine \in DocumentRows
      /\ t.pc = "processed" /\ SessionSound(k)
  BY DEF CommitExtraction, TypeOK, Transactions, SessionsAreSound
<1>2. t.kind = "upload" \/ documents[d] \in DocumentRows
  BY <1>1 DEF SessionSound, PhaseFits, Extracting, TypeOK
<1>3. (IF t.kind = "upload" THEN t.mine ELSE Written(t)) \in DocumentRows
  BY <1>1, <1>2, WrittenIsTyped
<1>4. documents' = [documents EXCEPT ![d] = IF t.kind = "upload" THEN t.mine ELSE Written(t)]
  BY DEF CommitExtraction
<1>5. log' = [log EXCEPT ![d] = [runs |-> log[d].runs + 1, last |-> t.id]]
  BY DEF CommitExtraction
<1>6. Outcome(t)
  BY <1>1 DEF SessionSound
<1> HIDE DEF Written
<1>7. /\ documents' \in [Docs -> DocumentRows \cup {NoDocument}]
      /\ \A e \in Docs \ {d} : documents'[e] = documents[e]
      /\ documents'[d] = IF t.kind = "upload" THEN t.mine ELSE Written(t)
  BY <1>1, <1>3, <1>4 DEF TypeOK
<1> QED
  BY <1>1, <1>2, <1>3, <1>5, <1>6, <1>7 DEF CommitExtraction

\* The rows of an extraction appear with its document.
LEMMA CommitExtractionIsSound ==
    ASSUME PipelineInv, NEW k \in Calls, CommitExtraction(k)
    PROVE  PipelineInv'
<1> USE DEF PipelineInv, SessionsAreSound
<1> DEFINE t == tx[k]
           d == tx[k].doc
<1>1. /\ d = tx[k].doc /\ t = tx[k] /\ t.pc = "processed" /\ t.doc = d
      /\ d \in Docs /\ t \in Transactions
      /\ Outcome(t)
      /\ documents' \in [Docs -> DocumentRows \cup {NoDocument}]
      /\ \A e \in Docs \ {d} : documents'[e] = documents[e]
      /\ documents'[d] \in DocumentRows
      /\ proposals' = proposals \cup t.found
      /\ log' = [log EXCEPT ![d] = [runs |-> log[d].runs + 1, last |-> t.id]]
  BY CommitExtractionMeaning
<1> HIDE DEF t, d
<1>2. /\ End(k) /\ objects' = objects /\ made' = made /\ failures' = failures
      /\ origin' = origin /\ abandoned' = abandoned /\ undone' = undone
      /\ crossed' \subseteq crossed \cup {d}
  BY <1>1 DEF CommitExtraction, d
<1>3. /\ tx'[k].pc = "idle" /\ tx' \in [Calls -> Transactions]
      /\ \A j \in Calls \ {k} : tx'[j] = tx[j]
  <2>1. NoTransaction(tx[k].doc) \in Transactions /\ NoTransaction(tx[k].doc).pc = "idle"
    BY <1>1, NoTransactionIsTyped
  <2> QED
    BY <1>2, <2>1 DEF End, TypeOK
<1>4. /\ log' \in [Docs -> [runs : Nat, last : Nat]]
      /\ \A e \in Docs \ {d} : log'[e] = log[e]
  <2>1. log[d].runs \in Nat /\ t.id \in Nat
    BY <1>1, DocumentPipelineAssumption DEF TypeOK, Transactions
  <2> QED
    BY <1>1, <2>1 DEF TypeOK
<1>5. t.found \subseteq Proposals
  BY <1>1 DEF Transactions
<1>6. TypeOK'
  BY <1>1, <1>2, <1>3, <1>4, <1>5 DEF TypeOK
<1>7. \A p \in Proposals : Honest(p) => Honest(p)'
  BY <1>2 DEF Honest
<1>8. SessionSound(k) /\ documents'[d] # NoDocument
  BY <1>1, DocumentPipelineAssumption
<1>9. ASSUME NEW j \in Calls
      PROVE  SessionSound(j)'
  <2>1. CASE j = k
    BY <1>3, <2>1 DEF SessionSound, PhaseFits, Extracting
  <2>2. CASE j # k /\ tx[j].pc = "idle"
    BY <1>3, <2>2 DEF SessionSound, PhaseFits, Extracting
  <2>3. CASE j # k /\ tx[j].pc # "idle"
    <3>1. /\ tx'[j] = tx[j] /\ SessionSound(j) /\ PairSound(j, k)
          /\ tx[j].doc \in Docs /\ tx[j].found \subseteq Proposals
      BY <1>3, <2>3 DEF TypeOK, Transactions
    <3>2. tx[j].kind = "upload" => tx[j].doc # d
      BY <1>1, <2>3, <3>1 DEF PairSound
    <3>3. tx[j].pc = "flushed" => tx[j].doc # d
      BY <1>1, <2>3, <3>1 DEF PairSound, Locking
    <3>4. Outcome(tx[j]) => Outcome(tx[j])'
      BY <1>7, <3>1 DEF Outcome
    <3>5. documents[tx[j].doc] # NoDocument => documents'[tx[j].doc] # NoDocument
      BY <1>1, <1>8, <3>1
    <3>6. tx[j].kind = "upload" =>
             /\ documents'[tx[j].doc] = documents[tx[j].doc]
             /\ log'[tx[j].doc] = log[tx[j].doc]
      BY <1>1, <1>4, <3>1, <3>2
    <3>7. tx[j].pc = "flushed" =>
             {p \in proposals' : p.doc = tx[j].doc} \subseteq ProposalsOf(tx[j].doc)
      BY <1>1, <3>3 DEF ProposalsOf, Outcome
    <3> QED
      BY <1>2, <3>1, <3>4, <3>5, <3>6, <3>7 DEF SessionSound, ProposalsOf
  <2> QED
    BY <2>1, <2>2, <2>3
<1>10. ASSUME NEW i \in Calls, NEW j \in Calls, i # j
       PROVE  PairSound(i, j)'
  BY <1>3, <1>10 DEF PairSound
<1>11. ASSUME NEW e \in Docs
       PROVE  FileSound(e)'
  BY <1>1, <1>2, <1>4, <1>8 DEF FileSound, SessionSound
<1>12. ASSUME NEW p \in proposals'
       PROVE  ProposalSound(p)'
  <2>1. CASE p \in proposals
    <3>1. p \in Proposals /\ p.doc \in Docs /\ ProposalSound(p)
      BY <2>1 DEF TypeOK, Proposals
    <3> QED
      BY <1>1, <1>2, <1>3, <1>7, <1>8, <3>1 DEF ProposalSound
  <2>2. CASE p \in t.found
    <3>1. p \in Proposals /\ p.doc = d /\ p.call = t.id /\ Honest(p)
      BY <1>1, <1>5, <2>2 DEF Outcome
    <3>2. t.id \in 1..made
      BY <1>1, <1>8 DEF SessionSound
    <3>3. \A j \in Calls : tx'[j].pc # "idle" => tx'[j].id # t.id
      BY <1>1, <1>3 DEF PairSound
    <3> QED
      BY <1>2, <1>7, <1>8, <3>1, <3>2, <3>3 DEF ProposalSound
  <2> QED
    BY <1>1, <1>12, <2>1, <2>2
<1> QED
  BY <1>6, <1>9, <1>10, <1>11, <1>12

\* A document goes with all its proposals.
LEMMA CommitDeleteIsSound ==
    ASSUME PipelineInv, NEW k \in Calls, CommitDelete(k)
    PROVE  PipelineInv'
<1> USE DEF PipelineInv, SessionsAreSound
<1>1. PICK d \in Docs : d = tx[k].doc
  BY DEF TypeOK, Transactions
<1>2. /\ tx[k].pc = "flushed" /\ End(k)
      /\ documents' = [documents EXCEPT ![d] = NoDocument]
      /\ proposals' = proposals \ tx[k].found
      /\ objects' = objects /\ made' = made /\ failures' = failures
      /\ origin' = origin /\ abandoned' = abandoned /\ undone' = undone
      /\ crossed' = crossed /\ log' = log
  BY <1>1 DEF CommitDelete, history
<1>3. /\ tx'[k].pc = "idle" /\ tx' \in [Calls -> Transactions]
      /\ \A j \in Calls \ {k} : tx'[j] = tx[j]
  <2>1. NoTransaction(tx[k].doc) \in Transactions /\ NoTransaction(tx[k].doc).pc = "idle"
    BY <1>1, NoTransactionIsTyped
  <2> QED
    BY <1>2, <2>1 DEF End, TypeOK
<1>4. /\ documents' \in [Docs -> DocumentRows \cup {NoDocument}]
      /\ documents'[d] = NoDocument
      /\ \A e \in Docs \ {d} : documents'[e] = documents[e]
  BY <1>2 DEF TypeOK
<1>5. TypeOK'
  BY <1>2, <1>3, <1>4 DEF TypeOK
<1>6. \A p \in Proposals : Honest(p) => Honest(p)'
  BY <1>2 DEF Honest
<1>7. ASSUME NEW j \in Calls
      PROVE  SessionSound(j)'
  <2>1. CASE tx'[j].pc = "idle"
    BY <2>1 DEF SessionSound, PhaseFits, Extracting
  <2>2. CASE tx'[j].pc # "idle"
    <3>1. /\ j # k /\ tx'[j] = tx[j] /\ SessionSound(j) /\ PairSound(j, k)
          /\ tx[j].doc \in Docs /\ tx[j].found \subseteq Proposals
      BY <1>3, <2>2 DEF TypeOK, Transactions
    <3>2. tx[j].pc \in Extracting => tx[j].doc # d
      BY <1>1, <1>2, <2>2, <3>1 DEF PairSound, Locking, Extracting
    <3>3. Outcome(tx[j]) => Outcome(tx[j])'
      BY <1>6, <3>1 DEF Outcome
    <3>4. /\ documents[tx[j].doc] = NoDocument => documents'[tx[j].doc] = NoDocument
          /\ tx[j].pc \in Extracting => documents'[tx[j].doc] = documents[tx[j].doc]
      BY <1>4, <3>1, <3>2
    <3>5. {p \in proposals' : p.doc = tx[j].doc} \subseteq ProposalsOf(tx[j].doc)
      BY <1>2 DEF ProposalsOf
    <3> QED
      BY <1>2, <3>1, <3>3, <3>4, <3>5 DEF SessionSound, ProposalsOf
  <2> QED
    BY <2>1, <2>2
<1>8. ASSUME NEW i \in Calls, NEW j \in Calls, i # j
      PROVE  PairSound(i, j)'
  BY <1>3, <1>8 DEF PairSound
<1>9. ASSUME NEW e \in Docs
      PROVE  FileSound(e)'
  BY <1>2, <1>4 DEF FileSound
<1>10. ASSUME NEW p \in proposals'
       PROVE  ProposalSound(p)'
  <2>1. p \in Proposals /\ p.doc \in Docs /\ ProposalSound(p) /\ p \notin tx[k].found
    BY <1>2, <1>10 DEF TypeOK, Proposals
  <2>2. p.doc # d
    BY <1>1, <1>2, <1>10, <2>1 DEF SessionSound, ProposalsOf
  <2> QED
    BY <1>2, <1>3, <1>4, <1>6, <2>1, <2>2 DEF ProposalSound
<1> QED
  BY <1>5, <1>7, <1>8, <1>9, <1>10
-----------------------------------------------------------------------------
(* The invariant *)

LEMMA PipelineInvInit == Init => PipelineInv
<1> SUFFICES ASSUME Init PROVE PipelineInv
  OBVIOUS
<1>1. PICK d \in Docs : tx = [k \in Calls |-> NoTransaction(d)]
  BY DEF Init
<1>2. tx \in [Calls -> Transactions] /\ \A k \in Calls : tx[k].pc = "idle"
  BY <1>1, NoTransactionIsTyped
<1>3. TypeOK
  BY <1>2, DocumentPipelineAssumption DEF Init, TypeOK
<1>4. SessionsAreSound
  BY <1>2 DEF Init, SessionsAreSound, SessionSound, PhaseFits, Extracting, PairSound, FileSound
<1> QED
  BY <1>3, <1>4 DEF PipelineInv

LEMMA PipelineInvStep == PipelineInv /\ [Next]_vars => PipelineInv'
<1> SUFFICES ASSUME PipelineInv, [Next]_vars PROVE PipelineInv'
  OBVIOUS
<1>1. ASSUME NEW k \in Calls, NEW d \in Docs,
             (\E c \in Contents : Upload(k, d, c)) \/ Retry(k, d) \/ Delete(k, d)
      PROVE  PipelineInv'
  BY <1>1, UploadIsSound, LoadIsQuiet
<1>2. ASSUME NEW k \in Calls,
             \/ MarkProcessing(k) \/ ExtractFails(k) \/ ExtractSucceeds(k)
             \/ CommitExtraction(k)
      PROVE  PipelineInv'
  BY <1>2, MarkProcessingIsQuiet, ExtractIsQuiet, CommitExtractionIsSound
<1>3. ASSUME NEW k \in Calls,
             RemoveObject(k) \/ DeleteRow(k) \/ CommitDelete(k) \/ Fail(k)
      PROVE  PipelineInv'
  BY <1>3, RemoveObjectIsSound, DeleteRowIsQuiet, CommitDeleteIsSound, FailIsQuiet
<1>4. CASE UNCHANGED vars
  <2> USE <1>4 DEF vars, stores, history
  <2>1. TypeOK'
    BY DEF PipelineInv, TypeOK
  <2>2. SessionsAreSound'
    BY DEF PipelineInv, SessionsAreSound, SessionSound, Outcome, Honest, ProposalsOf,
           PairSound, FileSound, ProposalSound
  <2> QED
    BY <2>1, <2>2 DEF PipelineInv
<1> QED
  BY <1>1, <1>2, <1>3, <1>4 DEF Next

\* Types, and what every open session relies on, in every state.
THEOREM PipelineInvariant == Spec => []PipelineInv
BY PipelineInvInit, PipelineInvStep, PTL DEF Spec

\* The two stores, the sessions and the history are of their types.
THEOREM PipelineTypeCorrect == Spec => []TypeOK
BY PipelineInvariant, PTL DEF PipelineInv

\* No proposal is ever left without its document, nor kept by a deletion that
\* is only waiting for its commit.
THEOREM ProposalsNeverDangle == Spec => []ProposalsKeepTheirDocument
<1>1. PipelineInv => ProposalsKeepTheirDocument
  BY DEF PipelineInv, SessionsAreSound, ProposalSound, SessionSound, ProposalsOf,
         ProposalsKeepTheirDocument
<1> QED
  BY <1>1, PipelineInvariant, PTL

\* The confidence of every stored proposal stays under the ceiling of its
\* evidence, whichever extraction of whichever attempt wrote it.
THEOREM EvidenceStaysHonest == Spec => []EvidenceIsHonest
<1>1. PipelineInv => EvidenceIsHonest
  BY DEF PipelineInv, SessionsAreSound, ProposalSound, Honest, EvidenceIsHonest
<1> QED
  BY <1>1, PipelineInvariant, PTL
-----------------------------------------------------------------------------
(* The bucket and the table *)

Accounted(d) ==
    /\ documents[d] # NoDocument /\ objects[d] = NoContent =>
          d \in undone \/ \E k \in Calls : Removes(k, d)
    /\ documents[d] = NoDocument /\ objects[d] # NoContent =>
          d \in abandoned \/ \E k \in Calls : Stores(k, d)

\* A step that leaves both entries of d alone owes an account only of the
\* session it ends.
LEMMA AccountStays ==
    ASSUME NEW d \in Docs, Accounted(d), NEW k \in Calls,
           documents'[d] = documents[d], objects'[d] = objects[d],
           undone \subseteq undone', abandoned \subseteq abandoned',
           \A j \in Calls \ {k} : tx'[j] = tx[j],
           Removes(k, d) => Removes(k, d)' \/ d \in undone',
           Stores(k, d) => Stores(k, d)' \/ d \in abandoned'
    PROVE  Accounted(d)'
<1>1. ASSUME NEW j \in Calls, Removes(j, d)
      PROVE  d \in undone' \/ \E i \in Calls : Removes(i, d)'
  BY <1>1 DEF Removes
<1>2. ASSUME NEW j \in Calls, Stores(j, d)
      PROVE  d \in abandoned' \/ \E i \in Calls : Stores(i, d)'
  BY <1>2 DEF Stores
<1> QED
  BY <1>1, <1>2 DEF Accounted

LEMMA AccountStep ==
    ASSUME PipelineInv, PipelineInv', NEW d \in Docs, Accounted(d), [Next]_vars
    PROVE  Accounted(d)'
<1> USE DEF PipelineInv, stores, history
<1>1. ASSUME NEW k \in Calls, NEW e \in Docs, NEW c \in Contents, Upload(k, e, c)
      PROVE  Accounted(d)'
  <2>1. /\ \A j \in Calls \ {k} : tx'[j] = tx[j]
        /\ tx[k].pc = "idle"
        /\ tx'[k].pc = "stored" /\ tx'[k].doc = e /\ tx'[k].kind = "upload"
    BY <1>1, NewDocumentIsTyped, RowChanges, BeginMeaning DEF Upload
  <2>2. /\ documents' = documents /\ objects' = [objects EXCEPT ![e] = c]
        /\ undone' = undone /\ abandoned' = abandoned
    BY <1>1 DEF Upload
  <2>3. CASE d = e
    <3>1. documents[d] = NoDocument
      BY <1>1, <2>3 DEF Upload, SessionsAreSound, FileSound
    <3>2. Stores(k, d)'
      BY <2>1, <2>3 DEF Stores
    <3> QED
      BY <2>2, <3>1, <3>2 DEF Accounted
  <2>4. CASE d # e
    <3>1. objects'[d] = objects[d]
      BY <2>2, <2>4 DEF TypeOK
    <3> QED
      BY <2>1, <2>2, <3>1, AccountStays DEF Removes, Stores
  <2> QED
    BY <2>3, <2>4
<1>2. ASSUME NEW k \in Calls, NEW e \in Docs, Retry(k, e) \/ Delete(k, e)
      PROVE  Accounted(d)'
  <2>1. /\ tx[k].pc = "idle" /\ \A j \in Calls \ {k} : tx'[j] = tx[j]
        /\ UNCHANGED <<stores, history>>
    BY <1>2 DEF Retry, Delete, Begin, TypeOK
  <2> QED
    BY <2>1, AccountStays DEF Removes, Stores
<1>3. ASSUME NEW k \in Calls, MarkProcessing(k)
      PROVE  Accounted(d)'
  <2>1. /\ tx[k].pc = "loaded" /\ tx[k].kind = "retry" /\ \A j \in Calls \ {k} : tx'[j] = tx[j]
        /\ UNCHANGED <<stores, history>>
    BY <1>3 DEF MarkProcessing, End, TypeOK
  <2> QED
    BY <2>1, AccountStays DEF Removes, Stores
<1>4. ASSUME NEW k \in Calls, ExtractFails(k) \/ ExtractSucceeds(k)
      PROVE  Accounted(d)'
  <2>1. /\ tx[k].pc \in {"stored", "marked"} /\ \A j \in Calls \ {k} : tx'[j] = tx[j]
        /\ UNCHANGED <<stores, history>>
        /\ tx'[k].pc = "processed" /\ tx'[k].doc = tx[k].doc /\ tx'[k].kind = tx[k].kind
    <3>1. tx[k] \in Transactions
      BY DEF TypeOK
    <3>2. /\ tx[k].pc \in {"stored", "marked"}
          /\ UNCHANGED <<stores, history>>
      BY <1>4 DEF ExtractFails, ExtractSucceeds, Processes
    <3>3. PICK found, mine :
             \/ tx' = [tx EXCEPT ![k].pc = "processed", ![k].mine = mine]
             \/ tx' = [tx EXCEPT ![k].pc = "processed", ![k].found = found, ![k].mine = mine]
      BY <1>4 DEF ExtractFails, ExtractSucceeds
    <3> QED
      BY <3>1, <3>2, <3>3 DEF TypeOK, Transactions
  <2> QED
    BY <2>1, AccountStays DEF Removes, Stores
<1>5. ASSUME NEW k \in Calls, CommitExtraction(k)
      PROVE  Accounted(d)'
  <2>1. /\ tx[k].pc = "processed" /\ SessionSound(k)
        /\ \A e \in Docs \ {tx[k].doc} : documents'[e] = documents[e]
        /\ documents'[tx[k].doc] # NoDocument
        /\ tx[k].kind = "upload" \/ documents[tx[k].doc] # NoDocument
        /\ \A j \in Calls \ {k} : tx'[j] = tx[j]
        /\ UNCHANGED <<objects, abandoned, undone>>
    <3>1. /\ tx[k].pc = "processed" /\ documents'[tx[k].doc] \in DocumentRows
          /\ \A e \in Docs \ {tx[k].doc} : documents'[e] = documents[e]
          /\ UNCHANGED <<objects, abandoned, undone>> /\ End(k)
          /\ tx[k].kind = "upload" \/ documents[tx[k].doc] \in DocumentRows
      BY <1>5, CommitExtractionMeaning
    <3>2. \A j \in Calls \ {k} : tx'[j] = tx[j]
      BY <3>1 DEF End, TypeOK
    <3> QED
      BY <3>1, <3>2, DocumentPipelineAssumption DEF SessionsAreSound
  <2>2. CASE d = tx[k].doc /\ tx[k].kind = "upload"
    BY <2>1, <2>2 DEF SessionSound, Accounted
  <2>3. CASE d = tx[k].doc /\ tx[k].kind # "upload"
    <3>1. ASSUME NEW j \in Calls, Removes(j, d)
          PROVE  Removes(j, d)'
      BY <2>1, <3>1 DEF Removes
    <3> QED
      BY <2>1, <2>3, <3>1 DEF Accounted
  <2>4. CASE d # tx[k].doc
    BY <2>1, <2>4, AccountStays DEF Removes, Stores
  <2> QED
    BY <2>2, <2>3, <2>4
<1>6. ASSUME NEW k \in Calls, RemoveObject(k)
      PROVE  Accounted(d)'
  <2>1. /\ tx[k].pc = "loaded" /\ tx[k].kind = "delete" /\ \A j \in Calls \ {k} : tx'[j] = tx[j]
        /\ tx'[k].pc = "removed" /\ tx'[k].doc = tx[k].doc
        /\ objects' = [objects EXCEPT ![tx[k].doc] = NoContent]
        /\ UNCHANGED <<documents, undone, abandoned>>
    <3>1. tx[k] \in Transactions
      BY DEF TypeOK
    <3> QED
      BY <1>6, <3>1 DEF RemoveObject, TypeOK, Transactions
  <2>2. CASE d = tx[k].doc
    BY <2>1, <2>2 DEF Accounted, Removes, TypeOK
  <2>3. CASE d # tx[k].doc
    <3>1. objects'[d] = objects[d]
      BY <2>1, <2>3 DEF TypeOK
    <3> QED
      BY <2>1, <3>1, AccountStays DEF Removes, Stores
  <2> QED
    BY <2>2, <2>3
<1>7. ASSUME NEW k \in Calls, DeleteRow(k)
      PROVE  Accounted(d)'
  <2>1. /\ tx[k].pc = "removed" /\ \A j \in Calls \ {k} : tx'[j] = tx[j]
        /\ UNCHANGED <<stores, abandoned>> /\ undone \subseteq undone'
        /\ \/ tx[k].doc \in undone'
           \/ tx'[k].pc = "flushed" /\ tx'[k].doc = tx[k].doc
    <3>1. tx[k] \in Transactions
      BY DEF TypeOK
    <3> QED
      BY <1>7, <3>1 DEF DeleteRow, End, TypeOK, Transactions
  <2>2. tx[k].kind = "delete"
    BY <2>1 DEF SessionsAreSound, SessionSound, PhaseFits
  <2> QED
    BY <2>1, <2>2, AccountStays DEF Removes, Stores
<1>8. ASSUME NEW k \in Calls, CommitDelete(k)
      PROVE  Accounted(d)'
  <2>1. /\ tx[k].pc = "flushed" /\ SessionSound(k)
        /\ \A j \in Calls \ {k} : tx'[j] = tx[j]
        /\ documents' = [documents EXCEPT ![tx[k].doc] = NoDocument]
        /\ UNCHANGED <<objects, history>>
    BY <1>8 DEF CommitDelete, End, TypeOK, SessionsAreSound
  <2>2. CASE d = tx[k].doc
    BY <2>1, <2>2 DEF SessionSound, Accounted, TypeOK
  <2>3. CASE d # tx[k].doc
    <3>1. documents'[d] = documents[d]
      BY <2>1, <2>3 DEF TypeOK
    <3> QED
      BY <2>1, <2>3, <3>1, AccountStays DEF Removes, Stores
  <2> QED
    BY <2>2, <2>3
<1>9. ASSUME NEW k \in Calls, Fail(k)
      PROVE  Accounted(d)'
  <2>1. /\ \A j \in Calls \ {k} : tx'[j] = tx[j]
        /\ UNCHANGED stores /\ undone \subseteq undone' /\ abandoned \subseteq abandoned'
        /\ tx[k].pc # "idle"
        /\ tx[k].pc \in {"removed", "flushed"} => tx[k].doc \in undone'
        /\ tx[k].kind = "upload" => tx[k].doc \in abandoned'
    BY <1>9 DEF Fail, End, TypeOK
  <2> QED
    BY <2>1, AccountStays DEF Removes, Stores
<1>10. CASE UNCHANGED vars
  BY <1>10 DEF vars, Accounted, Removes, Stores
<1> QED
  BY <1>1, <1>2, <1>3, <1>4, <1>5, <1>6, <1>7, <1>8, <1>9, <1>10 DEF Next

\* Bucket and table agree but for what a rollback left behind, and no file is
\* stored that the scanner found infected.
THEOREM StoresAgree == Spec => []StorageIsAccounted
<1>1. Init => \A d \in Docs : Accounted(d)
  BY DEF Init, Accounted
<1>2. PipelineInv /\ PipelineInv' /\ (\A d \in Docs : Accounted(d)) /\ [Next]_vars =>
         (\A d \in Docs : Accounted(d))'
  BY AccountStep
<1>3. PipelineInv /\ (\A d \in Docs : Accounted(d)) => StorageIsAccounted
  BY DEF PipelineInv, SessionsAreSound, FileSound, PassesScan, Accounted, StorageIsAccounted
<1> QED
  BY <1>1, <1>2, <1>3, PipelineInvariant, PTL DEF Spec
-----------------------------------------------------------------------------
(* What a document's row says *)

Told(d) ==
    documents[d] # NoDocument =>
       \/ documents[d].status = "failed" /\ FoundLast(d) = {}
       \/ /\ documents[d].status = "review_required"
          /\ \E p \in FoundLast(d) : p.confidence = "low"
       \/ /\ documents[d].status = "completed"
          /\ \A p \in FoundLast(d) : p.confidence # "low"

Kept(d) ==
    documents[d] # NoDocument /\ d \notin crossed =>
       /\ documents[d].attempts = log[d].runs
       /\ documents[d].error <=> documents[d].status = "failed"

\* Only the two commits touch rows, proposals and the log.
LEMMA RowsChangeAtCommits ==
    ASSUME PipelineInv, [Next]_vars
    PROVE  \/ UNCHANGED <<documents, proposals, log, crossed>>
           \/ \E k \in Calls : CommitExtraction(k) \/ CommitDelete(k)
<1> USE DEF stores, history
<1>1. ASSUME NEW k \in Calls, NEW d \in Docs,
             (\E c \in Contents : Upload(k, d, c)) \/ Retry(k, d) \/ Delete(k, d)
      PROVE  UNCHANGED <<documents, proposals, log, crossed>>
  BY <1>1 DEF Upload, Retry, Delete
<1>2. ASSUME NEW k \in Calls,
             \/ MarkProcessing(k) \/ ExtractFails(k) \/ ExtractSucceeds(k)
             \/ RemoveObject(k) \/ DeleteRow(k) \/ Fail(k)
      PROVE  UNCHANGED <<documents, proposals, log, crossed>>
  <2>1. CASE MarkProcessing(k)
    BY <2>1 DEF MarkProcessing
  <2>2. CASE ExtractFails(k)
    BY <2>2 DEF ExtractFails
  <2>3. CASE ExtractSucceeds(k)
    <3>1. UNCHANGED <<stores, made, failures, history>>
      BY <2>3 DEF ExtractSucceeds
    <3> QED
      BY <3>1
  <2>4. CASE RemoveObject(k)
    BY <2>4 DEF RemoveObject
  <2>5. CASE DeleteRow(k)
    BY <2>5 DEF DeleteRow
  <2>6. CASE Fail(k)
    BY <2>6 DEF Fail
  <2> QED
    BY <1>2, <2>1, <2>2, <2>3, <2>4, <2>5, <2>6
<1>3. CASE UNCHANGED vars
  BY <1>3 DEF vars
<1> QED
  BY <1>1, <1>2, <1>3 DEF Next

\* A deletion takes the row, and proposals of no other document.
LEMMA DeletionMeaning ==
    ASSUME PipelineInv, NEW k \in Calls, CommitDelete(k), NEW d \in Docs
    PROVE  /\ UNCHANGED <<log, crossed>>
           /\ \/ documents'[d] = NoDocument
              \/ /\ documents'[d] = documents[d]
                 /\ {p \in proposals' : p.doc = d} = ProposalsOf(d)
<1>1. /\ tx[k].pc = "flushed" /\ SessionSound(k)
      /\ documents' = [documents EXCEPT ![tx[k].doc] = NoDocument]
      /\ proposals' = proposals \ tx[k].found
      /\ UNCHANGED <<log, crossed>>
  BY DEF CommitDelete, PipelineInv, SessionsAreSound, history
<1>2. \A p \in tx[k].found : p.doc = tx[k].doc
  BY <1>1 DEF SessionSound
<1>3. CASE d = tx[k].doc
  BY <1>1, <1>3 DEF PipelineInv, TypeOK
<1>4. CASE d # tx[k].doc
  BY <1>1, <1>2, <1>4 DEF PipelineInv, TypeOK, ProposalsOf
<1> QED
  BY <1>1, <1>3, <1>4

LEMMA ToldStep ==
    ASSUME PipelineInv, NEW d \in Docs, Told(d), [Next]_vars
    PROVE  Told(d)'
<1>1. CASE UNCHANGED <<documents, proposals, log, crossed>>
  BY <1>1 DEF Told, FoundLast, ProposalsOf
<1>2. ASSUME NEW k \in Calls, CommitDelete(k)
      PROVE  Told(d)'
  BY <1>2, DeletionMeaning DEF Told, FoundLast, ProposalsOf
<1>3. ASSUME NEW k \in Calls, CommitExtraction(k)
      PROVE  Told(d)'
  <2>1. /\ tx[k].pc = "processed" /\ Outcome(tx[k])
        /\ \A e \in Docs \ {tx[k].doc} : documents'[e] = documents[e]
        /\ documents'[tx[k].doc] = IF tx[k].kind = "upload" THEN tx[k].mine
                                   ELSE Written(tx[k])
        /\ proposals' = proposals \cup tx[k].found
        /\ log' = [log EXCEPT ![tx[k].doc] = [runs |-> log[tx[k].doc].runs + 1,
                                              last |-> tx[k].id]]
        /\ tx[k].kind = "upload" \/ documents[tx[k].doc] \in DocumentRows
        /\ tx[k] \in Transactions
    BY <1>3, CommitExtractionMeaning
  <2>2. CASE d # tx[k].doc
    <3>1. documents'[d] = documents[d] /\ log'[d] = log[d]
      BY <2>1, <2>2 DEF PipelineInv, TypeOK
    <3>2. {p \in proposals' : p.doc = d} = ProposalsOf(d)
      BY <2>1, <2>2 DEF Outcome, ProposalsOf
    <3> QED
      BY <3>1, <3>2 DEF Told, FoundLast, ProposalsOf
  <2>3. CASE d = tx[k].doc
    <3>1. log'[d].last = tx[k].id
      BY <2>1, <2>3 DEF PipelineInv, TypeOK
    <3>2. \A p \in proposals : p.call # tx[k].id
      BY <2>1 DEF PipelineInv, SessionsAreSound, ProposalSound
    <3>3. FoundLast(d)' = tx[k].found
      <4>1. \A p \in tx[k].found : p.doc = d /\ p.call = tx[k].id
        BY <2>1, <2>3 DEF Outcome
      <4> QED
        BY <2>1, <3>1, <3>2, <4>1 DEF FoundLast, ProposalsOf
    <3>4. documents'[d].status = tx[k].mine.status
      BY <2>1, <2>3, WrittenIsTyped
    <3> QED
      BY <2>1, <3>3, <3>4 DEF Told, Outcome
  <2> QED
    BY <2>2, <2>3
<1> QED
  BY <1>1, <1>2, <1>3, RowsChangeAtCommits

\* The status of a document tells the outcome of the extraction that
\* committed last, however many ran at once.
THEOREM StatusIsTrue == Spec => []StatusTellsLastExtraction
<1>1. Init => \A d \in Docs : Told(d)
  BY DEF Init, Told
<1>2. PipelineInv /\ (\A d \in Docs : Told(d)) /\ [Next]_vars => (\A d \in Docs : Told(d))'
  BY ToldStep
<1>3. (\A d \in Docs : Told(d)) => StatusTellsLastExtraction
  BY DEF Told, StatusTellsLastExtraction
<1> QED
  BY <1>1, <1>2, <1>3, PipelineInvariant, PTL DEF Spec

LEMMA KeptStep ==
    ASSUME PipelineInv, NEW d \in Docs, Kept(d), [Next]_vars
    PROVE  Kept(d)'
<1>1. CASE UNCHANGED <<documents, proposals, log, crossed>>
  BY <1>1 DEF Kept
<1>2. ASSUME NEW k \in Calls, CommitDelete(k)
      PROVE  Kept(d)'
  BY <1>2, DeletionMeaning DEF Kept
<1>3. ASSUME NEW k \in Calls, CommitExtraction(k)
      PROVE  Kept(d)'
  <2>1. /\ tx[k].pc = "processed" /\ Outcome(tx[k]) /\ SessionSound(k)
        /\ \A e \in Docs \ {tx[k].doc} : documents'[e] = documents[e]
        /\ documents'[tx[k].doc] = IF tx[k].kind = "upload" THEN tx[k].mine
                                   ELSE Written(tx[k])
        /\ log' = [log EXCEPT ![tx[k].doc] = [runs |-> log[tx[k].doc].runs + 1,
                                              last |-> tx[k].id]]
        /\ tx[k].kind = "upload" \/ documents[tx[k].doc] \in DocumentRows
        /\ tx[k] \in Transactions /\ tx[k].doc \in Docs
    BY <1>3, CommitExtractionMeaning DEF PipelineInv, SessionsAreSound
  <2>2. crossed' = IF tx[k].kind = "retry" /\ documents[tx[k].doc] # tx[k].base
                   THEN crossed \cup {tx[k].doc} ELSE crossed
    BY <1>3 DEF CommitExtraction
  <2>3. CASE d # tx[k].doc
    <3>1. documents'[d] = documents[d] /\ log'[d] = log[d]
      BY <2>1, <2>3 DEF PipelineInv, TypeOK
    <3> QED
      BY <2>2, <3>1 DEF Kept
  <2>4. CASE d = tx[k].doc
    <3>1. log'[d].runs = log[d].runs + 1
      BY <2>1, <2>4 DEF PipelineInv, TypeOK
    <3>2. /\ tx[k].mine.attempts = tx[k].base.attempts + 1
          /\ tx[k].kind \in {"upload", "retry"}
          /\ tx[k].mine.error <=> tx[k].mine.status = "failed"
      BY <2>1 DEF SessionSound, PhaseFits, Extracting, Outcome
    <3>3. CASE tx[k].kind = "upload"
      <4>1. documents'[d] = tx[k].mine /\ tx[k].base = NewDocument /\ log[d].runs = 0
        BY <2>1, <2>4, <3>3 DEF SessionSound
      <4>2. NewDocument.attempts = 0
        BY DEF NewDocument
      <4> QED
        BY <3>1, <3>2, <4>1, <4>2 DEF Kept
    <3>4. CASE tx[k].kind = "retry" /\ d \notin crossed'
      <4>1. documents[d] = tx[k].base /\ d \notin crossed
        BY <2>2, <2>4, <3>4
      <4>2. /\ documents[d] \in DocumentRows /\ documents'[d] = Written(tx[k])
            /\ documents[d] # NoDocument
        BY <2>1, <2>4, <3>4, DocumentPipelineAssumption
      <4>3. /\ Written(tx[k]).attempts = tx[k].mine.attempts
            /\ Written(tx[k]).status = tx[k].mine.status
            /\ Written(tx[k]).error = IF tx[k].mine.error # tx[k].base.error
                                      THEN tx[k].mine.error ELSE documents[tx[k].doc].error
        BY <2>1, <2>4, <4>2, WrittenIsTyped
      <4>4. Written(tx[k]).error = tx[k].mine.error
        BY <2>4, <4>1, <4>3
      <4>5. documents[d].attempts = log[d].runs
        BY <4>1, <4>2 DEF Kept
      <4>6. documents'[d].attempts = log'[d].runs
        BY <3>1, <3>2, <4>1, <4>2, <4>3, <4>5
      <4>7. documents'[d].error <=> documents'[d].status = "failed"
        BY <3>2, <4>2, <4>3, <4>4
      <4> QED
        BY <4>6, <4>7 DEF Kept
    <3> QED
      BY <3>2, <3>3, <3>4 DEF Kept
  <2> QED
    BY <2>3, <2>4
<1> QED
  BY <1>1, <1>2, <1>3, RowsChangeAtCommits

\* Attempts and errors are right unless extractions of one document overlapped.
THEOREM BookkeepingIsRight == Spec => []BookkeepingWrongOnlyByOverlap
<1>1. Init => \A d \in Docs : Kept(d)
  BY DEF Init, Kept
<1>2. PipelineInv /\ (\A d \in Docs : Kept(d)) /\ [Next]_vars => (\A d \in Docs : Kept(d))'
  BY KeptStep
<1>3. (\A d \in Docs : Kept(d)) => BookkeepingWrongOnlyByOverlap
  BY DEF Kept, BookkeepingWrongOnlyByOverlap
<1> QED
  BY <1>1, <1>2, <1>3, PipelineInvariant, PTL DEF Spec
=============================================================================
