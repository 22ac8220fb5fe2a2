--------------------------- MODULE Tenancy_proofs ---------------------------
(***************************************************************************)
(* What module Tenancy promises, proved for every set of accounts, tokens, *)
(* companies, suppliers, products and requests, and for every number of    *)
(* calls under way at once.                                                *)
(*                                                                         *)
(* The tables alone are not inductive: a row is as good as the call that   *)
(* writes it, which decided on tables others have changed since.  CallSound *)
(* says what a call still knows when it commits, PairSound what two calls  *)
(* cannot both be about to insert.                                         *)
(***************************************************************************)
EXTENDS Tenancy, TLAPS

\* What the write of call k relies on still holds: companies of suppliers and
\* products never change, and nobody else created the row.
WriteSound(k) ==
    LET w == tx[k].write
        c == tx[k].company
    IN  \/ w.op = "company" /\ w.id \in Companies /\ c = None
        \/ w.op = "supplier" /\ c # None /\ w.id \in Suppliers /\ suppliers[w.id] = None
        \/ /\ w.op = "product" /\ c # None /\ w.id \in Products /\ products[w.id] = None
           /\ w.supplier # None => suppliers[w.supplier] = c
        \/ /\ w.op = "move" /\ c # None /\ w.id \in Products /\ w.supplier \in Suppliers
           /\ Finds(k, w.id)
           /\ suppliers[w.supplier] = c
        \/ /\ w.op = "request" /\ c # None /\ w.id \in Requests /\ w.supplier \in Suppliers
           /\ suppliers[w.supplier] = c
           /\ \A p \in w.products : Finds(k, p)

\* No committed user has the address.
Unused(e) == \A s \in Subjects : users[s] # None => users[s].email # e

\* A user that a call is about to insert is new; any other call has its user.
CallSound(k) ==
    /\ tx[k].pc = "new" => tx[k].email # NoEmail /\ tx[k].company = None
    /\ tx[k].inserts => /\ tx[k].pc \in {"ready", "written"}
                        /\ tx[k].email # NoEmail
                        /\ users[tx[k].sub] = None
                        /\ Unused(tx[k].email)
                        /\ tx[k].company = None
    /\ tx[k].pc \in {"ready", "written"} /\ ~tx[k].inserts => users[tx[k].sub] # None
    /\ tx[k].pc # "written" => tx[k].write = NoWrite
    /\ tx[k].pc = "written" => WriteSound(k)

\* Two calls insert different users and different rows.
PairSound(j, k) ==
    /\ tx[j].inserts /\ tx[k].inserts => tx[j].sub # tx[k].sub /\ tx[j].email # tx[k].email
    /\ tx[j].write.op = tx[k].write.op /\ tx[j].write.op \in {"supplier", "product"} =>
          tx[j].write.id # tx[k].write.id

CallsAreSound ==
    /\ \A k \in Calls : CallSound(k)
    /\ \A j, k \in Calls : j # k => PairSound(j, k)

TenancyInv ==
    /\ TypeOK
    /\ TenantsNeverMix
    /\ OnboardedOnce
    /\ CallsAreSound
-----------------------------------------------------------------------------
(* Steps of one call that change no table *)

\* A step inside a transaction: only what call k knows and writes changes, and
\* what it is about to insert, if anything, nobody else inserts.
OneCall(k) ==
    /\ UNCHANGED <<tables, overlapped>>
    /\ \A j \in Calls \ {k} : tx'[j] = tx[j]
    /\ CallSound(k)'
    /\ \A j \in Calls \ {k} : PairSound(j, k)' /\ PairSound(k, j)'

\* Such a step disturbs nothing.
LEMMA OneCallIsQuiet ==
    ASSUME TenantsNeverMix, OnboardedOnce, CallsAreSound,
           NEW k \in Calls, OneCall(k)
    PROVE  TenantsNeverMix' /\ OnboardedOnce' /\ CallsAreSound'
<1>1. TenantsNeverMix' /\ OnboardedOnce'
  BY DEF OneCall, tables, TenantsNeverMix, OnboardedOnce
<1>2. ASSUME NEW j \in Calls
      PROVE  CallSound(j)'
  <2>1. CASE j = k
    BY <2>1 DEF OneCall
  <2>2. CASE j # k
    BY <2>2 DEF OneCall, tables, CallsAreSound, CallSound, Unused, WriteSound, Finds
  <2> QED
    BY <2>1, <2>2
<1>3. ASSUME NEW i \in Calls, NEW j \in Calls, i # j
      PROVE  PairSound(i, j)'
  <2>1. CASE i = k \/ j = k
    BY <1>3, <2>1 DEF OneCall
  <2>2. CASE i # k /\ j # k
    BY <1>3, <2>2 DEF OneCall, CallsAreSound, PairSound
  <2> QED
    BY <2>1, <2>2
<1> QED
  BY <1>1, <1>2, <1>3 DEF CallsAreSound

\* No write is one of the writes.
LEMMA NoWriteIsTyped == NoWrite \in Writes
BY DEF NoWrite, Writes

\* A session without anything in it.
LEMMA NoTransactionIsTyped ==
    ASSUME NEW s \in Subjects
    PROVE  NoTransaction(s) \in Transactions
BY TenancyAssumption, NoWriteIsTyped DEF NoTransaction, Transactions

\* The end of a call, without a commit, inserts nothing.
LEMMA EndIsQuiet ==
    ASSUME TypeOK, CallsAreSound, NEW k \in Calls, End(k),
           UNCHANGED <<tables, made, overlapped>>
    PROVE  TypeOK' /\ OneCall(k)
<1>1. /\ tx'[k] = NoTransaction(tx[k].sub)
      /\ \A j \in Calls \ {k} : tx'[j] = tx[j]
  BY DEF End, TypeOK
<1>2. tx[k].sub \in Subjects
  BY DEF TypeOK, Transactions
<1>3. TypeOK'
  BY <1>2, NoTransactionIsTyped DEF End, TypeOK, tables
<1>4. CallSound(k)'
  BY <1>1 DEF CallSound, NoTransaction, NoWrite
<1>5. ASSUME NEW j \in Calls \ {k}
      PROVE  PairSound(j, k)' /\ PairSound(k, j)'
  BY <1>1 DEF PairSound, NoTransaction, NoWrite
<1> QED
  BY <1>1, <1>3, <1>4, <1>5 DEF OneCall

\* A verified token starts a session with the row of its user, or with none.
LEMMA EnterIsQuiet ==
    ASSUME TypeOK, CallsAreSound, NEW k \in Calls, NEW t \in Tokens, Enter(k, t)
    PROVE  TypeOK' /\ OneCall(k)
<1>1. t \in TokenRecords /\ t.sub \in Subjects /\ t.email \in Emails
  BY TenancyAssumption DEF Enter, Verifies, TokenRecords
<1>2. UNCHANGED <<tables, overlapped>> /\ made' \in 0..MaxCalls
  BY TenancyAssumption DEF Enter, TypeOK
<1>3. CASE /\ users[t.sub] # None
           /\ tx' = [tx EXCEPT ![k] = [NoTransaction(t.sub) EXCEPT
                        !.pc = "ready", !.company = users[t.sub].company]]
  <2> DEFINE new == [NoTransaction(t.sub) EXCEPT
                       !.pc = "ready", !.company = users[t.sub].company]
  <2>1. users[t.sub] \in Users
    BY <1>1, <1>3 DEF TypeOK
  <2>2. new \in Transactions
    BY <1>1, <2>1, TenancyAssumption, NoWriteIsTyped DEF Users, NoTransaction, Transactions
  <2>3. TypeOK'
    BY <1>2, <1>3, <2>2 DEF TypeOK, tables
  <2>4. /\ tx'[k] = new
        /\ \A j \in Calls \ {k} : tx'[j] = tx[j]
    BY <1>3 DEF TypeOK
  <2>5. /\ new.pc = "ready" /\ new.sub = t.sub /\ ~new.inserts /\ new.write = NoWrite
    BY DEF NoTransaction
  <2>6. CallSound(k)'
    BY <1>2, <1>3, <2>4, <2>5 DEF CallSound, tables
  <2>7. ASSUME NEW j \in Calls \ {k}
        PROVE  PairSound(j, k)' /\ PairSound(k, j)'
    BY <2>4, <2>5 DEF PairSound, NoWrite
  <2> QED
    BY <1>2, <2>3, <2>4, <2>6, <2>7 DEF OneCall
<1>4. CASE /\ users[t.sub] = None
           /\ Mirrorable(t)
           /\ tx' = [tx EXCEPT ![k] = [NoTransaction(t.sub) EXCEPT
                        !.pc = "new", !.email = t.email]]
  <2> DEFINE new == [NoTransaction(t.sub) EXCEPT !.pc = "new", !.email = t.email]
  <2>1. new \in Transactions
    BY <1>1, NoWriteIsTyped DEF NoTransaction, Transactions
  <2>2. TypeOK'
    BY <1>2, <1>4, <2>1 DEF TypeOK, tables
  <2>3. /\ tx'[k] = new
        /\ \A j \in Calls \ {k} : tx'[j] = tx[j]
    BY <1>4 DEF TypeOK
  <2>4. /\ new.pc = "new" /\ new.email # NoEmail /\ new.company = None
        /\ ~new.inserts /\ new.write = NoWrite
    BY <1>4 DEF NoTransaction, Mirrorable
  <2>5. CallSound(k)'
    BY <2>3, <2>4 DEF CallSound
  <2>6. ASSUME NEW j \in Calls \ {k}
        PROVE  PairSound(j, k)' /\ PairSound(k, j)'
    BY <2>3, <2>4 DEF PairSound, NoWrite
  <2> QED
    BY <1>2, <2>2, <2>3, <2>5, <2>6 DEF OneCall
<1> QED
  BY <1>3, <1>4 DEF Enter

\* The INSERT of a user succeeds only where nobody has or inserts the same.
LEMMA InsertUserIsQuiet ==
    ASSUME TypeOK, CallsAreSound, NEW k \in Calls, InsertUser(k)
    PROVE  TypeOK' /\ OneCall(k)
<1>1. UNCHANGED <<tables, made, overlapped>> /\ tx[k] \in Transactions /\ tx[k].pc = "new"
  BY DEF InsertUser, TypeOK
<1>2. CASE End(k)
  BY <1>1, <1>2, EndIsQuiet
<1>3. CASE ~Taken(k) /\ tx' = [tx EXCEPT ![k].pc = "ready", ![k].inserts = TRUE]
  <2>1. tx'[k] = [tx[k] EXCEPT !.pc = "ready", !.inserts = TRUE]
    BY <1>3 DEF TypeOK
  <2>2. \A j \in Calls \ {k} : tx'[j] = tx[j]
    BY <1>3 DEF TypeOK
  <2>3. tx'[k] \in Transactions
    BY <1>1, <2>1 DEF Transactions
  <2>4. /\ tx'[k].pc = "ready" /\ tx'[k].inserts /\ tx'[k].sub = tx[k].sub
        /\ tx'[k].email = tx[k].email /\ tx'[k].write = tx[k].write
        /\ tx'[k].company = tx[k].company
    BY <1>1, <2>1 DEF Transactions
  <2>5. tx' \in [Calls -> Transactions]
    BY <1>3, <2>2, <2>3 DEF TypeOK
  <2>6. TypeOK'
    BY <1>1, <2>5 DEF TypeOK, tables
  <2>7. CallSound(k)'
    <3>1. /\ tx[k].email # NoEmail /\ tx[k].company = None /\ tx[k].write = NoWrite
      BY <1>1 DEF CallsAreSound, CallSound
    <3>2. /\ users'[tx[k].sub] = None
          /\ \A s \in Subjects : users'[s] # None => users'[s].email # tx[k].email
      BY <1>1, <1>3 DEF Taken, tables
    <3> QED
      BY <2>4, <3>1, <3>2 DEF CallSound, Unused
  <2>8. ASSUME NEW j \in Calls \ {k}
        PROVE  PairSound(j, k)' /\ PairSound(k, j)'
    <3>1. ~Contended(k) /\ tx[k].write = NoWrite
      BY <1>1 DEF InsertUser, CallsAreSound, CallSound
    <3> QED
      BY <2>2, <2>4, <3>1 DEF Contended, PairSound, NoWrite
  <2> QED
    BY <1>1, <2>2, <2>6, <2>7, <2>8 DEF OneCall
<1> QED
  BY <1>2, <1>3 DEF InsertUser
-----------------------------------------------------------------------------
(* Writes, still inside the transaction *)

\* What a written session has in it.
LEMMA WriteMeaning ==
    ASSUME TypeOK, NEW k \in Calls, NEW w \in Writes, Write(k, w)
    PROVE  /\ UNCHANGED <<tables, made, overlapped>>
           /\ tx[k].pc = "ready"
           /\ tx'[k] \in Transactions
           /\ tx'[k].pc = "written" /\ tx'[k].write = w /\ tx'[k].sub = tx[k].sub
           /\ tx'[k].email = tx[k].email /\ tx'[k].inserts = tx[k].inserts
           /\ tx'[k].company = tx[k].company
           /\ tx' = [tx EXCEPT ![k] = tx'[k]]
<1>1. tx[k] \in Transactions /\ tx'[k] = [tx[k] EXCEPT !.pc = "written", !.write = w]
  BY DEF Write, TypeOK
<1>2. /\ tx'[k] \in Transactions
      /\ tx'[k].pc = "written" /\ tx'[k].write = w /\ tx'[k].sub = tx[k].sub
      /\ tx'[k].email = tx[k].email /\ tx'[k].inserts = tx[k].inserts
      /\ tx'[k].company = tx[k].company
  BY <1>1 DEF Transactions
<1> QED
  BY <1>1, <1>2 DEF Write, TypeOK

\* A write of the types it should have, decided on what holds, and of a row
\* nobody else is about to insert.
LEMMA WriteIsQuiet ==
    ASSUME TypeOK, CallsAreSound, NEW k \in Calls,
           NEW w \in Writes, Write(k, w),
           WriteSound(k)',
           w.op \in {"supplier", "product"} => w.id \notin Pending
    PROVE  TypeOK' /\ OneCall(k)
<1>1. /\ UNCHANGED <<tables, made, overlapped>>
      /\ tx[k].pc = "ready"
      /\ tx' = [tx EXCEPT ![k] = tx'[k]]
  BY WriteMeaning
<1>3. \A j \in Calls \ {k} : tx'[j] = tx[j]
  BY <1>1 DEF TypeOK
<1>4. /\ tx'[k] \in Transactions
      /\ tx'[k].pc = "written" /\ tx'[k].write = w /\ tx'[k].sub = tx[k].sub
      /\ tx'[k].email = tx[k].email /\ tx'[k].inserts = tx[k].inserts
      /\ tx'[k].company = tx[k].company
  BY WriteMeaning
<1>5. tx' \in [Calls -> Transactions]
  BY <1>1, <1>3, <1>4 DEF TypeOK
<1>6. TypeOK'
  BY <1>1, <1>5 DEF TypeOK, tables
<1>7. CallSound(k)'
  <2>1. /\ tx[k].inserts => /\ tx[k].email # NoEmail
                            /\ users[tx[k].sub] = None
                            /\ \A s \in Subjects : users[s] # None => users[s].email # tx[k].email
                            /\ tx[k].company = None
        /\ ~tx[k].inserts => users[tx[k].sub] # None
    BY <1>1 DEF CallsAreSound, CallSound, Unused
  <2>2. users' = users
    BY <1>1 DEF tables
  <2> QED
    BY <1>4, <2>1, <2>2 DEF CallSound, Unused
<1>8. ASSUME NEW j \in Calls \ {k}
      PROVE  PairSound(j, k)' /\ PairSound(k, j)'
  <2>1. /\ tx[j].inserts /\ tx[k].inserts => tx[j].sub # tx[k].sub /\ tx[j].email # tx[k].email
    BY DEF CallsAreSound, PairSound
  <2>2. tx[j].write.op \in {"supplier", "product"} => tx[j].write.id \in Pending
    BY DEF CallsAreSound, CallSound, Pending, NoWrite
  <2> QED
    BY <1>3, <1>4, <2>1, <2>2 DEF PairSound
<1> QED
  BY <1>1, <1>3, <1>6, <1>7, <1>8 DEF OneCall

\* The records of the writes are writes.
LEMMA WritesAreTyped ==
    /\ \A c \in Companies : [NoWrite EXCEPT !.op = "company", !.id = c] \in Writes
    /\ \A s \in Suppliers : [NoWrite EXCEPT !.op = "supplier", !.id = s] \in Writes
    /\ \A p \in Products, s \in Suppliers \cup {None} :
          [NoWrite EXCEPT !.op = "product", !.id = p, !.supplier = s] \in Writes
    /\ \A p \in Products, s \in Suppliers :
          [NoWrite EXCEPT !.op = "move", !.id = p, !.supplier = s] \in Writes
    /\ \A q \in Requests, s \in Suppliers, ps \in SUBSET Products :
          [op |-> "request", id |-> q, supplier |-> s, products |-> ps] \in Writes
BY DEF NoWrite, Writes

\* The six writes, each on the guards of its service.
LEMMA WritesAreQuiet ==
    ASSUME TypeOK, CallsAreSound, NEW k \in Calls,
           \/ \E c \in Companies : CreateCompany(k, c)
           \/ \E s \in Suppliers : CreateSupplier(k, s)
           \/ \E p \in Products, s \in Suppliers \cup {None} : CreateProduct(k, p, s)
           \/ \E p \in Products, s \in Suppliers : MoveProduct(k, p, s)
           \/ \E q \in Requests, s \in Suppliers, ps \in SUBSET Products :
                 CreateRequest(k, q, s, ps)
    PROVE  TypeOK' /\ OneCall(k)
<1>1. ASSUME NEW c \in Companies, CreateCompany(k, c)
      PROVE  TypeOK' /\ OneCall(k)
  <2> DEFINE w == [NoWrite EXCEPT !.op = "company", !.id = c]
  <2>1. w \in Writes /\ Write(k, w) /\ w.op = "company" /\ w.id = c
    BY <1>1, WritesAreTyped DEF CreateCompany, NoWrite
  <2> HIDE DEF w
  <2>2. WriteSound(k)'
    BY <1>1, <2>1, WriteMeaning DEF CreateCompany, WriteSound
  <2> QED
    BY <2>1, <2>2, WriteIsQuiet
<1>2. ASSUME NEW s \in Suppliers, CreateSupplier(k, s)
      PROVE  TypeOK' /\ OneCall(k)
  <2> DEFINE w == [NoWrite EXCEPT !.op = "supplier", !.id = s]
  <2>1. w \in Writes /\ Write(k, w) /\ w.op = "supplier" /\ w.id = s
    BY <1>2, WritesAreTyped DEF CreateSupplier, NoWrite
  <2> HIDE DEF w
  <2>2. WriteSound(k)'
    BY <1>2, <2>1, WriteMeaning DEF CreateSupplier, WriteSound, tables
  <2> QED
    BY <1>2, <2>1, <2>2, WriteIsQuiet DEF CreateSupplier
<1>3. ASSUME NEW p \in Products, NEW s \in Suppliers \cup {None}, CreateProduct(k, p, s)
      PROVE  TypeOK' /\ OneCall(k)
  <2> DEFINE w == [NoWrite EXCEPT !.op = "product", !.id = p, !.supplier = s]
  <2>1. w \in Writes /\ Write(k, w) /\ w.op = "product" /\ w.id = p /\ w.supplier = s
    BY <1>3, WritesAreTyped DEF CreateProduct, NoWrite
  <2> HIDE DEF w
  <2>2. WriteSound(k)'
    BY <1>3, <2>1, WriteMeaning DEF CreateProduct, OfCompany, WriteSound, tables
  <2> QED
    BY <1>3, <2>1, <2>2, WriteIsQuiet DEF CreateProduct
<1>4. ASSUME NEW p \in Products, NEW s \in Suppliers, MoveProduct(k, p, s)
      PROVE  TypeOK' /\ OneCall(k)
  <2> DEFINE w == [NoWrite EXCEPT !.op = "move", !.id = p, !.supplier = s]
  <2>1. w \in Writes /\ Write(k, w) /\ w.op = "move" /\ w.id = p /\ w.supplier = s
    BY <1>4, WritesAreTyped DEF MoveProduct, NoWrite
  <2> HIDE DEF w
  <2>2. WriteSound(k)'
    BY <1>4, <2>1, WriteMeaning DEF MoveProduct, OfCompany, WriteSound, Finds, tables
  <2> QED
    BY <2>1, <2>2, WriteIsQuiet
<1>5. ASSUME NEW q \in Requests, NEW s \in Suppliers, NEW ps \in SUBSET Products,
             CreateRequest(k, q, s, ps)
      PROVE  TypeOK' /\ OneCall(k)
  <2> DEFINE w == [op |-> "request", id |-> q, supplier |-> s, products |-> ps]
  <2>1. /\ w \in Writes /\ Write(k, w)
        /\ w.op = "request" /\ w.id = q /\ w.supplier = s /\ w.products = ps
    BY <1>5, WritesAreTyped DEF CreateRequest
  <2> HIDE DEF w
  <2>2. WriteSound(k)'
    BY <1>5, <2>1, WriteMeaning
       DEF CreateRequest, OfCompany, OfSupplier, WriteSound, Finds, tables
  <2> QED
    BY <2>1, <2>2, WriteIsQuiet
<1> QED
  BY <1>1, <1>2, <1>3, <1>4, <1>5
-----------------------------------------------------------------------------
(* The commit *)

\* A session that commits wrote nothing, or something that is sound.
LEMMA CommitIsSound ==
    ASSUME TypeOK, CallsAreSound, NEW k \in Calls, Commit(k)
    PROVE  /\ tx[k] \in Transactions /\ tx[k].write \in Writes /\ tx[k].sub \in Subjects
           /\ tx[k].pc \in {"ready", "written"}
           /\ tx[k].write.op = "none" \/ WriteSound(k)
BY DEF TypeOK, Transactions, Commit, CallsAreSound, CallSound, NoWrite

\* Of the tables, one row changes besides the user's.
LEMMA CommitTables ==
    ASSUME TypeOK, CallsAreSound, NEW k \in Calls, Commit(k)
    PROVE  /\ \/ tx[k].write.op # "supplier" /\ suppliers' = suppliers
              \/ /\ tx[k].write.op = "supplier"
                 /\ suppliers' = [suppliers EXCEPT ![tx[k].write.id] = tx[k].company]
           /\ \/ tx[k].write.op \notin {"product", "move"} /\ products' = products
              \/ /\ tx[k].write.op \in {"product", "move"}
                 /\ products' = [products EXCEPT ![tx[k].write.id] =
                       [company |-> tx[k].company, supplier |-> tx[k].write.supplier]]
           /\ \/ tx[k].write.op # "request" /\ requests' = requests
              \/ /\ tx[k].write.op = "request"
                 /\ requests' = [requests EXCEPT ![tx[k].write.id] =
                       [company |-> tx[k].company, supplier |-> tx[k].write.supplier,
                        products |-> tx[k].write.products]]
           /\ \/ tx[k].write.op # "company" /\ companies' = companies
              \/ /\ tx[k].write.op = "company"
                 /\ companies' = [companies EXCEPT ![tx[k].write.id] = tx[k].sub]
BY DEF Commit, Put

\* Suppliers and products stay with their companies.
OwnersStay ==
    /\ \A s \in Suppliers : suppliers[s] # None => suppliers'[s] = suppliers[s]
    /\ \A p \in Products : products[p] # None =>
          products'[p] # None /\ products'[p].company = products[p].company

LEMMA CommitKeepsOwners ==
    ASSUME TypeOK, CallsAreSound, NEW k \in Calls, Commit(k)
    PROVE  OwnersStay
<1>1. tx[k].write.op = "none" \/ WriteSound(k)
  BY CommitIsSound
<1>2. \A s \in Suppliers : suppliers[s] # None => suppliers'[s] = suppliers[s]
  BY <1>1, CommitTables DEF WriteSound, TypeOK
<1>3. ASSUME NEW p \in Products, products[p] # None
      PROVE  products'[p] # None /\ products'[p].company = products[p].company
  <2>1. CASE products' = products
    BY <1>3, <2>1
  <2>2. CASE /\ tx[k].write.op \in {"product", "move"}
             /\ products' = [products EXCEPT ![tx[k].write.id] =
                   [company |-> tx[k].company, supplier |-> tx[k].write.supplier]]
    <3>1. CASE p # tx[k].write.id
      BY <1>3, <2>2, <3>1 DEF TypeOK
    <3>2. CASE p = tx[k].write.id
      <4>1. /\ tx[k].write.op = "move"
            /\ products[p].company = tx[k].company
        BY <1>1, <1>3, <2>2, <3>2 DEF WriteSound, Finds
      <4>2. products'[p] = [company |-> tx[k].company, supplier |-> tx[k].write.supplier]
        BY <2>2, <3>2 DEF TypeOK
      <4>3. tx[k].company \in Companies /\ tx[k].write.supplier \in Suppliers
        BY <1>1, <4>1, CommitIsSound DEF WriteSound, Transactions
      <4>4. products'[p] # None
        <5>1. None \notin ProductRows
          BY TenancyAssumption
        <5> QED
          BY <4>2, <4>3, <5>1 DEF ProductRows
      <4> QED
        BY <4>1, <4>2, <4>4
    <3> QED
      BY <3>1, <3>2
  <2> QED
    BY <2>1, <2>2, CommitTables
<1> QED
  BY <1>2, <1>3 DEF OwnersStay

\* The session of the call ends; the others at most learn of a move.
LEMMA CommitSessions ==
    ASSUME TypeOK, NEW k \in Calls, Commit(k)
    PROVE  /\ tx' \in [Calls -> Transactions]
           /\ tx'[k] = NoTransaction(tx[k].sub)
           /\ \A j \in Calls \ {k} :
                 /\ tx'[j].pc = tx[j].pc /\ tx'[j].sub = tx[j].sub
                 /\ tx'[j].email = tx[j].email /\ tx'[j].inserts = tx[j].inserts
                 /\ tx'[j].company = tx[j].company /\ tx'[j].write = tx[j].write
<1>1. tx[k].sub \in Subjects /\ NoTransaction(tx[k].sub) \in Transactions
  BY NoTransactionIsTyped DEF TypeOK, Transactions
<1>2. CASE End(k)
  BY <1>1, <1>2 DEF End, TypeOK
<1>3. CASE tx' = SeesMove(k)
  <2>1. /\ tx'[k] = NoTransaction(tx[k].sub)
        /\ \A j \in Calls \ {k} : tx'[j] = tx[j] \/ tx'[j] = [tx[j] EXCEPT !.moved = TRUE]
    BY <1>3 DEF SeesMove
  <2>2. ASSUME NEW j \in Calls \ {k}
        PROVE  /\ tx'[j] \in Transactions
               /\ tx'[j].pc = tx[j].pc /\ tx'[j].sub = tx[j].sub
               /\ tx'[j].email = tx[j].email /\ tx'[j].inserts = tx[j].inserts
               /\ tx'[j].company = tx[j].company /\ tx'[j].write = tx[j].write
    <3>1. tx[j] \in Transactions
      BY DEF TypeOK
    <3> QED
      BY <2>1, <3>1 DEF Transactions
  <2>3. tx' = [j \in Calls |-> tx'[j]]
    BY <1>3 DEF SeesMove
  <2> QED
    BY <1>1, <2>1, <2>2, <2>3
<1> QED
  BY <1>2, <1>3 DEF Commit

\* The user of the call is there afterwards, at the address it had or brought.
LEMMA CommitUsers ==
    ASSUME TypeOK, CallsAreSound, NEW k \in Calls, Commit(k)
    PROVE  /\ users' \in [Subjects -> Users \cup {None}]
           /\ \A s \in Subjects \ {tx[k].sub} : users'[s] = users[s]
           /\ users'[tx[k].sub] # None
           /\ users'[tx[k].sub].email = IF tx[k].inserts THEN tx[k].email
                                        ELSE users[tx[k].sub].email
           /\ users'[tx[k].sub].company =
                 IF tx[k].write.op = "company" THEN tx[k].write.id
                 ELSE IF tx[k].inserts THEN None ELSE users[tx[k].sub].company
<1>1. /\ tx[k].sub \in Subjects /\ tx[k].email \in Emails /\ tx[k].inserts \in BOOLEAN
      /\ users' = [users EXCEPT ![tx[k].sub] = UserAfter(tx[k])]
  BY DEF TypeOK, Transactions, Commit
<1>2. /\ tx[k].inserts => tx[k].email # NoEmail
      /\ ~tx[k].inserts => users[tx[k].sub] # None
  BY CommitIsSound DEF CallsAreSound, CallSound
<1>3. ~tx[k].inserts => users[tx[k].sub] \in Users
  BY <1>1, <1>2 DEF TypeOK
<1>4. tx[k].write.op = "company" => tx[k].write.id \in Companies
  BY CommitIsSound DEF WriteSound
<1>5. /\ UserAfter(tx[k]).email = IF tx[k].inserts THEN tx[k].email
                                  ELSE users[tx[k].sub].email
      /\ UserAfter(tx[k]).company =
            IF tx[k].write.op = "company" THEN tx[k].write.id
            ELSE IF tx[k].inserts THEN None ELSE users[tx[k].sub].company
  BY DEF UserAfter
<1>6. UserAfter(tx[k]) \in Users
  BY <1>1, <1>2, <1>3, <1>4 DEF UserAfter, Users
<1>7. UserAfter(tx[k]) # None
  BY <1>6, TenancyAssumption
<1> HIDE DEF UserAfter
<1> QED
  BY <1>1, <1>5, <1>6, <1>7 DEF TypeOK

LEMMA CommitKeepsTypes ==
    ASSUME TypeOK, CallsAreSound, NEW k \in Calls, Commit(k)
    PROVE  TypeOK'
<1>1. tx[k].write.op = "none" \/ WriteSound(k)
  BY CommitIsSound
<1>2. /\ tx[k].company \in Companies \cup {None} /\ tx[k].sub \in Subjects
      /\ tx[k].write.products \in SUBSET Products
      /\ tx[k].write.supplier \in Suppliers \cup {None}
  BY CommitIsSound DEF Transactions, Writes
<1>3. suppliers' \in [Suppliers -> Companies \cup {None}]
  BY <1>1, <1>2, CommitTables DEF WriteSound, TypeOK
<1>4. products' \in [Products -> ProductRows \cup {None}]
  <2>1. tx[k].write.op \in {"product", "move"} =>
           [company |-> tx[k].company, supplier |-> tx[k].write.supplier] \in ProductRows
    BY <1>1, <1>2 DEF WriteSound, ProductRows
  <2> QED
    BY <2>1, CommitTables DEF TypeOK
<1>5. requests' \in [Requests -> RequestRows \cup {None}]
  <2>1. tx[k].write.op = "request" =>
           [company |-> tx[k].company, supplier |-> tx[k].write.supplier,
            products |-> tx[k].write.products] \in RequestRows
    BY <1>1, <1>2 DEF WriteSound, RequestRows
  <2> QED
    BY <2>1, CommitTables DEF TypeOK
<1>6. companies' \in [Companies -> Subjects \cup {None}]
  BY <1>2, CommitTables DEF TypeOK
<1>7. made' \in 0..MaxCalls /\ overlapped' \subseteq Subjects
  BY <1>2 DEF TypeOK, Commit
<1> QED
  BY <1>3, <1>4, <1>5, <1>6, <1>7, CommitUsers, CommitSessions DEF TypeOK

\* What every other call relies on survives the commit.
LEMMA CommitKeepsCalls ==
    ASSUME TypeOK, CallsAreSound, NEW k \in Calls, Commit(k)
    PROVE  CallsAreSound'
<1>1. tx'[k] = NoTransaction(tx[k].sub)
  BY CommitSessions
<1>2. CallSound(k)'
  BY <1>1 DEF CallSound, NoTransaction
<1>3. ASSUME NEW j \in Calls \ {k}
      PROVE  CallSound(j)'
  <2>1. /\ tx'[j].pc = tx[j].pc /\ tx'[j].sub = tx[j].sub
        /\ tx'[j].email = tx[j].email /\ tx'[j].inserts = tx[j].inserts
        /\ tx'[j].company = tx[j].company /\ tx'[j].write = tx[j].write
    BY CommitSessions
  <2>2. CallSound(j) /\ PairSound(j, k)
    BY DEF CallsAreSound
  <2>3. tx[j].inserts => users'[tx[j].sub] = None
    <3>1. tx[j].inserts => tx[j].sub # tx[k].sub
      BY <2>2, CommitIsSound DEF CallsAreSound, CallSound, PairSound
    <3>2. tx[j].sub \in Subjects
      BY DEF TypeOK, Transactions
    <3> QED
      BY <2>2, <3>1, <3>2, CommitUsers DEF CallSound
  <2>4. tx[j].inserts => \A s \in Subjects : users'[s] # None => users'[s].email # tx[j].email
    <3>1. tx[j].inserts /\ tx[k].inserts => tx[k].email # tx[j].email
      BY <2>2 DEF PairSound
    <3>2. ~tx[k].inserts => users[tx[k].sub] # None
      BY CommitIsSound DEF CallsAreSound, CallSound
    <3> QED
      BY <2>2, <3>1, <3>2, CommitUsers, CommitIsSound DEF CallSound, Unused
  <2>5. tx[j].pc \in {"ready", "written"} /\ ~tx[j].inserts => users'[tx[j].sub] # None
    BY <2>2, CommitUsers DEF CallSound, TypeOK, Transactions
  <2>6. tx[j].pc = "written" => WriteSound(j)'
    <3>1. CASE tx[j].pc = "written" /\ tx[j].write.op = "company"
      BY <2>1, <2>2, <3>1 DEF CallSound, WriteSound
    <3>2. CASE tx[j].pc = "written" /\ tx[j].write.op = "supplier"
      <4>1. suppliers'[tx[j].write.id] = None
        BY <2>2, <3>2, CommitTables DEF CallSound, WriteSound, PairSound, TypeOK
      <4> QED
        BY <2>1, <2>2, <3>2, <4>1 DEF CallSound, WriteSound
    <3>3. CASE tx[j].pc = "written" /\ tx[j].write.op = "product"
      <4>1. products[tx[j].write.id] = None /\ tx[j].write.id \in Products
        BY <2>2, <3>3 DEF CallSound, WriteSound
      <4>2. tx[k].write.op \in {"product", "move"} => tx[j].write.id # tx[k].write.id
        BY <2>2, <3>3, <4>1, CommitIsSound DEF WriteSound, Finds, PairSound
      <4>3. products'[tx[j].write.id] = None
        BY <4>1, <4>2, CommitTables DEF TypeOK
      <4>4. tx[j].write.supplier # None => suppliers'[tx[j].write.supplier] = tx[j].company
        <5>1. tx[j].write.supplier \in Suppliers \cup {None}
          BY DEF TypeOK, Transactions, Writes
        <5> QED
          BY <2>2, <3>3, <5>1, CommitKeepsOwners DEF OwnersStay, CallSound, WriteSound
      <4> QED
        BY <2>1, <2>2, <3>3, <4>3, <4>4 DEF CallSound, WriteSound
    <3>4. CASE tx[j].pc = "written" /\ tx[j].write.op = "move"
      BY <2>1, <2>2, <3>4, CommitKeepsOwners DEF OwnersStay, CallSound, WriteSound, Finds
    <3>5. CASE tx[j].pc = "written" /\ tx[j].write.op = "request"
      <4>1. tx[j].write.products \subseteq Products
        BY DEF TypeOK, Transactions, Writes
      <4> QED
        BY <2>1, <2>2, <3>5, <4>1, CommitKeepsOwners
           DEF OwnersStay, CallSound, WriteSound, Finds
    <3> QED
      BY <2>2, <3>1, <3>2, <3>3, <3>4, <3>5 DEF CallSound, WriteSound
  <2> QED
    BY <2>1, <2>2, <2>3, <2>4, <2>5, <2>6 DEF CallSound, Unused
<1>4. ASSUME NEW i \in Calls, NEW j \in Calls, i # j
      PROVE  PairSound(i, j)'
  <2>1. CASE i # k /\ j # k
    BY <1>4, <2>1, CommitSessions DEF CallsAreSound, PairSound
  <2>2. CASE i = k \/ j = k
    BY <1>1, <2>2 DEF PairSound, NoTransaction, NoWrite
  <2> QED
    BY <2>1, <2>2
<1> QED
  BY <1>2, <1>3, <1>4 DEF CallsAreSound
-----------------------------------------------------------------------------
(* What the commit does to the properties *)

LEMMA CommitKeepsTenants ==
    ASSUME TypeOK, CallsAreSound, TenantsNeverMix, NEW k \in Calls, Commit(k)
    PROVE  TenantsNeverMix'
<1>1. tx[k].write.op = "none" \/ WriteSound(k)
  BY CommitIsSound
<1>2. OwnersStay
  BY CommitKeepsOwners
<1>3. ASSUME NEW p \in Products, products'[p] # None, products'[p].supplier # None
      PROVE  suppliers'[products'[p].supplier] = products'[p].company
  <2>1. CASE products'[p] = products[p]
    <3>1. /\ products[p] \in ProductRows
          /\ suppliers[products[p].supplier] = products[p].company
      BY <1>3, <2>1 DEF TypeOK, TenantsNeverMix
    <3>2. products[p].supplier \in Suppliers /\ products[p].company # None
      BY <1>3, <2>1, <3>1, TenancyAssumption DEF ProductRows
    <3> QED
      BY <1>2, <2>1, <3>1, <3>2 DEF OwnersStay
  <2>2. CASE /\ tx[k].write.op \in {"product", "move"}
             /\ products'[p] = [company |-> tx[k].company,
                                supplier |-> tx[k].write.supplier]
    <3>1. tx[k].write.supplier \in Suppliers
      BY <1>3, <2>2, CommitIsSound DEF Writes
    <3>2. suppliers[tx[k].write.supplier] = tx[k].company /\ tx[k].company # None
      BY <1>1, <1>3, <2>2 DEF WriteSound
    <3> QED
      BY <1>2, <2>2, <3>1, <3>2 DEF OwnersStay
  <2> QED
    BY <2>1, <2>2, CommitTables DEF TypeOK
<1>4. ASSUME NEW q \in Requests, requests'[q] # None
      PROVE  /\ suppliers'[requests'[q].supplier] = requests'[q].company
             /\ \A p \in requests'[q].products :
                   products'[p] # None /\ products'[p].company = requests'[q].company
  <2>1. CASE requests'[q] = requests[q]
    <3>1. /\ requests[q] \in RequestRows
          /\ suppliers[requests[q].supplier] = requests[q].company
          /\ \A p \in requests[q].products :
                products[p] # None /\ products[p].company = requests[q].company
      BY <1>4, <2>1 DEF TypeOK, TenantsNeverMix
    <3>2. /\ requests[q].supplier \in Suppliers /\ requests[q].company # None
          /\ requests[q].products \subseteq Products
      BY <3>1, TenancyAssumption DEF RequestRows
    <3> QED
      BY <1>2, <2>1, <3>1, <3>2 DEF OwnersStay
  <2>2. CASE /\ tx[k].write.op = "request"
             /\ requests'[q] = [company |-> tx[k].company,
                                supplier |-> tx[k].write.supplier,
                                products |-> tx[k].write.products]
    <3>1. tx[k].write.products \subseteq Products
      BY CommitIsSound DEF Writes
    <3>2. /\ tx[k].write.supplier \in Suppliers /\ tx[k].company # None
          /\ suppliers[tx[k].write.supplier] = tx[k].company
          /\ \A p \in tx[k].write.products :
                products[p] # None /\ products[p].company = tx[k].company
      BY <1>1, <2>2 DEF WriteSound, Finds
    <3> QED
      BY <1>2, <2>2, <3>1, <3>2 DEF OwnersStay
  <2> QED
    BY <2>1, <2>2, CommitTables DEF TypeOK
<1> QED
  BY <1>3, <1>4 DEF TenantsNeverMix

LEMMA CommitKeepsOnboarding ==
    ASSUME TypeOK, CallsAreSound, OnboardedOnce, NEW k \in Calls, Commit(k)
    PROVE  OnboardedOnce'
<1> DEFINE me == tx[k].sub
<1>1. /\ me \in Subjects
      /\ tx[k].write.op = "company" => tx[k].company = None
  BY CommitIsSound DEF WriteSound
<1>2. /\ users'[me] # None
      /\ \A s \in Subjects \ {me} : users'[s] = users[s]
      /\ users'[me].company = IF tx[k].write.op = "company" THEN tx[k].write.id
                              ELSE IF tx[k].inserts THEN None ELSE users[me].company
      /\ users'[me].email = IF tx[k].inserts THEN tx[k].email ELSE users[me].email
  BY CommitUsers
<1>3. /\ tx[k].inserts => users[me] = None /\ Unused(tx[k].email)
      /\ ~tx[k].inserts => users[me] # None
  BY CommitIsSound DEF CallsAreSound, CallSound
<1>4. overlapped \subseteq overlapped'
  BY DEF Commit
<1>5. ASSUME NEW c \in Companies, companies'[c] # None
      PROVE  /\ users'[companies'[c]] # None
             /\ users'[companies'[c]].company = c \/ companies'[c] \in overlapped'
  <2>1. CASE tx[k].write.op = "company" /\ c = tx[k].write.id
    <3>1. companies'[c] = me
      BY <2>1, CommitTables DEF TypeOK
    <3> QED
      BY <1>2, <2>1, <3>1
  <2>2. CASE ~(tx[k].write.op = "company" /\ c = tx[k].write.id)
    <3>1. companies'[c] = companies[c] /\ companies[c] \in Subjects
      <4>1. companies \in [Companies -> Subjects \cup {None}]
        BY DEF TypeOK
      <4>2. companies'[c] = companies[c]
        BY <2>2, <4>1, CommitTables
      <4> QED
        BY <1>5, <4>1, <4>2
    <3>2. /\ users[companies[c]] # None
          /\ users[companies[c]].company = c \/ companies[c] \in overlapped
      BY <1>5, <3>1 DEF OnboardedOnce
    <3>3. CASE companies[c] # me \/ tx[k].write.op # "company"
      BY <1>2, <1>3, <1>4, <3>1, <3>2, <3>3
    <3>4. CASE companies[c] = me /\ tx[k].write.op = "company"
      <4>1. ~tx[k].inserts
        BY <1>3, <3>2, <3>4
      <4>2. CASE users[me].company = None
        <5>1. c # None
          BY TenancyAssumption
        <5> QED
          BY <1>2, <1>4, <3>1, <3>2, <3>4, <4>2, <5>1
      <4>3. CASE users[me].company # None
        <5>1. Overtaken(tx[k])
          BY <1>1, <3>4, <4>1, <4>3 DEF Overtaken
        <5>2. me \in overlapped'
          BY <3>4, <5>1 DEF Commit
        <5> QED
          BY <1>2, <3>1, <3>4, <5>2
      <4> QED
        BY <4>2, <4>3
    <3> QED
      BY <3>3, <3>4
  <2> QED
    BY <2>1, <2>2
<1>6. ASSUME NEW s \in Subjects, NEW r \in Subjects, s # r, users'[s] # None, users'[r] # None
      PROVE  users'[s].email # users'[r].email
  <2>1. \A x, y \in Subjects : x # y /\ users[x] # None /\ users[y] # None =>
                                  users[x].email # users[y].email
    BY DEF OnboardedOnce
  <2> QED
    BY <1>2, <1>3, <1>6, <2>1 DEF Unused
<1> QED
  BY <1>5, <1>6 DEF OnboardedOnce
-----------------------------------------------------------------------------
(* The invariant *)

LEMMA TenancyInvInit == Init => TenancyInv
<1> SUFFICES ASSUME Init PROVE TenancyInv
  OBVIOUS
<1>1. PICK s \in Subjects : tx = [k \in Calls |-> NoTransaction(s)]
  BY DEF Init
<1>2. NoTransaction(s) \in Transactions
  BY NoTransactionIsTyped
<1>3. TypeOK
  BY <1>1, <1>2, TenancyAssumption DEF Init, TypeOK
<1>4. TenantsNeverMix /\ OnboardedOnce
  BY DEF Init, TenantsNeverMix, OnboardedOnce
<1>5. CallsAreSound
  BY <1>1 DEF CallsAreSound, CallSound, PairSound, NoTransaction, NoWrite
<1> QED
  BY <1>3, <1>4, <1>5 DEF TenancyInv

LEMMA TenancyInvStep == TenancyInv /\ [Next]_vars => TenancyInv'
<1> SUFFICES ASSUME TenancyInv, [Next]_vars PROVE TenancyInv'
  OBVIOUS
<1> USE DEF TenancyInv
<1>1. ASSUME NEW k \in Calls, TypeOK' /\ OneCall(k)
      PROVE  TenancyInv'
  BY <1>1, OneCallIsQuiet
<1>2. ASSUME NEW k \in Calls, NEW t \in Tokens, Enter(k, t)
      PROVE  TenancyInv'
  BY <1>1, <1>2, EnterIsQuiet
<1>3. ASSUME NEW k \in Calls, InsertUser(k)
      PROVE  TenancyInv'
  BY <1>1, <1>3, InsertUserIsQuiet
<1>4. ASSUME NEW k \in Calls,
             \/ \E c \in Companies : CreateCompany(k, c)
             \/ \E s \in Suppliers : CreateSupplier(k, s)
             \/ \E p \in Products, s \in Suppliers \cup {None} : CreateProduct(k, p, s)
             \/ \E p \in Products, s \in Suppliers : MoveProduct(k, p, s)
             \/ \E q \in Requests, s \in Suppliers, ps \in SUBSET Products :
                   CreateRequest(k, q, s, ps)
      PROVE  TenancyInv'
  BY <1>1, <1>4, WritesAreQuiet
<1>5. ASSUME NEW k \in Calls, Commit(k)
      PROVE  TenancyInv'
  BY <1>5, CommitKeepsTypes, CommitKeepsCalls, CommitKeepsTenants, CommitKeepsOnboarding
<1>6. ASSUME NEW k \in Calls, Rollback(k)
      PROVE  TenancyInv'
  BY <1>1, <1>6, EndIsQuiet DEF Rollback
<1>7. CASE UNCHANGED vars
  <2>1. TypeOK' /\ TenantsNeverMix' /\ OnboardedOnce'
    BY <1>7 DEF vars, tables, TypeOK, TenantsNeverMix, OnboardedOnce
  <2>2. CallsAreSound'
    BY <1>7 DEF vars, tables, CallsAreSound, CallSound, PairSound, Unused, WriteSound, Finds
  <2> QED
    BY <2>1, <2>2
<1> QED
  BY <1>2, <1>3, <1>4, <1>5, <1>6, <1>7 DEF Next

\* Types, tenants, onboarding and what open calls rely on, in every state.
THEOREM TenancyInvariant == Spec => []TenancyInv
BY TenancyInvInit, TenancyInvStep, PTL DEF Spec

\* The rows of the tables and the sessions are of their types.
THEOREM TenancyTypeCorrect == Spec => []TypeOK
BY TenancyInvariant, PTL DEF TenancyInv

\* Whatever calls overlap, a row never names a row of another company.
THEOREM NoTenantMixing == Spec => []TenantsNeverMix
BY TenancyInvariant, PTL DEF TenancyInv

\* Without overlapping onboardings a founder stays with the one company it
\* founded, and no two users ever share an address.
THEOREM OneCompanyPerFounder == Spec => []OnboardedOnce
BY TenancyInvariant, PTL DEF TenancyInv
-----------------------------------------------------------------------------
(* A request covers products of its supplier *)

\* Until a product of it is moved, what the check of a new request saw holds.
CoverageHolds ==
    \A k \in Calls :
       tx[k].write.op = "request" =>
          \/ tx[k].moved
          \/ \A p \in tx[k].write.products : products[p].supplier = tx[k].write.supplier

LEMMA CoverageStep ==
    TenancyInv /\ TenancyInv' /\ CoverageHolds /\ [Next]_vars => CoverageHolds'
<1> SUFFICES ASSUME TenancyInv, TenancyInv', CoverageHolds, [Next]_vars
             PROVE  CoverageHolds'
  OBVIOUS
<1> USE DEF TenancyInv
<1>1. ASSUME NEW k \in Calls, \A j \in Calls \ {k} : tx'[j] = tx[j], products' = products,
             \/ tx'[k].write.op # "request"
             \/ tx'[k].write = tx[k].write /\ tx'[k].moved = tx[k].moved
             \/ \A p \in tx'[k].write.products : products[p].supplier = tx'[k].write.supplier
      PROVE  CoverageHolds'
  BY <1>1 DEF CoverageHolds
<1>2. ASSUME NEW k \in Calls, OneCall(k), tx'[k].pc # "written"
      PROVE  CoverageHolds'
  <2>1. tx'[k].write = NoWrite
    BY <1>2 DEF OneCall, CallSound
  <2> QED
    BY <1>1, <1>2, <2>1 DEF OneCall, NoWrite, tables
<1>3. ASSUME NEW k \in Calls, NEW t \in Tokens, Enter(k, t)
      PROVE  CoverageHolds'
  <2>1. tx'[k].pc # "written"
    BY <1>3 DEF Enter, TypeOK, NoTransaction
  <2> QED
    BY <1>2, <1>3, <2>1, EnterIsQuiet
<1>4. ASSUME NEW k \in Calls, InsertUser(k)
      PROVE  CoverageHolds'
  <2>1. tx'[k].pc # "written"
    <3>1. tx[k] \in Transactions
      BY DEF TypeOK
    <3> QED
      BY <1>4, <3>1 DEF InsertUser, End, TypeOK, Transactions, NoTransaction
  <2> QED
    BY <1>2, <1>4, <2>1, InsertUserIsQuiet
<1>5. ASSUME NEW k \in Calls, NEW w \in Writes, Write(k, w), w.op # "request"
      PROVE  CoverageHolds'
  BY <1>1, <1>5, WriteMeaning DEF tables, TypeOK
<1>6. ASSUME NEW k \in Calls, NEW q \in Requests, NEW s \in Suppliers,
             NEW ps \in SUBSET Products, CreateRequest(k, q, s, ps)
      PROVE  CoverageHolds'
  <2> DEFINE w == [op |-> "request", id |-> q, supplier |-> s, products |-> ps]
  <2>1. w \in Writes /\ Write(k, w) /\ w.products = ps /\ w.supplier = s
    BY <1>6, WritesAreTyped DEF CreateRequest
  <2>2. \A p \in ps : products[p].supplier = s
    BY <1>6 DEF CreateRequest, OfSupplier
  <2> HIDE DEF w
  <2> QED
    BY <1>1, <2>1, <2>2, WriteMeaning DEF tables, TypeOK
<1>7. ASSUME NEW k \in Calls, Rollback(k)
      PROVE  CoverageHolds'
  <2>1. tx'[k].pc # "written"
    BY <1>7 DEF Rollback, End, TypeOK, NoTransaction
  <2> QED
    BY <1>2, <1>7, <2>1, EndIsQuiet DEF Rollback
<1>8. ASSUME NEW k \in Calls, Commit(k)
      PROVE  CoverageHolds'
  <2>1. ASSUME NEW j \in Calls, tx'[j].write.op = "request"
        PROVE  \/ tx'[j].moved
               \/ \A p \in tx'[j].write.products :
                     products'[p].supplier = tx'[j].write.supplier
    <3>1. j # k
      <4>1. tx'[k] = NoTransaction(tx[k].sub)
        BY <1>8, CommitSessions
      <4>2. tx'[k].write.op = "none"
        BY <4>1 DEF NoTransaction, NoWrite
      <4> QED
        BY <2>1, <4>2
    <3>2. /\ tx[j].write.op = "request" /\ tx'[j].write = tx[j].write
          /\ tx[j].write.products \subseteq Products
      BY <1>8, <2>1, <3>1, CommitSessions DEF TypeOK, Transactions, Writes
    <3>3. \A p \in tx[j].write.products : products[p] # None
      BY <3>2 DEF CallsAreSound, CallSound, NoWrite, WriteSound, Finds
    <3>4. CASE tx[k].write.op = "move"
      <4>1. tx' = SeesMove(k)
        BY <1>8, <3>4 DEF Commit
      <4>2. CASE tx[k].write.id \in tx[j].write.products
        <5>1. tx'[j] = [tx[j] EXCEPT !.moved = TRUE]
          BY <3>1, <3>2, <4>1, <4>2 DEF SeesMove
        <5>2. tx[j] \in Transactions
          BY DEF TypeOK
        <5> QED
          BY <5>1, <5>2 DEF Transactions
      <4>3. CASE tx[k].write.id \notin tx[j].write.products
        <5>1. tx'[j] = tx[j]
          BY <3>1, <4>1, <4>3 DEF SeesMove
        <5>2. \A p \in tx[j].write.products : products'[p] = products[p]
          BY <1>8, <3>2, <4>3, CommitTables DEF TypeOK
        <5> QED
          BY <3>2, <5>1, <5>2 DEF CoverageHolds
      <4> QED
        BY <4>2, <4>3
    <3>5. CASE tx[k].write.op # "move"
      <4>1. tx'[j] = tx[j]
        BY <1>8, <3>1, <3>5 DEF Commit, End, TypeOK
      <4>2. tx[k].write.op = "product" => products[tx[k].write.id] = None
        BY <1>8, CommitIsSound DEF WriteSound
      <4>3. \A p \in tx[j].write.products : products'[p] = products[p]
        BY <1>8, <3>2, <3>3, <3>5, <4>2, CommitTables DEF TypeOK
      <4> QED
        BY <3>2, <4>1, <4>3 DEF CoverageHolds
    <3> QED
      BY <3>4, <3>5
  <2> QED
    BY <2>1 DEF CoverageHolds
<1>9. CASE UNCHANGED vars
  BY <1>9 DEF vars, tables, CoverageHolds
<1>10. ASSUME NEW k \in Calls,
              \/ \E c \in Companies : CreateCompany(k, c)
              \/ \E s \in Suppliers : CreateSupplier(k, s)
              \/ \E p \in Products, s \in Suppliers \cup {None} : CreateProduct(k, p, s)
              \/ \E p \in Products, s \in Suppliers : MoveProduct(k, p, s)
       PROVE  \E w \in Writes : Write(k, w) /\ w.op # "request"
  <2>1. ASSUME NEW c \in Companies, CreateCompany(k, c)
        PROVE  \E w \in Writes : Write(k, w) /\ w.op # "request"
    <3> DEFINE w == [NoWrite EXCEPT !.op = "company", !.id = c]
    <3>1. w \in Writes /\ w.op # "request"
      BY WritesAreTyped DEF NoWrite
    <3> QED
      BY <2>1, <3>1 DEF CreateCompany
  <2>2. ASSUME NEW s \in Suppliers, CreateSupplier(k, s)
        PROVE  \E w \in Writes : Write(k, w) /\ w.op # "request"
    <3> DEFINE w == [NoWrite EXCEPT !.op = "supplier", !.id = s]
    <3>1. w \in Writes /\ w.op # "request"
      BY WritesAreTyped DEF NoWrite
    <3> QED
      BY <2>2, <3>1 DEF CreateSupplier
  <2>3. ASSUME NEW p \in Products, NEW s \in Suppliers \cup {None}, CreateProduct(k, p, s)
        PROVE  \E w \in Writes : Write(k, w) /\ w.op # "request"
    <3> DEFINE w == [NoWrite EXCEPT !.op = "product", !.id = p, !.supplier = s]
    <3>1. w \in Writes /\ w.op # "request"
      BY WritesAreTyped DEF NoWrite
    <3> QED
      BY <2>3, <3>1 DEF CreateProduct
  <2>4. ASSUME NEW p \in Products, NEW s \in Suppliers, MoveProduct(k, p, s)
        PROVE  \E w \in Writes : Write(k, w) /\ w.op # "request"
    <3> DEFINE w == [NoWrite EXCEPT !.op = "move", !.id = p, !.supplier = s]
    <3>1. w \in Writes /\ w.op # "request"
      BY WritesAreTyped DEF NoWrite
    <3> QED
      BY <2>4, <3>1 DEF MoveProduct
  <2> QED
    BY <1>10, <2>1, <2>2, <2>3, <2>4
<1> QED
  BY <1>3, <1>4, <1>5, <1>6, <1>7, <1>8, <1>9, <1>10 DEF Next

\* A request that appears covers products of its own supplier, unless one of
\* them was moved between the check and the commit.
THEOREM RequestsCoverTheirSupplier == Spec => RequestCoversItsSupplier
<1>1. Init => CoverageHolds
  BY DEF Init, CoverageHolds, NoTransaction, NoWrite
<1>2. TenancyInv /\ CoverageHolds /\ [Next]_vars => [\A q \in Requests : Covers(q)]_vars
  <2> SUFFICES ASSUME TenancyInv, CoverageHolds, Next,
                      NEW q \in Requests, requests[q] = None, requests'[q] # None
               PROVE  Covers(q)
    BY DEF Covers
  <2>1. \A k \in Calls : OneCall(k) => FALSE
    BY DEF OneCall, tables
  <2>2. PICK k \in Calls : Commit(k)
    BY <2>1, EnterIsQuiet, InsertUserIsQuiet, WritesAreQuiet, EndIsQuiet
       DEF Next, Rollback, TenancyInv
  <2>3. /\ tx[k].write.op = "request" /\ tx[k].write.id = q
        /\ requests'[q] = [company |-> tx[k].company, supplier |-> tx[k].write.supplier,
                           products |-> tx[k].write.products]
    BY <2>2, CommitTables DEF TenancyInv, TypeOK
  <2> QED
    BY <2>3 DEF Covers, CoverageHolds
<1> QED
  BY <1>1, <1>2, CoverageStep, TenancyInvariant, PTL DEF Spec, RequestCoversItsSupplier
=============================================================================
