------------------------------ MODULE Tenancy ------------------------------
(***************************************************************************)
(* Who may write what: verified tokens, users mirrored on their first      *)
(* call, companies, and the suppliers, products and requests of a company, *)
(* as overlapping transactions.                                            *)
(*                                                                         *)
(* Sources: app/core/security.py, app/api/deps.py, user_service.py,        *)
(* company_service.py, supplier_service.py, product_service.py,            *)
(* compliance_request_service.py (create), app/repositories, the models    *)
(* and the endpoints of companies, suppliers, products and requests.       *)
(*                                                                         *)
(* A call reads who calls and for which company, then does one write and   *)
(* is committed after the endpoint returned.  A call that is refused, even *)
(* by a 404 or a 409, is rolled back with the user row it had inserted.    *)
(* Names, countries and addresses are left out; module RequestLifecycle    *)
(* has what happens to a request once it exists.                           *)
(***************************************************************************)
EXTENDS FiniteSets, Naturals

CONSTANTS
    Subjects,  \* ids of Supabase accounts
    Emails,    \* addresses, and NoEmail for a token without the claim
    NoEmail,
    Tokens,    \* the bearer tokens calls are made with
    Companies, \* ids (uuid4) of companies, suppliers, products, requests
    Suppliers,
    Products,
    Requests,
    None,      \* no row, no company, no supplier
    Calls,     \* calls under way at the same time
    MaxCalls   \* bound: calls made

TokenRecords ==
    [sub : Subjects \cup {None}, email : Emails,
     key : BOOLEAN, \* signed by the key of the project, with an allowed algorithm
     aud : BOOLEAN, iss : BOOLEAN, expired : BOOLEAN]

Users == [email : Emails \ {NoEmail}, company : Companies \cup {None}]
ProductRows == [company : Companies, supplier : Suppliers \cup {None}]
RequestRows == [company : Companies, supplier : Suppliers, products : SUBSET Products]

ASSUME TenancyAssumption ==
    /\ Tokens \subseteq TokenRecords
    /\ None \notin Subjects \cup Emails \cup Companies \cup Suppliers \cup Products \cup Requests
    /\ None \notin Users /\ None \notin ProductRows /\ None \notin RequestRows
    /\ NoEmail \in Emails
    /\ MaxCalls \in Nat

VARIABLES
    users,     \* the rows of the tables, committed
    companies,
    suppliers,
    products,
    requests,
    tx,        \* the transaction of every call
    made,      \* calls made so far
    overlapped \* history: users who onboarded over an onboarding they had not read

tables == <<users, companies, suppliers, products, requests>>
vars == <<tables, tx, made, overlapped>>

\* The one write of a call: the row it inserts or changes.
NoWrite == [op |-> "none", id |-> None, supplier |-> None, products |-> {}]

Writes == [op       : {"none", "company", "supplier", "product", "move", "request"},
           id       : {None} \cup Companies \cup Suppliers \cup Products \cup Requests,
           supplier : Suppliers \cup {None},
           products : SUBSET Products]

Transactions == [pc      : {"idle", "new", "ready", "written"},
                 sub     : Subjects,
                 email   : Emails,
                 inserts : BOOLEAN,                 \* it inserted the user's row
                 company : Companies \cup {None},   \* user.company_id as loaded
                 moved   : BOOLEAN,                 \* a product changed its supplier meanwhile
                 write   : Writes]

TypeOK ==
    /\ users \in [Subjects -> Users \cup {None}]
    /\ companies \in [Companies -> Subjects \cup {None}]
    /\ suppliers \in [Suppliers -> Companies \cup {None}]
    /\ products \in [Products -> ProductRows \cup {None}]
    /\ requests \in [Requests -> RequestRows \cup {None}]
    /\ tx \in [Calls -> Transactions]
    /\ made \in 0..MaxCalls
    /\ overlapped \subseteq Subjects

NoTransaction(s) ==
    [pc |-> "idle", sub |-> s, email |-> NoEmail, inserts |-> FALSE, company |-> None,
     moved |-> FALSE, write |-> NoWrite]

Init ==
    /\ users = [s \in Subjects |-> None]
    /\ companies = [c \in Companies |-> None]
    /\ suppliers = [s \in Suppliers |-> None]
    /\ products = [p \in Products |-> None]
    /\ requests = [q \in Requests |-> None]
    /\ \E s \in Subjects : tx = [k \in Calls |-> NoTransaction(s)]
    /\ made = 0
    /\ overlapped = {}

\* The transaction of k ends.
End(k) == tx' = [tx EXCEPT ![k] = NoTransaction(tx[k].sub)]

Pending == {tx[k].write.id : k \in {j \in Calls : tx[j].pc = "written"}}
-----------------------------------------------------------------------------
(* The caller *)

\* verify, by JWKS: signature, audience, issuer, expiry, and a subject.
Verifies(t) == t.key /\ t.aud /\ t.iss /\ ~t.expired /\ t.sub # None

\* Mutation: a token without the email claim makes a user.
MirrorableAlways(t) == TRUE

\* A new user needs the email claim.
Mirrorable(t) == t.email # NoEmail

\* get_or_create_from_identity reads the row; get_current_company its company.
Enter(k, t) ==
    /\ Verifies(t)
    /\ tx[k].pc = "idle"
    /\ made < MaxCalls
    /\ made' = made + 1
    /\ \/ /\ users[t.sub] # None
          /\ tx' = [tx EXCEPT ![k] = [NoTransaction(t.sub) EXCEPT
                       !.pc = "ready", !.company = users[t.sub].company]]
       \/ /\ users[t.sub] = None
          /\ Mirrorable(t)
          /\ tx' = [tx EXCEPT ![k] = [NoTransaction(t.sub) EXCEPT
                       !.pc = "new", !.email = t.email]]
    /\ UNCHANGED <<tables, overlapped>>

\* Another transaction inserted the same id or address and has not ended.
Contended(k) ==
    \E j \in Calls \ {k} : tx[j].inserts /\ (tx[j].sub = tx[k].sub \/ tx[j].email = tx[k].email)

\* Mutation: no unique constraint on users.email.
TakenById(k) == users[tx[k].sub] # None

Taken(k) == \/ users[tx[k].sub] # None
            \/ \E s \in Subjects : users[s] # None /\ users[s].email = tx[k].email

\* repository.create: the INSERT waits for an equal one, and fails on a row
\* with the same id or address.
InsertUser(k) ==
    /\ tx[k].pc = "new"
    /\ ~Contended(k)
    /\ \/ /\ Taken(k)
          /\ End(k)
       \/ /\ ~Taken(k)
          /\ tx' = [tx EXCEPT ![k].pc = "ready", ![k].inserts = TRUE]
    /\ UNCHANGED <<tables, made, overlapped>>
-----------------------------------------------------------------------------
(* The write *)

Write(k, w) ==
    /\ tx[k].pc = "ready"
    /\ tx' = [tx EXCEPT ![k].pc = "written", ![k].write = w]
    /\ UNCHANGED <<tables, made, overlapped>>

\* Another transaction updated the user's row and has not ended.
UserLocked(k) ==
    \E j \in Calls \ {k} :
       tx[j].sub = tx[k].sub /\ tx[j].pc = "written" /\ tx[j].write.op = "company"

\* Mutation: a member of a company may onboard again.
CreateCompanyAgain(k, c) ==
    /\ companies[c] = None /\ c \notin Pending
    /\ ~UserLocked(k)
    /\ Write(k, [NoWrite EXCEPT !.op = "company", !.id = c])

\* create_company_for_user: refused with a company, as loaded; the UPDATE of
\* the user waits for an overlapping one.
CreateCompany(k, c) ==
    /\ tx[k].company = None
    /\ companies[c] = None /\ c \notin Pending
    /\ ~UserLocked(k)
    /\ Write(k, [NoWrite EXCEPT !.op = "company", !.id = c])

CreateSupplier(k, s) ==
    /\ tx[k].company # None
    /\ suppliers[s] = None /\ s \notin Pending
    /\ Write(k, [NoWrite EXCEPT !.op = "supplier", !.id = s])

\* Mutation: any supplier that exists will do.
OfCompanyAny(k, s) == suppliers[s] # None

\* CompanyScopedRepository.get finds the supplier.
OfCompany(k, s) == suppliers[s] = tx[k].company

CreateProduct(k, p, s) ==
    /\ tx[k].company # None
    /\ products[p] = None /\ p \notin Pending
    /\ s # None => OfCompany(k, s)
    /\ Write(k, [NoWrite EXCEPT !.op = "product", !.id = p, !.supplier = s])

Finds(k, p) == products[p] # None /\ products[p].company = tx[k].company

\* Another transaction updated the product and has not ended.
ProductLocked(p) ==
    \E j \in Calls : tx[j].pc = "written" /\ tx[j].write.op = "move" /\ tx[j].write.id = p

\* ProductService.update with another supplier (the same one is not written).
MoveProduct(k, p, s) ==
    /\ tx[k].company # None
    /\ Finds(k, p)
    /\ products[p].supplier # s
    /\ OfCompany(k, s)
    /\ ~ProductLocked(p)
    /\ Write(k, [NoWrite EXCEPT !.op = "move", !.id = p, !.supplier = s])

\* Mutation: products of the company, of whatever supplier.
OfSupplierOrNot(k, ps, s) == \A p \in ps : Finds(k, p)

\* _assert_products_belong_to_supplier
OfSupplier(k, ps, s) == \A p \in ps : Finds(k, p) /\ products[p].supplier = s

\* ComplianceRequestService.create, for at least one product.
CreateRequest(k, q, s, ps) ==
    /\ tx[k].company # None
    /\ requests[q] = None /\ q \notin Pending
    /\ ps # {}
    /\ OfCompany(k, s)
    /\ OfSupplier(k, ps, s)
    /\ Write(k, [op |-> "request", id |-> q, supplier |-> s, products |-> ps])
-----------------------------------------------------------------------------
(* The end of the call *)

Put(table, op, w, row) == IF w.op = op THEN [table EXCEPT ![w.id] = row] ELSE table

\* Every reader that has not ended read the product before this move.
SeesMove(k) ==
    [j \in Calls |-> IF j = k THEN NoTransaction(tx[k].sub)
                     ELSE IF tx[j].write.op = "request" /\ tx[k].write.id \in tx[j].write.products
                          THEN [tx[j] EXCEPT !.moved = TRUE] ELSE tx[j]]

\* The user's row: the company is written over what others committed.
UserAfter(t) ==
    [email   |-> IF t.inserts THEN t.email ELSE users[t.sub].email,
     company |-> IF t.write.op = "company" THEN t.write.id
                 ELSE IF t.inserts THEN None ELSE users[t.sub].company]

\* Another onboarding of the user committed since t read it.
Overtaken(t) == ~t.inserts /\ users[t.sub].company # t.company

\* The session is committed, with or without a write.
Commit(k) ==
    LET t == tx[k]
        w == t.write
    IN  /\ t.pc \in {"ready", "written"}
        /\ users' = [users EXCEPT ![t.sub] = UserAfter(t)]
        /\ companies' = Put(companies, "company", w, t.sub)
        /\ suppliers' = Put(suppliers, "supplier", w, t.company)
        /\ products' = Put(Put(products, "product", w,
                               [company |-> t.company, supplier |-> w.supplier]),
                           "move", w, [company |-> t.company, supplier |-> w.supplier])
        /\ requests' = Put(requests, "request", w,
                           [company |-> t.company, supplier |-> w.supplier,
                            products |-> w.products])
        /\ overlapped' = IF w.op = "company" /\ Overtaken(t) THEN overlapped \cup {t.sub}
                                                              ELSE overlapped
        /\ IF w.op = "move" THEN tx' = SeesMove(k) ELSE End(k)
        /\ UNCHANGED made

\* The call is refused or fails, and is rolled back.
Rollback(k) ==
    /\ tx[k].pc # "idle"
    /\ End(k)
    /\ UNCHANGED <<tables, made, overlapped>>

Next ==
    \E k \in Calls :
       \/ \E t \in Tokens : Enter(k, t)
       \/ InsertUser(k)
       \/ \E c \in Companies : CreateCompany(k, c)
       \/ \E s \in Suppliers : CreateSupplier(k, s)
       \/ \E p \in Products, s \in Suppliers \cup {None} : CreateProduct(k, p, s)
       \/ \E p \in Products, s \in Suppliers : MoveProduct(k, p, s)
       \/ \E q \in Requests, s \in Suppliers, ps \in SUBSET Products : CreateRequest(k, q, s, ps)
       \/ Commit(k)
       \/ Rollback(k)

Spec == Init /\ [][Next]_vars
-----------------------------------------------------------------------------
(* Properties *)

\* "CompanyScopedRepository refuses cross-tenant reads even if an endpoint
\* forgot to filter" (README.md:1129): a row never names a row of another
\* company, whatever companies its writers are moved to meanwhile.
TenantsNeverMix ==
    /\ \A p \in Products :
          products[p] # None /\ products[p].supplier # None =>
             suppliers[products[p].supplier] = products[p].company
    /\ \A q \in Requests :
          requests[q] # None =>
             /\ suppliers[requests[q].supplier] = requests[q].company
             /\ \A p \in requests[q].products :
                   products[p] # None /\ products[p].company = requests[q].company

\* CompanyAlreadyExistsError: a user founds one company and belongs to it,
\* unless two onboardings of the same user overlapped (the first company is
\* then left without its founder); no two users share an address.
OnboardedOnce ==
    /\ \A c \in Companies : companies[c] # None =>
          /\ users[companies[c]] # None
          /\ users[companies[c]].company = c \/ companies[c] \in overlapped
    /\ \A s, r \in Subjects :
          s # r /\ users[s] # None /\ users[r] # None => users[s].email # users[r].email

Covers(q) ==
    requests[q] = None /\ requests'[q] # None =>
       \E k \in Calls :
          /\ tx[k].write.id = q
          /\ \/ tx[k].moved
             \/ \A p \in requests'[q].products : products[p].supplier = requests'[q].supplier

\* ProductNotInSupplierError: a request that appears covers products of its
\* own supplier, unless one of them was moved to another supplier between the
\* check and the commit.  (A later move is not looked at by anybody.)
RequestCoversItsSupplier == [][\A q \in Requests : Covers(q)]_vars
=============================================================================
