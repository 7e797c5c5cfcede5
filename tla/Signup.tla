-------------------------------- MODULE Signup --------------------------------
(***************************************************************************)
(* How agencies and their users come to exist                              *)
(* (modules/billing/billing.service.ts, modules/admin/admin.service.ts):   *)
(* the public sign-up with its free trial, the renewal that uses the same  *)
(* form, and what the superadmin creates by hand.                          *)
(*                                                                         *)
(* The form is checked by reads that nothing holds - user by e-mail,       *)
(* agency by document, agency by slug - and written by a transaction.      *)
(* E-mails and slugs are unique columns, documents are not. Requests are   *)
(* numbered; an agency has the number of the request that created it, and  *)
(* a user is known by its e-mail.                                          *)
(***************************************************************************)
EXTENDS Integers

CONSTANTS
  Handlers,     \* requests that can be in flight together
  Emails,       \* e-mails of users
  Documents,    \* CPF or CNPJ
  Names,        \* agency names
  Slugs,        \* texts of the slug column
  SlugText,     \* the texts tried for a name, in their order
  States,       \* keys of the cache of municipalities
  MaxRequests,  \* bound: sign-ups, renewals and agencies made by hand
  MaxFetches    \* bound: requests for the municipalities of a state

NoEmail == "no email"
NoDocument == "no document"
NoName == "no name"
NoSlug == "no slug"
NoState == "no state"

ASSUME BoundAssumption == MaxRequests \in Nat /\ MaxFetches \in Nat
ASSUME NamesAssumption ==
  /\ NoEmail \notin Emails
  /\ NoDocument \notin Documents
  /\ NoName \notin Names
  /\ NoSlug \notin Slugs
  /\ NoState \notin States

\* slugifyAgencyName and the suffix: foo, foo-2, foo-3, ... for an agency called
\* Foo, each another text. Names share texts: foo-2 is also the first one for an
\* agency called Foo 2.
ASSUME SlugTextAssumption ==
  /\ SlugText \in [Names -> [1..(MaxRequests + 1) -> Slugs]]
  /\ \A n \in Names : \A j, k \in 1..(MaxRequests + 1) :
       SlugText[n][j] = SlugText[n][k] => j = k

VARIABLES
  agency,    \* Agency
  user,      \* User: the agency of each e-mail, or 0
  link,      \* users that a login gave a renewal link
  cache,     \* ibgeStateMunicipalitiesCache: the promise kept for a state, or 0
  fetch,     \* the promises
  request,   \* history: what was asked for, and beside whom
  conflicted, \* history: requests that ended on a slug, and the slug
  issued,    \* history: number of the last request
  held,      \* history: documents an agency ever had
  task       \* the handlers in flight

tables == <<agency, user, held>>
promises == <<cache, fetch>>
vars == <<agency, user, link, cache, fetch, request, conflicted, issued, held, task>>

Ids == 1..MaxRequests
Fetches == 1..MaxFetches

Agency == [exists : BOOLEAN, slug : Slugs \cup {NoSlug},
           document : Documents \cup {NoDocument}, isActive : BOOLEAN]
NoAgency == [exists |-> FALSE, slug |-> NoSlug, document |-> NoDocument,
             isActive |-> FALSE]

\* A request with the renewal link of a user, without one, or of the superadmin.
Request == [kind : {"signup", "renewal", "by hand"},
            link : Emails \cup {NoEmail}, email : Emails \cup {NoEmail},
            document : Documents \cup {NoDocument}, name : Names \cup {NoName},
            state : States \cup {NoState}, beside : SUBSET Ids]

\* A request that ended on a slug.
Conflict == [request : Ids, slug : Slugs]

Task == [pc : {"idle", "address", "email", "document", "slug", "agency",
               "user", "city", "cities", "checkout", "renew"},
         request : 0..MaxRequests, slug : Slugs \cup {NoSlug},
         fetch : 0..MaxFetches]
Idle == [pc |-> "idle", request |-> 0, slug |-> NoSlug, fetch |-> 0]

Exists == {a \in Ids : agency[a].exists}
Asked(h) == request[task[h].request]
InFlight == {task[h].request : h \in {g \in Handlers : task[g].pc # "idle"}}
Continue(h, pc) == task' = [task EXCEPT ![h].pc = pc]
Finish(h) == task' = [task EXCEPT ![h] = Idle]

Init ==
  /\ agency = [a \in Ids |-> NoAgency]
  /\ user = [e \in Emails |-> 0]
  /\ link = {}
  /\ cache = [s \in States |-> 0]
  /\ fetch = [f \in Fetches |-> "none"]
  /\ request = [n \in {} |-> Idle]
  /\ conflicted = {}
  /\ issued = 0
  /\ held = [a \in Ids |-> {}]
  /\ task = [h \in Handlers |-> Idle]

-----------------------------------------------------------------------------
(* Statements. *)

Begin(asked) ==
  /\ issued < MaxRequests
  /\ issued' = issued + 1
  /\ request' = [n \in 1..issued' |-> IF n <= issued THEN request[n] ELSE asked]

\* An insert waits for the transaction that has inserted the same slug.
SlugIsSettled(slug) == \A g \in Handlers : task[g].pc = "user" => task[g].slug # slug

SlugIsTaken(slug) == \E a \in Exists : agency[a].slug = slug

InsertAgency(a, slug, document) ==
  /\ agency' = [agency EXCEPT ![a] = [exists |-> TRUE, slug |-> slug,
                                      document |-> document, isActive |-> TRUE]]
  /\ held' = [held EXCEPT ![a] = {document}]

-----------------------------------------------------------------------------
(* createAgencySignup *)

\* A form is submitted, with a renewal link or without. No slug is made of the
\* name in a renewal.
createAgencySignup(h, l, e, d, n, s) ==
  /\ task[h].pc = "idle"
  /\ l \in link \cup {NoEmail}
  /\ Begin([kind |-> IF l = NoEmail THEN "signup" ELSE "renewal", link |-> l,
            email |-> e, document |-> d, state |-> s,
            name |-> IF l = NoEmail THEN n ELSE NoName,
            beside |-> InFlight])
  /\ task' = [task EXCEPT ![h] = [Idle EXCEPT !.pc = "address",
                                              !.request = issued + 1]]
  /\ UNCHANGED <<tables, link, promises, conflicted>>

\* lookupBrazilianPostalCode asks the second provider when the first one fails;
\* when both fail, the address is taken as it was typed.
PostalCodeLookup(viaCep, brasilApi) ==
  IF viaCep # "failed" THEN viaCep
  ELSE IF brasilApi # "failed" THEN brasilApi ELSE "unavailable"

normalizeSignupAddress(h) ==
  /\ task[h].pc = "address"
  /\ \E viaCep, brasilApi \in {"ok", "not_found", "failed"} :
       IF PostalCodeLookup(viaCep, brasilApi) = "not_found" THEN Finish(h)
       ELSE Continue(h, "email")
  /\ UNCHANGED <<tables, link, promises, request, issued, conflicted>>

\* Mutant: any user may renew with any link.
LinkOfAnybody(h) == user[Asked(h).email] # 0

LinkOfUser(h) == user[Asked(h).email] # 0 /\ Asked(h).email = Asked(h).link

\* What stands in the way of an e-mail. Users of the superadmin role, whose
\* e-mails are always refused, are left out.
resolveSignupEmailPolicy(owner) ==
  IF owner = 0 THEN "available"
  ELSE IF agency[owner].isActive THEN "in_use" ELSE "reusable"

\* Only a renewal goes on with an e-mail that is in the table.
EmailRefused(h) ==
  LET policy == resolveSignupEmailPolicy(user[Asked(h).email])
  IN  \/ policy = "in_use"
      \/ Asked(h).kind = "renewal" /\ ~LinkOfUser(h)
      \/ Asked(h).kind = "signup" /\ policy # "available"

FindUser(h) ==
  /\ task[h].pc = "email"
  /\ IF EmailRefused(h) THEN Finish(h)
     ELSE Continue(h, IF Asked(h).kind = "renewal" THEN "city" ELSE "document")
  /\ UNCHANGED <<tables, link, promises, request, issued, conflicted>>

\* Mutant: the document is not looked up.
DocumentNotAsked(document) == FALSE

DocumentIsKnown(document) == \E a \in Exists : agency[a].document = document

FindDocument(h) ==
  /\ task[h].pc = "document"
  /\ IF DocumentIsKnown(Asked(h).document) THEN Finish(h)
     ELSE Continue(h, "slug")
  /\ UNCHANGED <<tables, link, promises, request, issued, conflicted>>

\* Mutant: the name without a suffix, whether it is free or not.
BaseSlug(name) == SlugText[name][1]

\* The first text of the name that no agency has.
FreeSlug(name) ==
  LET free == {k \in 1..(MaxRequests + 1) : ~SlugIsTaken(SlugText[name][k])}
  IN  SlugText[name][CHOOSE k \in free : \A j \in free : k <= j]

\* The transaction begins. A slug that is found taken stays taken, so the
\* search is as good as one read.
generateUniqueAgencySlug(h) ==
  /\ task[h].pc = "slug"
  /\ task' = [task EXCEPT ![h].pc = "agency", ![h].slug = FreeSlug(Asked(h).name)]
  /\ UNCHANGED <<tables, link, promises, request, conflicted, issued>>

\* Mutant: the agency is inserted outside the transaction.
AgencyRowAtOnce(h) ==
  /\ task[h].pc = "agency"
  /\ ~SlugIsTaken(task[h].slug)
  /\ InsertAgency(task[h].request, task[h].slug, Asked(h).document)
  /\ Continue(h, "user")
  /\ UNCHANGED <<user, link, promises, request, issued, conflicted>>

\* Nobody sees the new agency before the commit. A slug that was taken since
\* the search is an error the handler passes on.
CreateAgencyRow(h) ==
  /\ task[h].pc = "agency"
  /\ SlugIsSettled(task[h].slug)
  /\ IF SlugIsTaken(task[h].slug)
     THEN /\ conflicted' = conflicted \cup {[request |-> task[h].request,
                                             slug |-> task[h].slug]}
          /\ Finish(h)
     ELSE Continue(h, "user") /\ UNCHANGED conflicted
  /\ UNCHANGED <<tables, link, promises, request, issued>>

\* Mutant: the user stays although the agency is rolled back.
UserWithoutAgency(h) ==
  /\ task[h].pc = "user" /\ user[Asked(h).email] = 0
  /\ user' = [user EXCEPT ![Asked(h).email] = task[h].request]
  /\ Finish(h)
  /\ UNCHANGED <<agency, held, link, promises, request, issued, conflicted>>

\* The user, the trial, the acceptance of the terms, and the commit. A taken
\* e-mail is refused, and the agency is rolled back.
CommitSignup(h) ==
  LET n == task[h].request
      e == Asked(h).email
  IN  /\ task[h].pc = "user"
      /\ IF user[e] # 0 THEN UNCHANGED tables
         ELSE /\ InsertAgency(n, task[h].slug, Asked(h).document)
              /\ user' = [user EXCEPT ![e] = n]
      /\ Finish(h)
      /\ UNCHANGED <<link, promises, request, issued, conflicted>>

-----------------------------------------------------------------------------
(* The renewal. *)

\* A login to an agency without access hands out a link, which is good for
\* half an hour, whatever happens meanwhile: its holder uses it or does not.
HandOutLink(e) ==
  /\ e \notin link /\ user[e] # 0 /\ ~agency[user[e]].isActive
  /\ link' = link \cup {e}
  /\ UNCHANGED <<tables, promises, request, conflicted, issued, task>>

\* The promise that is kept, or a new one.
listIbgeCitiesByState(h) ==
  LET s == Asked(h).state
  IN  /\ task[h].pc = "city"
      /\ IF cache[s] # 0
         THEN /\ task' = [task EXCEPT ![h].pc = "cities", ![h].fetch = cache[s]]
              /\ UNCHANGED promises
         ELSE \E f \in Fetches :
                /\ fetch[f] = "none" /\ \A o \in 1..(f - 1) : fetch[o] # "none"
                /\ fetch' = [fetch EXCEPT ![f] = "pending"]
                /\ cache' = [cache EXCEPT ![s] = f]
                /\ task' = [task EXCEPT ![h].pc = "cities", ![h].fetch = f]
      /\ UNCHANGED <<tables, link, request, conflicted, issued>>

\* Mutant: the catch only throws on.
StaysCached(f) == cache

Forgotten(f) == [s \in States |-> IF cache[s] = f THEN 0 ELSE cache[s]]

\* IBGE answers, or the call fails and the promise is forgotten.
EndFetch(f, outcome) ==
  /\ fetch[f] = "pending"
  /\ fetch' = [fetch EXCEPT ![f] = outcome]
  /\ cache' = IF outcome = "failed" THEN Forgotten(f) ELSE cache
  /\ UNCHANGED <<tables, link, request, conflicted, issued, task>>

\* A state that does not have the city, like a failed call, ends the renewal.
resolveIbgeCityCode(h) ==
  /\ task[h].pc = "cities"
  /\ \/ fetch[task[h].fetch] \in {"failed", "listed"} /\ Finish(h)
     \/ fetch[task[h].fetch] = "listed" /\ Continue(h, "checkout")
  /\ UNCHANGED <<tables, link, promises, request, issued, conflicted>>

createRecurringCheckout(h) ==
  /\ task[h].pc = "checkout"
  /\ Continue(h, "renew") \/ Finish(h)
  /\ UNCHANGED <<tables, link, promises, request, issued, conflicted>>

\* The agency takes what the form says, its document too, and is closed until
\* the checkout is paid.
RenewalCommit(h) ==
  LET a == user[Asked(h).email]
      d == Asked(h).document
  IN  /\ task[h].pc = "renew"
      /\ agency' = [agency EXCEPT ![a].document = d, ![a].isActive = FALSE]
      /\ held' = [held EXCEPT ![a] = @ \cup {d}]
      /\ Finish(h)
      /\ UNCHANGED <<user, link, promises, request, issued, conflicted>>

-----------------------------------------------------------------------------
(* The superadmin, and what others do to an agency. *)

\* One insert, under a slug of the superadmin's choice; a taken one is refused.
createAgency(slug) ==
  /\ SlugIsSettled(slug) /\ ~SlugIsTaken(slug)
  /\ Begin([kind |-> "by hand", link |-> NoEmail, email |-> NoEmail,
            document |-> NoDocument, name |-> NoName, state |-> NoState,
            beside |-> InFlight])
  /\ InsertAgency(issued + 1, slug, NoDocument)
  /\ UNCHANGED <<user, link, promises, conflicted, task>>

createAgencyUser(a, e) ==
  /\ a \in Exists
  /\ user[e] = 0
  /\ user' = [user EXCEPT ![e] = a]
  /\ UNCHANGED <<agency, held, link, promises, request, conflicted, issued, task>>

\* Billing and updateAgencyStatus open and close agencies (module Billing).
SetActive(a) ==
  /\ a \in Exists
  /\ agency' = [agency EXCEPT ![a].isActive = ~@]
  /\ UNCHANGED <<user, held, link, promises, request, conflicted, issued, task>>

\* The process stops or a call fails: the transaction is rolled back.
Abort(h) ==
  /\ task[h].pc # "idle"
  /\ Finish(h)
  /\ UNCHANGED <<tables, link, promises, request, issued, conflicted>>

-----------------------------------------------------------------------------

Submit(h) ==
  \E l \in Emails \cup {NoEmail}, e \in Emails, d \in Documents, n \in Names, s \in States :
    createAgencySignup(h, l, e, d, n, s)

Proceed(h) ==
  \/ normalizeSignupAddress(h) \/ FindUser(h) \/ FindDocument(h)
  \/ generateUniqueAgencySlug(h) \/ CreateAgencyRow(h) \/ CommitSignup(h)
  \/ listIbgeCitiesByState(h) \/ resolveIbgeCityCode(h) \/ createRecurringCheckout(h)
  \/ RenewalCommit(h)

Next ==
  \/ \E h \in Handlers : Submit(h) \/ Proceed(h) \/ Abort(h)
  \/ \E e \in Emails : HandOutLink(e)
  \/ \E f \in Fetches, outcome \in {"listed", "failed"} : EndFetch(f, outcome)
  \/ \E slug \in Slugs : createAgency(slug)
  \/ \E a \in Ids : SetActive(a) \/ \E e \in Emails : createAgencyUser(a, e)

Spec == Init /\ [][Next]_vars

-----------------------------------------------------------------------------
(* Properties. *)

TypeOK ==
  /\ agency \in [Ids -> Agency]
  /\ user \in [Emails -> Exists \cup {0}]
  /\ link \subseteq Emails
  /\ fetch \in [Fetches -> {"none", "pending", "listed", "failed"}]
  /\ cache \in [States -> {0} \cup {f \in Fetches : fetch[f] # "none"}]
  /\ issued \in 0..MaxRequests
  /\ request \in [1..issued -> Request]
  /\ conflicted \subseteq Conflict
  /\ held \in [Ids -> SUBSET (Documents \cup {NoDocument})]
  /\ task \in [Handlers -> Task]

SignedUp == {a \in Exists : request[a].kind = "signup"}

\* A sign-up leaves all of its agency or nothing: an agency it created has the
\* user it was asked for, whoever else took the slug or the e-mail meanwhile.
SignupIsWhole == \A a \in SignedUp : user[request[a].email] = a

Overlaps(m, n) == m \in request[n].beside \/ n \in request[m].beside

\* One trial for each CPF or CNPJ: two agencies signed up with the same document
\* only when the sign-ups were in flight together, both past the check, or when
\* the older one had exchanged its document in a renewal.
OneTrialPerDocument ==
  \A a, b \in SignedUp :
    /\ a < b
    /\ request[a].document = request[b].document
    => Overlaps(a, b) \/ held[a] # {request[a].document}

\* A sign-up that fails for its slug had company: the agency that has the slug,
\* whatever its own name, was created beside it, after the search had found the
\* slug free.
SlugConflictOverlapped ==
  \A c \in conflicted : \E a \in Exists :
    agency[a].slug = c.slug /\ Overlaps(a, c.request)

\* A failed call to IBGE is not remembered: the next renewal asks again, and no
\* renewal waits for a promise that had failed before it looked.
FailedLookupIsForgotten ==
  \A s \in States : cache[s] # 0 => fetch[cache[s]] # "failed"

\* What a renewal link changes is the agency of the user it was handed to, also
\* when the form names the e-mail of another user.
LinkOpensOwnAgency ==
  [][\A a \in Exists :
       agency'[a].document # agency[a].document
         => \E h \in Handlers : /\ task[h].pc = "renew" /\ task'[h].pc = "idle"
                                /\ user[Asked(h).link] = a]_agency
=============================================================================
