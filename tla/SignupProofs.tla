----------------------------- MODULE SignupProofs -----------------------------
(***************************************************************************)
(* The properties of Signup, for any number of handlers, requests, e-mails *)
(* and documents: the reads that nothing holds and the transaction that    *)
(* follows them, whatever else happens in between.                         *)
(***************************************************************************)
EXTENDS Signup, FiniteSetTheorems, WellFoundedInduction, TLAPS

USE DEF Ids, Fetches

-----------------------------------------------------------------------------
(* The strengthening. *)

\* Forms are filled in; what the superadmin asks for has no form.
RequestFits(r) ==
  r.kind # "by hand" =>
    /\ r.email \in Emails /\ r.document \in Documents /\ r.state \in States
    /\ r.kind = "signup" => r.name \in Names
RequestsFit == \A n \in 1..issued : RequestFits(request[n])

\* Of an agency that was signed up: what it has now it ever had, and so with the
\* document it was signed up with.
AgencyFits(a) ==
  /\ a <= issued
  /\ request[a].kind = "signup" =>
       /\ {request[a].document, agency[a].document} \subseteq held[a]
       /\ user[request[a].email] = a
AgenciesFit == \A a \in Exists : AgencyFits(a)

\* Past the check: who has the document signed up beside this one, or has
\* exchanged it since.
DocumentFits(n) ==
  \A a \in SignedUp :
    request[a].document = request[n].document
      => Overlaps(a, n) \/ held[a] # {request[n].document}

\* Who was asked for later and exists already came beside this one.
YoungerOverlap(n) == \A a \in Exists : n < a => Overlaps(a, n)

\* Past the search: who has the slug took it meanwhile.
SlugFits(n, slug) == \A a \in Exists : agency[a].slug = slug => Overlaps(a, n)

\* A request in flight has no agency yet, and what its handler has found so far
\* still holds.
TaskFits(t) ==
  t.pc # "idle" =>
    /\ t.request \in 1..issued /\ t.request \notin Exists
    /\ request[t.request].kind # "by hand" /\ YoungerOverlap(t.request)
    /\ t.pc \in {"document", "slug", "agency", "user"} =>
         request[t.request].kind = "signup"
    /\ t.pc \in {"slug", "agency", "user"} => DocumentFits(t.request)
    /\ t.pc \in {"agency", "user"} => t.slug \in Slugs
    /\ t.pc = "agency" => SlugFits(t.request, t.slug)
    /\ t.pc \in {"city", "cities", "checkout", "renew"} =>
         /\ request[t.request].kind = "renewal"
         /\ request[t.request].email = request[t.request].link
         /\ user[request[t.request].email] # 0
TasksFit == \A h \in Handlers : TaskFits(task[h])

\* No two handlers serve one request, and all requests in flight overlap.
TasksApart ==
  \A g, h \in Handlers :
    g # h /\ task[g].pc # "idle" /\ task[h].pc # "idle"
      => /\ task[g].request # task[h].request
         /\ Overlaps(task[g].request, task[h].request)

ConflictFits(c) ==
  /\ c.request <= issued
  /\ \E a \in Exists : agency[a].slug = c.slug /\ Overlaps(a, c.request)
ConflictsFit == \A c \in conflicted : ConflictFits(c)

\* One trial, of two agencies that were signed up.
TrialsFit(a, b) ==
  /\ a < b /\ request[a].document = request[b].document
  => Overlaps(a, b) \/ held[a] # {request[a].document}

Sound ==
  /\ TypeOK /\ RequestsFit /\ AgenciesFit /\ TasksFit /\ TasksApart /\ ConflictsFit
  /\ OneTrialPerDocument /\ FailedLookupIsForgotten

-----------------------------------------------------------------------------
(* What no step takes back.                                                *)

Grows ==
  /\ issued <= issued' /\ \A n \in 1..issued : request'[n] = request[n]
  /\ \A a \in Exists : /\ a \in Exists' /\ agency'[a].slug = agency[a].slug
                       /\ held[a] \subseteq held'[a]
  /\ \A e \in Emails : user[e] # 0 => user'[e] = user[e]

LEMMA CountTypes == TypeOK => issued \in Nat /\ MaxRequests \in Nat /\ 1..issued \subseteq Ids
<1> QED BY BoundAssumption DEF TypeOK

LEMMA NextCountType == TypeOK' => issued' \in Nat
<1> QED BY BoundAssumption DEF TypeOK

LEMMA OverlapsStay ==
  ASSUME Grows, NEW m \in 1..issued, NEW n \in 1..issued, Overlaps(m, n)
  PROVE  Overlaps(m, n)'
<1> QED BY DEF Grows, Overlaps

\* An agency that exists keeps what its sign-up left.
LEMMA AgencyStays ==
  ASSUME Sound, TypeOK', Grows, NEW a \in Exists,
         agency'[a].document \in held'[a] \/ agency'[a].document = agency[a].document
  PROVE  AgencyFits(a)'
<1>1. a <= issued /\ a \in 1..issued /\ request'[a] = request[a] /\ a # 0
  BY CountTypes DEF Sound, AgenciesFit, AgencyFits, Grows, Exists
<1>2. issued' \in Nat /\ issued <= issued' /\ issued \in Nat
  BY CountTypes, NextCountType DEF Grows, Sound
<1>3. a <= issued'
  BY <1>1, <1>2
<1>4. ASSUME request[a].kind = "signup"
      PROVE  /\ {request[a].document, agency'[a].document} \subseteq held'[a]
             /\ user'[request[a].email] = a
  <2>1. /\ {request[a].document, agency[a].document} \subseteq held[a]
        /\ user[request[a].email] = a
    BY <1>4 DEF Sound, AgenciesFit, AgencyFits
  <2>2. request[a].email \in Emails
    BY <1>1, <1>4 DEF Sound, RequestsFit, RequestFits
  <2>3. user'[request[a].email] = a
    BY <1>1, <2>1, <2>2 DEF Grows
  <2> QED BY <2>1, <2>3 DEF Grows
<1> QED BY <1>1, <1>3, <1>4 DEF AgencyFits

LEMMA ConflictStays ==
  ASSUME Sound, TypeOK', Grows, NEW c \in conflicted
  PROVE  ConflictFits(c)'
<1> DEFINE n == c.request
<1>0. c \in Conflict
  BY DEF Sound, TypeOK
<1>1. n \in Ids /\ n <= issued /\ issued \in Nat /\ issued' \in Nat /\ issued <= issued'
  BY <1>0, CountTypes, NextCountType DEF Sound, ConflictsFit, ConflictFits, Conflict, Grows
<1>2. n \in 1..issued /\ n <= issued'
  BY <1>1
<1>3. PICK a \in Exists : agency[a].slug = c.slug /\ Overlaps(a, n)
  BY DEF Sound, ConflictsFit, ConflictFits
<1>4. a \in 1..issued
  BY <1>1 DEF Sound, AgenciesFit, AgencyFits, Exists
<1>5. Overlaps(a, n)'
  BY <1>2, <1>3, <1>4, OverlapsStay
<1>6. a \in Exists' /\ agency'[a].slug = c.slug
  BY <1>3 DEF Grows
<1> QED BY <1>2, <1>5, <1>6 DEF ConflictFits, Overlaps

\* What a handler has found holds on, as long as each new agency is of a request
\* that overlaps with its own.
LEMMA TaskStays ==
  ASSUME Sound, TypeOK', Grows, NEW h \in Handlers, NEW t \in Task, TaskFits(t),
         task'[h] = t,
         \A a \in Exists' \ Exists :
           t.pc # "idle" => a # t.request /\ Overlaps(a, t.request)'
  PROVE  TaskFits(task[h])'
<1> SUFFICES ASSUME t.pc # "idle" PROVE TaskFits(task[h])'
  BY DEF TaskFits
<1> DEFINE n == t.request
<1>0. issued \in Nat /\ issued' \in Nat /\ issued <= issued'
  BY CountTypes, NextCountType DEF Grows, Sound
<1>1. /\ n \in 1..issued /\ n \notin Exists /\ issued \in Nat /\ issued' \in Nat
      /\ n \in 1..issued' /\ request'[n] = request[n]
  <2>1. n \in 1..issued /\ n \notin Exists
    BY DEF TaskFits
  <2>2. request'[n] = request[n]
    BY <2>1 DEF Grows
  <2> QED BY <1>0, <2>1, <2>2
<1>2. n \notin Exists'
  BY <1>1
<1>3. ASSUME NEW a \in Exists
      PROVE  /\ a \in 1..issued /\ request'[a] = request[a] /\ a \in Exists'
             /\ agency'[a].slug = agency[a].slug /\ held[a] \subseteq held'[a]
  BY <1>1 DEF Sound, AgenciesFit, AgencyFits, Exists, Grows
<1>4. ASSUME DocumentFits(n) PROVE DocumentFits(n)'
  <2> SUFFICES ASSUME NEW a \in Exists', request'[a].kind = "signup",
                      request'[a].document = request[n].document
               PROVE  Overlaps(a, n)' \/ held'[a] # {request[n].document}
    BY <1>1 DEF DocumentFits, SignedUp
  <2>1. CASE a \notin Exists
    BY <2>1
  <2>2. CASE a \in Exists
    <3>1. request[a].kind = "signup" /\ request[a].document = request[n].document
      BY <1>3, <2>2
    <3>2. request[a].document \in held[a]
      BY <2>2, <3>1 DEF Sound, AgenciesFit, AgencyFits
    <3>3. Overlaps(a, n) \/ held[a] # {request[n].document}
      BY <1>4, <2>2, <3>1 DEF DocumentFits, SignedUp
    <3>4. CASE Overlaps(a, n)
      BY <1>1, <1>3, <2>2, <3>4, OverlapsStay
    <3>5. CASE held[a] # {request[n].document}
      BY <1>3, <2>2, <3>1, <3>2, <3>5
    <3> QED BY <3>3, <3>4, <3>5
  <2> QED BY <2>1, <2>2
<1>5. ASSUME SlugFits(n, t.slug) PROVE SlugFits(n, t.slug)'
  <2> SUFFICES ASSUME NEW a \in Exists', agency'[a].slug = t.slug PROVE Overlaps(a, n)'
    BY DEF SlugFits
  <2>1. CASE a \in Exists
    BY <1>1, <1>3, <1>5, <2>1, OverlapsStay DEF SlugFits
  <2>2. CASE a \notin Exists
    BY <2>2
  <2> QED BY <2>1, <2>2
<1>6. YoungerOverlap(n)'
  <2> SUFFICES ASSUME NEW a \in Exists', n < a PROVE Overlaps(a, n)'
    BY DEF YoungerOverlap
  <2>1. CASE a \in Exists
    BY <1>1, <1>3, <2>1, OverlapsStay DEF TaskFits, YoungerOverlap
  <2>2. CASE a \notin Exists
    BY <2>2
  <2> QED BY <2>1, <2>2
<1>7. ASSUME request[n].kind = "renewal", user[request[n].email] # 0
      PROVE  user'[request[n].email] # 0
  BY <1>1, <1>7 DEF Sound, RequestsFit, RequestFits, Grows
<1>8. /\ request[n].kind # "by hand" /\ YoungerOverlap(n)'
      /\ t.pc \in {"document", "slug", "agency", "user"} => request[n].kind = "signup"
      /\ t.pc \in {"slug", "agency", "user"} => DocumentFits(n)'
      /\ t.pc \in {"agency", "user"} => t.slug \in Slugs
      /\ t.pc = "agency" => SlugFits(n, t.slug)'
      /\ t.pc \in {"city", "cities", "checkout", "renew"} =>
           /\ request[n].kind = "renewal" /\ request[n].email = request[n].link
           /\ user'[request[n].email] # 0
  BY <1>4, <1>5, <1>7, <1>6 DEF TaskFits
<1> QED BY <1>1, <1>2, <1>8
  DEF TaskFits, DocumentFits, YoungerOverlap, SlugFits, SignedUp, Overlaps

\* Two agencies that exist stay a pair within the rule.
LEMMA TrialsStay ==
  ASSUME Sound, TypeOK', Grows, NEW a \in Exists, NEW b \in Exists,
         request'[a].kind = "signup", request'[b].kind = "signup"
  PROVE  TrialsFit(a, b)'
<1>1. /\ a \in 1..issued /\ request'[a] = request[a] /\ held[a] \subseteq held'[a]
      /\ b \in 1..issued /\ request'[b] = request[b]
  BY CountTypes DEF Sound, AgenciesFit, AgencyFits, Exists, Grows
<1>2. a \in SignedUp /\ b \in SignedUp /\ request[a].document \in held[a]
  BY <1>1 DEF SignedUp, Sound, AgenciesFit, AgencyFits
<1>3. TrialsFit(a, b)
  BY <1>2 DEF Sound, OneTrialPerDocument, TrialsFit
<1>4. Overlaps(a, b) => Overlaps(a, b)'
  BY <1>1, OverlapsStay
<1>5. held[a] # {request[a].document} => held'[a] # {request[a].document}
  BY <1>1, <1>2
<1> QED BY <1>1, <1>3, <1>4, <1>5 DEF TrialsFit

-----------------------------------------------------------------------------
(* Steps that leave the tables alone.                                      *)

PromisesOK ==
  /\ fetch \in [Fetches -> {"none", "pending", "listed", "failed"}]
  /\ cache \in [States -> {0} \cup {f \in Fetches : fetch[f] # "none"}]
  /\ FailedLookupIsForgotten

LEMMA QuietSound ==
  ASSUME Sound, NEW h \in Handlers, NEW t \in Task,
         task[h].pc # "idle", t.pc = "idle" \/ t.request = task[h].request,
         TaskFits(t), task' = [task EXCEPT ![h] = t],
         UNCHANGED <<tables, link, request, issued>>, PromisesOK',
         conflicted' \subseteq Conflict, \A c \in conflicted' : ConflictFits(c)
  PROVE  Sound'
<1>1. UNCHANGED <<agency, user, held>> /\ Exists' = Exists
  BY DEF tables, Exists
<1>2. TypeOK'
  BY <1>1 DEF Sound, TypeOK, PromisesOK
<1>3. Grows
  BY <1>1, CountTypes DEF Grows, Sound
<1>4. RequestsFit' /\ FailedLookupIsForgotten'
  BY DEF Sound, RequestsFit, PromisesOK
<1>5. AgenciesFit'
  BY <1>1, <1>2, <1>3, AgencyStays DEF AgenciesFit
<1>6. TasksFit'
  <2> SUFFICES ASSUME NEW g \in Handlers PROVE TaskFits(task[g])'
    BY DEF TasksFit
  <2>1. PICK u \in Task : u = task'[g] /\ TaskFits(u)
    BY DEF Sound, TypeOK, TasksFit
  <2> QED BY <1>1, <1>2, <1>3, <2>1, TaskStays
<1>7. TasksApart'
  <2> SUFFICES ASSUME NEW f \in Handlers, NEW g \in Handlers, f # g,
                      task'[f].pc # "idle", task'[g].pc # "idle"
               PROVE  /\ task'[f].request # task'[g].request
                      /\ Overlaps(task[f].request, task[g].request)'
    BY DEF TasksApart
  <2>1. ASSUME NEW e \in Handlers, task'[e].pc # "idle"
        PROVE  task[e].pc # "idle" /\ task'[e].request = task[e].request
    BY <2>1 DEF Sound, TypeOK
  <2>2. /\ task[f].request # task[g].request
        /\ Overlaps(task[f].request, task[g].request)
    BY <2>1 DEF Sound, TasksApart
  <2> QED BY <2>1, <2>2 DEF Overlaps
<1>8. ConflictsFit'
  BY <1>1 DEF ConflictsFit, ConflictFits, Overlaps
<1>9. OneTrialPerDocument'
  BY <1>1 DEF Sound, OneTrialPerDocument, SignedUp, Overlaps
<1> QED BY <1>2, <1>4, <1>5, <1>6, <1>7, <1>8, <1>9 DEF Sound

-----------------------------------------------------------------------------
(* Steps that change a table.                                              *)

\* A handler goes on as it was or ends; a new agency is of a request that
\* overlaps with all that are in flight.
LEMMA GrowthSound ==
  ASSUME Sound, TypeOK', Grows, RequestsFit', FailedLookupIsForgotten',
         conflicted' = conflicted,
         \A a \in Exists :
           agency'[a].document \in held'[a] \/ agency'[a].document = agency[a].document,
         \A a \in Exists' \ Exists : AgencyFits(a)',
         \A a \in Exists' \ Exists, b \in Exists' :
           request'[a].kind = "signup" /\ request'[b].kind = "signup"
             => TrialsFit(a, b)' /\ TrialsFit(b, a)',
         \A h \in Handlers : task'[h] = task[h] \/ task'[h].pc = "idle",
         \A h \in Handlers, a \in Exists' \ Exists :
           task'[h].pc # "idle"
             => a # task[h].request /\ Overlaps(a, task[h].request)'
  PROVE  Sound'
<1>1. AgenciesFit'
  <2> SUFFICES ASSUME NEW a \in Exists' PROVE AgencyFits(a)'
    BY DEF AgenciesFit
  <2> QED BY AgencyStays
<1>2. ASSUME NEW h \in Handlers, task'[h].pc # "idle"
      PROVE  /\ task'[h] = task[h] /\ task[h] \in Task /\ TaskFits(task[h])
             /\ task[h].request \in 1..issued
  BY <1>2 DEF Sound, TypeOK, TasksFit, TaskFits
<1>3. TasksFit'
  <2> SUFFICES ASSUME NEW h \in Handlers, task'[h].pc # "idle" PROVE TaskFits(task[h])'
    BY DEF TasksFit, TaskFits
  <2>1. PICK t \in Task : t = task'[h] /\ TaskFits(t) /\ t = task[h]
    BY <1>2
  <2>2. \A a \in Exists' \ Exists : a # t.request /\ Overlaps(a, t.request)'
    BY <2>1 DEF Overlaps
  <2> QED BY <2>1, <2>2, TaskStays
<1>4. TasksApart'
  <2> SUFFICES ASSUME NEW f \in Handlers, NEW g \in Handlers, f # g,
                      task'[f].pc # "idle", task'[g].pc # "idle"
               PROVE  /\ task'[f].request # task'[g].request
                      /\ Overlaps(task[f].request, task[g].request)'
    BY DEF TasksApart
  <2>1. PICK m \in 1..issued, n \in 1..issued :
          m = task'[f].request /\ n = task'[g].request /\ m # n /\ Overlaps(m, n)
    BY <1>2 DEF Sound, TasksApart
  <2>2. Overlaps(m, n)'
    BY <2>1, OverlapsStay
  <2> QED BY <2>1, <2>2 DEF Overlaps
<1>5. ConflictsFit'
  <2> SUFFICES ASSUME NEW n \in conflicted' PROVE ConflictFits(n)'
    BY DEF ConflictsFit
  <2> QED BY ConflictStays
<1>6. OneTrialPerDocument'
  <2> SUFFICES ASSUME NEW a \in Exists', NEW b \in Exists',
                      request'[a].kind = "signup", request'[b].kind = "signup"
               PROVE  TrialsFit(a, b)'
    BY DEF OneTrialPerDocument, SignedUp, TrialsFit
  <2>1. CASE a \in Exists /\ b \in Exists
    BY <2>1, TrialsStay
  <2>2. CASE a \notin Exists \/ b \notin Exists
    BY <2>2
  <2> QED BY <2>1, <2>2
<1> QED BY <1>1, <1>3, <1>4, <1>5, <1>6 DEF Sound

LEMMA HandOutLinkSound ==
  ASSUME Sound, NEW e \in Emails, HandOutLink(e)
  PROVE  Sound'
<1>1. /\ UNCHANGED <<agency, user, held, cache, fetch, request, conflicted, issued, task>>
      /\ link' = link \cup {e} /\ Exists' = Exists
  BY DEF HandOutLink, tables, promises, Exists
<1>2. TypeOK' /\ Grows /\ RequestsFit' /\ FailedLookupIsForgotten'
  BY <1>1, CountTypes DEF Sound, TypeOK, Grows, RequestsFit, FailedLookupIsForgotten
<1> QED BY <1>1, <1>2, GrowthSound

LEMMA EndFetchSound ==
  ASSUME Sound, NEW f \in Fetches, NEW outcome \in {"listed", "failed"}, EndFetch(f, outcome)
  PROVE  Sound'
<1>1. /\ UNCHANGED <<agency, user, held, link, request, conflicted, issued, task>>
      /\ Exists' = Exists
  BY DEF EndFetch, tables, Exists
<1>2. /\ fetch \in [Fetches -> {"none", "pending", "listed", "failed"}]
      /\ cache \in [States -> {0} \cup {g \in Fetches : fetch[g] # "none"}]
      /\ fetch' = [fetch EXCEPT ![f] = outcome] /\ f # 0
  BY BoundAssumption DEF EndFetch, Sound, TypeOK
<1>3. PromisesOK'
  <2>1. fetch' \in [Fetches -> {"none", "pending", "listed", "failed"}]
    BY <1>2
  <2>2. CASE outcome = "failed"
    BY <1>2, <2>1, <2>2
    DEF EndFetch, Forgotten, PromisesOK, Sound, FailedLookupIsForgotten
  <2>3. CASE outcome = "listed"
    BY <1>2, <2>1, <2>3 DEF EndFetch, PromisesOK, Sound, FailedLookupIsForgotten
  <2> QED BY <2>2, <2>3
<1>4. TypeOK' /\ Grows /\ RequestsFit' /\ FailedLookupIsForgotten'
  BY <1>1, <1>3, CountTypes DEF Sound, TypeOK, Grows, RequestsFit, PromisesOK
<1> QED BY <1>1, <1>4, GrowthSound

LEMMA SetActiveSound ==
  ASSUME Sound, NEW a \in Ids, SetActive(a)
  PROVE  Sound'
<1>1. /\ UNCHANGED <<user, held, link, cache, fetch, request, conflicted, issued, task>>
      /\ agency \in [Ids -> Agency]
      /\ agency' = [agency EXCEPT ![a].isActive = ~agency[a].isActive]
  BY DEF SetActive, promises, Sound, TypeOK
<1>2. agency' \in [Ids -> Agency]
  BY <1>1 DEF Agency
<1>3. /\ Exists' = Exists
      /\ \A b \in Ids : /\ agency'[b].slug = agency[b].slug
                        /\ agency'[b].document = agency[b].document
  BY <1>1 DEF Exists, Agency
<1>4. TypeOK' /\ Grows /\ RequestsFit' /\ FailedLookupIsForgotten'
  BY <1>1, <1>2, <1>3, CountTypes
  DEF Sound, TypeOK, Grows, RequestsFit, FailedLookupIsForgotten, Exists
<1> QED BY <1>1, <1>3, <1>4, GrowthSound DEF Exists

LEMMA CreateAgencyUserSound ==
  ASSUME Sound, NEW a \in Ids, NEW e \in Emails, createAgencyUser(a, e)
  PROVE  Sound'
<1>1. /\ UNCHANGED <<agency, held, link, cache, fetch, request, conflicted, issued, task>>
      /\ Exists' = Exists /\ a \in Exists
      /\ user[e] = 0 /\ user' = [user EXCEPT ![e] = a]
  BY DEF createAgencyUser, promises, Exists
<1>2. TypeOK' /\ RequestsFit' /\ FailedLookupIsForgotten'
  BY <1>1 DEF Sound, TypeOK, RequestsFit, FailedLookupIsForgotten
<1>3. Grows
  BY <1>1, CountTypes DEF Grows, Sound, TypeOK
<1> QED BY <1>1, <1>2, <1>3, GrowthSound

-----------------------------------------------------------------------------
(* A request begins.                                                       *)

LEMMA InFlightType == Sound => InFlight \subseteq 1..issued /\ InFlight \subseteq Ids
<1> QED BY CountTypes DEF Sound, InFlight, TasksFit, TaskFits

\* A new request has a number of its own and knows all that are in flight.
LEMMA Begun ==
  ASSUME Sound, NEW asked \in Request, asked.beside = InFlight, RequestFits(asked),
         Begin(asked)
  PROVE  /\ issued' = issued + 1 /\ issued' \in Ids /\ issued' \in 0..MaxRequests
         /\ request' \in [1..issued' -> Request]
         /\ request'[issued + 1] = asked
         /\ \A n \in 1..issued : request'[n] = request[n]
         /\ RequestsFit'
         /\ issued + 1 \notin Exists
         /\ \A h \in Handlers :
              task[h].pc # "idle" =>
                /\ task[h].request # issued + 1 /\ task[h].request \in 1..issued
                /\ task[h].request \in request'[issued + 1].beside
<1>1. issued \in Nat /\ MaxRequests \in Nat /\ issued < MaxRequests /\ issued' = issued + 1
  BY CountTypes DEF Begin, Sound
<1>2. request' = [n \in 1..(issued + 1) |-> IF n <= issued THEN request[n] ELSE asked]
  BY <1>1 DEF Begin
<1>3. /\ request'[issued + 1] = asked
      /\ \A n \in 1..issued : request'[n] = request[n] /\ n \in 1..(issued + 1)
  BY <1>1, <1>2
<1>4. request' \in [1..(issued + 1) -> Request]
  <2>1. request \in [1..issued -> Request]
    BY DEF Sound, TypeOK
  <2> QED BY <1>1, <1>2, <2>1
<1>5. RequestsFit'
  <2> SUFFICES ASSUME NEW n \in 1..(issued + 1) PROVE RequestFits(request[n])'
    BY <1>1 DEF RequestsFit
  <2>1. CASE n = issued + 1
    BY <1>3, <2>1 DEF RequestFits
  <2>2. CASE n \in 1..issued
    BY <1>3, <2>2 DEF RequestFits, RequestsFit, Sound
  <2> QED BY <1>1, <2>1, <2>2
<1>6. issued + 1 \notin Exists
  BY <1>1 DEF Sound, AgenciesFit, AgencyFits
<1>7. ASSUME NEW h \in Handlers, task[h].pc # "idle"
      PROVE  task[h].request \in 1..issued /\ task[h].request \in InFlight
  BY <1>7 DEF Sound, TasksFit, TaskFits, InFlight
<1> QED BY <1>1, <1>3, <1>4, <1>5, <1>6, <1>7

LEMMA SubmitSound ==
  ASSUME Sound, NEW h \in Handlers, NEW l \in Emails \cup {NoEmail}, NEW e \in Emails,
         NEW d \in Documents, NEW m \in Names, NEW s \in States,
         createAgencySignup(h, l, e, d, m, s)
  PROVE  Sound'
<1> DEFINE n == issued + 1
           asked == [kind |-> IF l = NoEmail THEN "signup" ELSE "renewal", link |-> l,
                     email |-> e, document |-> d, state |-> s,
                     name |-> IF l = NoEmail THEN m ELSE NoName,
                     beside |-> InFlight]
           t == [Idle EXCEPT !.pc = "address", !.request = n]
<1>1. /\ UNCHANGED <<agency, user, held, link, cache, fetch, conflicted>> /\ Exists' = Exists
      /\ task[h].pc = "idle" /\ task' = [task EXCEPT ![h] = t] /\ Begin(asked)
  BY DEF createAgencySignup, tables, promises, Exists
<1>2. asked \in Request /\ RequestFits(asked) /\ asked.beside = InFlight
      /\ asked.kind \in {"signup", "renewal"}
  BY InFlightType DEF Request, RequestFits
<1> HIDE DEF asked
<1>3. /\ issued' = n /\ issued' \in Ids /\ issued' \in 0..MaxRequests
      /\ request' \in [1..issued' -> Request]
      /\ request'[n] = asked
      /\ \A o \in 1..issued : request'[o] = request[o]
      /\ RequestsFit'
      /\ n \notin Exists
      /\ \A g \in Handlers :
           task[g].pc # "idle" =>
             /\ task[g].request # n /\ task[g].request \in 1..issued
             /\ task[g].request \in request'[n].beside
  BY <1>1, <1>2, Begun
<1>4. t \in Task /\ t.pc = "address" /\ t.request = n
  <2>1. n \in 0..MaxRequests /\ 0 \in 0..MaxFetches
    BY <1>3, BoundAssumption
  <2> QED BY <2>1 DEF Task, Idle
<1> HIDE DEF t
<1>5. TypeOK'
  BY <1>1, <1>3, <1>4 DEF Sound, TypeOK
<1>6. Grows
  BY <1>1, <1>3, CountTypes DEF Grows, Sound
<1>7. AgenciesFit' /\ FailedLookupIsForgotten'
  BY <1>1, <1>5, <1>6, AgencyStays DEF AgenciesFit, Sound, FailedLookupIsForgotten
<1>8. TasksFit'
  <2> SUFFICES ASSUME NEW g \in Handlers PROVE TaskFits(task[g])'
    BY DEF TasksFit
  <2>1. CASE g = h
    <3>1. task'[g] = t
      BY <1>1, <2>1 DEF Sound, TypeOK
    <3>2. n \in 1..n /\ n \notin Exists' /\ \A a \in Exists' : ~(n < a)
      BY <1>1, <1>3, CountTypes DEF Sound, AgenciesFit, AgencyFits, Exists
    <3> QED BY <1>2, <1>3, <1>4, <3>1, <3>2 DEF TaskFits, YoungerOverlap
  <2>2. CASE g # h
    <3>1. PICK u \in Task : u = task'[g] /\ TaskFits(u)
      BY <1>1, <2>2 DEF Sound, TypeOK, TasksFit
    <3> QED BY <1>1, <1>5, <1>6, <3>1, TaskStays
  <2> QED BY <2>1, <2>2
<1>9. TasksApart'
  <2>1. ASSUME NEW g \in Handlers, g # h
        PROVE  task'[g] = task[g] /\ task'[h] = t
    BY <1>1, <2>1 DEF Sound, TypeOK
  <2> SUFFICES ASSUME NEW f \in Handlers, NEW g \in Handlers, f # g,
                      task'[f].pc # "idle", task'[g].pc # "idle"
               PROVE  /\ task'[f].request # task'[g].request
                      /\ Overlaps(task[f].request, task[g].request)'
    BY DEF TasksApart
  <2>2. CASE f = h
    BY <1>3, <1>4, <2>1, <2>2 DEF Overlaps
  <2>3. CASE g = h
    BY <1>3, <1>4, <2>1, <2>3 DEF Overlaps
  <2>4. CASE f # h /\ g # h
    BY <1>3, <2>1, <2>4 DEF Sound, TasksApart, Overlaps
  <2> QED BY <2>2, <2>3, <2>4
<1>10. ConflictsFit'
  <2> SUFFICES ASSUME NEW c \in conflicted PROVE ConflictFits(c)'
    BY <1>1 DEF ConflictsFit
  <2> QED BY <1>5, <1>6, ConflictStays
<1>11. OneTrialPerDocument'
  <2> SUFFICES ASSUME NEW a \in Exists, NEW b \in Exists,
                      request'[a].kind = "signup", request'[b].kind = "signup"
               PROVE  TrialsFit(a, b)'
    BY <1>1 DEF OneTrialPerDocument, SignedUp, TrialsFit
  <2> QED BY <1>5, <1>6, TrialsStay
<1> QED BY <1>3, <1>5, <1>7, <1>8, <1>9, <1>10, <1>11 DEF Sound

\* An agency is inserted for a request that has none.
LEMMA InsertTypes ==
  ASSUME TypeOK, NEW n \in Ids, NEW slug \in Slugs \cup {NoSlug},
         NEW d \in Documents \cup {NoDocument}, InsertAgency(n, slug, d)
  PROVE  /\ agency' \in [Ids -> Agency]
         /\ held' \in [Ids -> SUBSET (Documents \cup {NoDocument})]
         /\ agency'[n].exists /\ agency'[n].slug = slug /\ agency'[n].document = d
         /\ held'[n] = {d}
         /\ \A a \in Ids \ {n} : agency'[a] = agency[a] /\ held'[a] = held[a]
         /\ Exists' = Exists \cup {n}
<1> DEFINE new == [exists |-> TRUE, slug |-> slug, document |-> d, isActive |-> TRUE]
<1>1. new \in Agency /\ new.exists /\ new.slug = slug /\ new.document = d
  BY DEF Agency
<1>2. agency' = [agency EXCEPT ![n] = new] /\ held' = [held EXCEPT ![n] = {d}]
  BY DEF InsertAgency
<1> HIDE DEF new
<1>3. /\ agency \in [Ids -> Agency]
      /\ held \in [Ids -> SUBSET (Documents \cup {NoDocument})]
  BY DEF TypeOK
<1> QED BY <1>1, <1>2, <1>3 DEF Exists

LEMMA CreateAgencySound ==
  ASSUME Sound, NEW slug \in Slugs, createAgency(slug)
  PROVE  Sound'
<1>0. PICK n : n = issued + 1
  OBVIOUS
<1> DEFINE asked == [kind |-> "by hand", link |-> NoEmail, email |-> NoEmail,
                     document |-> NoDocument, name |-> NoName, state |-> NoState,
                     beside |-> InFlight]
<1>1. /\ UNCHANGED <<user, link, cache, fetch, conflicted, task>>
      /\ Begin(asked) /\ InsertAgency(n, slug, NoDocument)
  BY <1>0 DEF createAgency, promises
<1>2. asked \in Request /\ RequestFits(asked) /\ asked.beside = InFlight
      /\ asked.kind = "by hand"
  BY InFlightType DEF Request, RequestFits
<1> HIDE DEF asked
<1>3. /\ issued' = n /\ n \in Ids /\ issued' \in 0..MaxRequests
      /\ request' \in [1..issued' -> Request]
      /\ request'[n] = asked
      /\ \A o \in 1..issued : request'[o] = request[o]
      /\ RequestsFit'
      /\ n \notin Exists
      /\ \A g \in Handlers :
           task[g].pc # "idle" =>
             /\ task[g].request # n /\ task[g].request \in 1..issued
             /\ task[g].request \in request'[n].beside
  BY <1>0, <1>1, <1>2, Begun
<1>4. /\ agency' \in [Ids -> Agency]
      /\ held' \in [Ids -> SUBSET (Documents \cup {NoDocument})]
      /\ agency'[n].exists
      /\ \A a \in Ids \ {n} : agency'[a] = agency[a] /\ held'[a] = held[a]
      /\ Exists' = Exists \cup {n}
  BY <1>1, <1>3, InsertTypes DEF Sound
<1>5. TypeOK'
  BY <1>1, <1>3, <1>4 DEF Sound, TypeOK
<1>6. Grows
  <2>1. issued <= issued'
    BY <1>0, <1>3, CountTypes DEF Sound
  <2>2. ASSUME NEW a \in Exists
        PROVE  a \in Exists' /\ agency'[a].slug = agency[a].slug /\ held[a] \subseteq held'[a]
    <3>1. a \in Ids \ {n}
      BY <1>3 DEF Exists
    <3> QED BY <1>4, <3>1
  <2> QED BY <1>1, <1>3, <2>1, <2>2 DEF Grows
<1>7. AgencyFits(n)'
  <2>1. request'[n].kind # "signup"
    BY <1>2, <1>3
  <2>2. n <= issued'
    BY <1>0, <1>3
  <2> QED BY <2>1, <2>2 DEF AgencyFits
<1>8. \A h \in Handlers, a \in Exists' \ Exists :
        task'[h].pc # "idle" => a # task[h].request /\ Overlaps(a, task[h].request)'
  BY <1>1, <1>3, <1>4 DEF Overlaps
<1>9. \A a \in Exists' \ Exists : AgencyFits(a)'
  BY <1>4, <1>7
<1>10. FailedLookupIsForgotten'
  BY <1>1 DEF Sound, FailedLookupIsForgotten
<1>11. \A a \in Exists : agency'[a].document = agency[a].document
  BY <1>3, <1>4 DEF Exists
<1>12. \A a \in Exists' \ Exists : request'[a].kind = "by hand"
  BY <1>2, <1>3, <1>4
<1> QED BY <1>1, <1>3, <1>5, <1>6, <1>8, <1>9, <1>10, <1>11, <1>12, GrowthSound

-----------------------------------------------------------------------------
(* The steps of a sign-up.                                                 *)

\* What is known of a handler in flight.
LEMMA TaskTypes ==
  ASSUME Sound, NEW h \in Handlers, task[h].pc # "idle"
  PROVE  /\ task[h] \in Task /\ TaskFits(task[h]) /\ Asked(h) \in Request
         /\ Asked(h).email \in Emails /\ Asked(h).document \in Documents
         /\ Asked(h).kind = "signup" => Asked(h).name \in Names
         /\ Asked(h).state \in States
         /\ task[h].request \in Ids /\ task[h].request \in 1..issued
         /\ task[h].request \notin Exists
<1>1. task[h] \in Task /\ TaskFits(task[h])
  BY DEF Sound, TypeOK, TasksFit
<1>2. task[h].request \in 1..issued /\ task[h].request \in Ids /\ task[h].request \notin Exists
  BY <1>1, CountTypes DEF TaskFits, Sound
<1>3. Asked(h) \in Request /\ RequestFits(Asked(h)) /\ Asked(h).kind # "by hand"
  BY <1>1, <1>2 DEF Sound, TypeOK, Asked, TaskFits, RequestsFit
<1> QED BY <1>1, <1>2, <1>3 DEF RequestFits

LEMMA PromisesStay ==
  ASSUME Sound, UNCHANGED promises
  PROVE  PromisesOK'
<1> QED BY DEF Sound, TypeOK, PromisesOK, promises, FailedLookupIsForgotten

LEMMA ConflictsStay ==
  ASSUME Sound, UNCHANGED conflicted
  PROVE  conflicted' \subseteq Conflict /\ \A c \in conflicted' : ConflictFits(c)
<1> QED BY DEF Sound, TypeOK, ConflictsFit

\* A handler ends.
LEMMA FinishSound ==
  ASSUME Sound, NEW h \in Handlers, task[h].pc # "idle", Finish(h),
         UNCHANGED <<tables, link, promises, request, issued>>,
         conflicted' \subseteq Conflict, \A c \in conflicted' : ConflictFits(c)
  PROVE  Sound'
<1>1. Idle \in Task /\ Idle.pc = "idle"
  BY BoundAssumption DEF Idle, Task
<1>2. TaskFits(Idle)
  BY <1>1 DEF TaskFits
<1> QED BY <1>1, <1>2, PromisesStay, QuietSound DEF Finish

\* A handler goes on to a step that asks for nothing it has not found.
LEMMA ContinueSound ==
  ASSUME Sound, NEW h \in Handlers, task[h].pc # "idle",
         NEW pc \in {"email", "document", "slug", "user", "city", "checkout", "renew"},
         Continue(h, pc),
         UNCHANGED <<tables, link, promises, request, issued, conflicted>>,
         pc \in {"document", "slug", "user"} => Asked(h).kind = "signup",
         pc \in {"slug", "user"} => DocumentFits(task[h].request),
         pc = "user" => task[h].pc = "agency",
         pc \in {"city", "checkout", "renew"} =>
           /\ Asked(h).kind = "renewal" /\ Asked(h).email = Asked(h).link
           /\ user[Asked(h).email] # 0
  PROVE  Sound'
<1> DEFINE t == [task[h] EXCEPT !.pc = pc]
<1>1. task[h] \in Task /\ TaskFits(task[h])
  BY TaskTypes
<1>2. t \in Task /\ t.pc = pc /\ t.request = task[h].request /\ t.slug = task[h].slug
  BY <1>1 DEF Task
<1>3. task' = [task EXCEPT ![h] = t]
  BY DEF Continue
<1> HIDE DEF t
<1>4. TaskFits(t)
  BY <1>1, <1>2 DEF TaskFits, Asked
<1> QED BY <1>2, <1>3, <1>4, PromisesStay, ConflictsStay, QuietSound

LEMMA AddressSound ==
  ASSUME Sound, NEW h \in Handlers, normalizeSignupAddress(h)
  PROVE  Sound'
<1>1. /\ task[h].pc = "address"
      /\ Finish(h) \/ Continue(h, "email")
      /\ UNCHANGED <<tables, link, promises, request, issued, conflicted>>
  BY DEF normalizeSignupAddress
<1>2. CASE Finish(h)
  BY <1>1, <1>2, ConflictsStay, FinishSound
<1>3. CASE Continue(h, "email")
  BY <1>1, <1>3, ContinueSound
<1> QED BY <1>1, <1>2, <1>3

\* Only the user of the link gets past the e-mail in a renewal.
LEMMA FindUserSound ==
  ASSUME Sound, NEW h \in Handlers, FindUser(h)
  PROVE  Sound'
<1>1. /\ task[h].pc = "email"
      /\ UNCHANGED <<tables, link, promises, request, issued, conflicted>>
  BY DEF FindUser
<1>2. CASE EmailRefused(h)
  <2>1. Finish(h)
    BY <1>2 DEF FindUser
  <2> QED BY <1>1, <2>1, ConflictsStay, FinishSound
<1>3. CASE ~EmailRefused(h) /\ Asked(h).kind = "renewal"
  <2>1. Continue(h, "city") /\ LinkOfUser(h)
    BY <1>3 DEF FindUser, EmailRefused
  <2> QED BY <1>1, <1>3, <2>1, ContinueSound DEF LinkOfUser
<1>4. CASE ~EmailRefused(h) /\ Asked(h).kind # "renewal"
  <2>1. Continue(h, "document")
    BY <1>4 DEF FindUser
  <2>2. Asked(h).kind = "signup"
    BY <1>1, <1>4, TaskTypes DEF Request, TaskFits, Asked
  <2> QED BY <1>1, <2>1, <2>2, ContinueSound
<1> QED BY <1>2, <1>3, <1>4

\* No agency has the document: those that were signed up with it have another.
LEMMA FindDocumentSound ==
  ASSUME Sound, NEW h \in Handlers, FindDocument(h)
  PROVE  Sound'
<1>1. /\ task[h].pc = "document"
      /\ UNCHANGED <<tables, link, promises, request, issued, conflicted>>
  BY DEF FindDocument
<1>2. CASE DocumentIsKnown(Asked(h).document)
  <2>1. Finish(h)
    BY <1>2 DEF FindDocument
  <2> QED BY <1>1, <2>1, ConflictsStay, FinishSound
<1>3. CASE ~DocumentIsKnown(Asked(h).document)
  <2>1. Continue(h, "slug")
    BY <1>3 DEF FindDocument
  <2>2. Asked(h).kind = "signup"
    BY <1>1, TaskTypes DEF TaskFits, Asked
  <2>3. DocumentFits(task[h].request)
    <3> SUFFICES ASSUME NEW a \in SignedUp,
                        request[a].document = Asked(h).document
                 PROVE  held[a] # {Asked(h).document}
      BY DEF DocumentFits, Asked
    <3>1. agency[a].document # Asked(h).document
      BY <1>3 DEF DocumentIsKnown, SignedUp
    <3>2. agency[a].document \in held[a]
      BY DEF SignedUp, Sound, AgenciesFit, AgencyFits
    <3> QED BY <3>1, <3>2
  <2> QED BY <1>1, <2>1, <2>2, <2>3, ContinueSound
<1> QED BY <1>2, <1>3

-----------------------------------------------------------------------------
(* The search for a slug.                                                  *)

\* There are more texts for a name than agencies.
LEMMA SomeSlugIsFree ==
  ASSUME TypeOK, NEW name \in Names
  PROVE  \E k \in 1..(MaxRequests + 1) : ~SlugIsTaken(SlugText[name][k])
<1> SUFFICES ASSUME \A k \in 1..(MaxRequests + 1) : SlugIsTaken(SlugText[name][k])
             PROVE  FALSE
  OBVIOUS
<1> DEFINE S == 1..(MaxRequests + 1)
           f == [k \in S |-> CHOOSE a \in Exists : agency[a].slug = SlugText[name][k]]
<1>1. \A k \in S : f[k] \in Ids /\ agency[f[k]].slug = SlugText[name][k]
  BY DEF SlugIsTaken, Exists
<1>2. f \in [S -> Ids]
  BY <1>1
<1>3. /\ IsFiniteSet(S) /\ IsFiniteSet(Ids)
      /\ Cardinality(Ids) < Cardinality(S)
  BY BoundAssumption, FS_Interval, SMTT(30)
<1> HIDE DEF f, S
<1>4. PICK x \in S, y \in S : x # y /\ f[x] = f[y]
  BY <1>2, <1>3, FS_PigeonHole
<1>5. SlugText[name][x] = SlugText[name][y]
  BY <1>1, <1>4
<1> QED BY <1>4, <1>5, SlugTextAssumption DEF S

\* Of the numbers of some set of them one is the smallest.
LEMMA SmallestNumber ==
  ASSUME NEW T, T \subseteq Nat, T # {}
  PROVE  \E k \in T : \A j \in T : k <= j
<1> DEFINE Below == {1..k : k \in T}
<1>1. Below \subseteq FiniteSubsetsOf(Nat) /\ Below # {}
  <2>1. ASSUME NEW k \in T PROVE 1..k \subseteq Nat /\ IsFiniteSet(1..k)
    BY FS_Interval
  <2> QED BY <2>1 DEF FiniteSubsetsOf
<1>2. PICK B \in Below : \A C \in Below : ~(<<C, B>> \in StrictSubsetOrdering(Nat))
  BY <1>1, FS_StrictSubsetOrderingWellFounded, WFMin
<1>3. PICK k \in T : B = 1..k
  OBVIOUS
<1>4. ASSUME NEW j \in T, j < k PROVE FALSE
  <2>1. 1..j \in Below /\ 1..j \subseteq 1..k /\ k \in 1..k /\ k \notin 1..j
    BY <1>4
  <2>2. <<1..j, 1..k>> \in StrictSubsetOrdering(Nat)
    BY <2>1 DEF StrictSubsetOrdering
  <2> QED BY <1>2, <1>3, <2>1, <2>2
<1> QED BY <1>4

\* generateUniqueAgencySlug finds a text that no agency has.
LEMMA FreeSlugIsFree ==
  ASSUME TypeOK, NEW name \in Names
  PROVE  FreeSlug(name) \in Slugs /\ ~SlugIsTaken(FreeSlug(name))
<1> DEFINE T == {k \in 1..(MaxRequests + 1) : ~SlugIsTaken(SlugText[name][k])}
           first == CHOOSE k \in T : \A j \in T : k <= j
<1>1. T \subseteq Nat /\ T # {}
  BY SomeSlugIsFree
<1>2. PICK k \in T : \A j \in T : k <= j
  BY <1>1, SmallestNumber
<1>3. first \in T
  BY <1>2
<1>4. FreeSlug(name) = SlugText[name][first]
  BY DEF FreeSlug
<1> HIDE DEF first
<1>5. SlugText[name][first] \in Slugs /\ ~SlugIsTaken(SlugText[name][first])
  BY <1>3, SlugTextAssumption
<1> QED BY <1>4, <1>5

LEMMA SlugSearchSound ==
  ASSUME Sound, NEW h \in Handlers, generateUniqueAgencySlug(h)
  PROVE  Sound'
<1> DEFINE slug == FreeSlug(Asked(h).name)
           t == [task[h] EXCEPT !.pc = "agency", !.slug = slug]
<1>1. /\ task[h].pc = "slug" /\ task \in [Handlers -> Task]
      /\ UNCHANGED <<tables, link, promises, request, issued, conflicted>>
      /\ task' = [task EXCEPT ![h].pc = "agency", ![h].slug = slug]
  BY DEF generateUniqueAgencySlug, Sound, TypeOK
<1>2. slug \in Slugs /\ ~SlugIsTaken(slug)
  BY <1>1, TaskTypes, FreeSlugIsFree DEF Sound, TaskFits, Asked
<1> HIDE DEF slug
<1>3. task[h] \in Task /\ TaskFits(task[h])
  BY <1>1, TaskTypes
<1>4. /\ t \in Task /\ t.pc = "agency" /\ t.request = task[h].request /\ t.slug = slug
      /\ task' = [task EXCEPT ![h] = t]
  BY <1>1, <1>2, <1>3 DEF Task
<1> HIDE DEF t
<1>5. SlugFits(t.request, t.slug)
  BY <1>2, <1>4 DEF SlugFits, SlugIsTaken
<1>6. TaskFits(t)
  BY <1>1, <1>2, <1>3, <1>4, <1>5 DEF TaskFits, Asked
<1> QED BY <1>1, <1>4, <1>6, PromisesStay, ConflictsStay, QuietSound

-----------------------------------------------------------------------------
(* The transaction.                                                        *)

\* A taken slug is of an agency that came beside this request.
LEMMA CreateAgencyRowSound ==
  ASSUME Sound, NEW h \in Handlers, CreateAgencyRow(h)
  PROVE  Sound'
<1>1. /\ task[h].pc = "agency" /\ UNCHANGED <<tables, link, promises, request, issued>>
      /\ task[h].request \in 1..issued /\ task[h].request \in Ids
      /\ TaskFits(task[h])
  BY TaskTypes DEF CreateAgencyRow
<1>2. CASE SlugIsTaken(task[h].slug)
  <2> DEFINE c == [request |-> task[h].request, slug |-> task[h].slug]
  <2>1. Finish(h) /\ conflicted' = conflicted \cup {c}
    BY <1>2 DEF CreateAgencyRow
  <2>2. PICK a \in Exists : agency[a].slug = task[h].slug
    BY <1>2 DEF SlugIsTaken
  <2>3. Overlaps(a, task[h].request) /\ task[h].slug \in Slugs
    BY <1>1, <2>2 DEF TaskFits, SlugFits
  <2>4. /\ c \in Conflict /\ c.request = task[h].request /\ c.slug = task[h].slug
        /\ c.request <= issued
    BY <1>1, <2>3, CountTypes DEF Conflict, Sound
  <2> HIDE DEF c
  <2>5. ConflictFits(c)
    BY <2>2, <2>3, <2>4 DEF ConflictFits, Overlaps
  <2>6. conflicted' \subseteq Conflict /\ \A b \in conflicted' : ConflictFits(b)
    BY <2>1, <2>4, <2>5 DEF Sound, TypeOK, ConflictsFit
  <2> QED BY <1>1, <2>1, <2>6, FinishSound
<1>3. CASE ~SlugIsTaken(task[h].slug)
  <2>1. Continue(h, "user") /\ UNCHANGED conflicted
    BY <1>3 DEF CreateAgencyRow
  <2>2. Asked(h).kind = "signup" /\ DocumentFits(task[h].request)
    BY <1>1 DEF TaskFits, Asked
  <2> QED BY <1>1, <2>1, <2>2, ContinueSound
<1> QED BY <1>2, <1>3

LEMMA CommitSignupSound ==
  ASSUME Sound, NEW h \in Handlers, CommitSignup(h)
  PROVE  Sound'
<1>0. PICK n : n = task[h].request
  OBVIOUS
<1>1. /\ task[h].pc = "user" /\ Finish(h)
      /\ UNCHANGED <<link, promises, request, issued, conflicted>>
  BY DEF CommitSignup
<1>2. CASE user[Asked(h).email] # 0
  <2>1. UNCHANGED tables
    BY <1>2 DEF CommitSignup
  <2> QED BY <1>1, <2>1, ConflictsStay, FinishSound
<1>3. CASE user[Asked(h).email] = 0
  <2>1. /\ InsertAgency(n, task[h].slug, Asked(h).document)
        /\ user' = [user EXCEPT ![Asked(h).email] = n]
        /\ UNCHANGED <<link, cache, fetch, request, issued, conflicted>>
    BY <1>0, <1>1, <1>3 DEF CommitSignup, promises
  <2>2. /\ n \in Ids /\ n \in 1..issued /\ n \notin Exists /\ TaskFits(task[h])
        /\ Asked(h).email \in Emails /\ Asked(h).document \in Documents
        /\ Asked(h) = request[n] /\ task[h].slug \in Slugs
    BY <1>0, <1>1, TaskTypes DEF Asked, TaskFits
  <2>3. /\ agency' \in [Ids -> Agency]
        /\ held' \in [Ids -> SUBSET (Documents \cup {NoDocument})]
        /\ agency'[n].document = Asked(h).document /\ held'[n] = {Asked(h).document}
        /\ \A a \in Ids \ {n} : agency'[a] = agency[a] /\ held'[a] = held[a]
        /\ Exists' = Exists \cup {n}
    BY <2>1, <2>2, InsertTypes DEF Sound
  <2>4. Idle \in Task /\ Idle.pc = "idle" /\ task \in [Handlers -> Task]
        /\ task' = [task EXCEPT ![h] = Idle]
    BY <1>1, BoundAssumption DEF Idle, Task, Finish, Sound, TypeOK
  <2> HIDE DEF Ids
  <2>5. user \in [Emails -> Exists \cup {0}]
    BY DEF Sound, TypeOK
  <2>6. user' \in [Emails -> Exists' \cup {0}]
    BY <2>1, <2>2, <2>3, <2>5
  <2>7. TypeOK'
    BY <2>1, <2>3, <2>4, <2>6 DEF Sound, TypeOK
  <2>8. Grows
    <3>1. issued <= issued' /\ \A m \in 1..issued : request'[m] = request[m]
      BY <2>1, CountTypes DEF Sound
    <3>2. ASSUME NEW a \in Exists
          PROVE  a \in Exists' /\ agency'[a].slug = agency[a].slug /\ held[a] \subseteq held'[a]
      <4>1. a \in Ids \ {n}
        BY <2>2 DEF Exists
      <4> QED BY <2>3, <4>1
    <3>3. ASSUME NEW e \in Emails, user[e] # 0 PROVE user'[e] = user[e]
      <4>1. e # Asked(h).email
        BY <1>3, <3>3
      <4> QED BY <2>1, <2>5, <4>1
    <3> QED BY <3>1, <3>2, <3>3 DEF Grows
  <2>9. AgencyFits(n)'
    <3>1. n <= issued'
      BY <2>1, <2>2, CountTypes DEF Sound
    <3>2. user'[request[n].email] = n
      BY <2>1, <2>2, <2>5
    <3>3. {request[n].document, agency'[n].document} \subseteq held'[n] /\ request' = request
      BY <2>1, <2>2, <2>3
    <3> QED BY <3>1, <3>2, <3>3 DEF AgencyFits
  <2>10. \A a \in Exists' \ Exists : AgencyFits(a)'
    BY <2>3, <2>9
  <2>11. \A a \in Exists : agency'[a].document = agency[a].document
    BY <2>2, <2>3 DEF Exists
  <2>12. ASSUME NEW g \in Handlers, NEW a \in Exists' \ Exists, task'[g].pc # "idle"
         PROVE  a # task[g].request /\ Overlaps(a, task[g].request)'
    <3>1. g # h /\ task'[g] = task[g] /\ a = n
      BY <2>3, <2>4, <2>12
    <3>2. task[g].request # n /\ Overlaps(n, task[g].request)
      BY <1>0, <1>1, <2>12, <3>1 DEF Sound, TasksApart, Overlaps
    <3> QED BY <2>1, <3>1, <3>2 DEF Overlaps
  <2>13. RequestsFit' /\ FailedLookupIsForgotten'
    BY <2>1 DEF Sound, RequestsFit, FailedLookupIsForgotten
  <2>14. ASSUME NEW b \in Exists', request'[b].kind = "signup"
         PROVE  TrialsFit(n, b)' /\ TrialsFit(b, n)'
    <3>1. CASE b = n
      BY <2>2, <3>1 DEF TrialsFit
    <3>2. CASE b # n
      <4>1. b \in SignedUp /\ held'[b] = held[b] /\ request' = request
        BY <2>1, <2>2, <2>3, <2>14, <3>2 DEF SignedUp, Exists
      <4>2. n < b => Overlaps(b, n)
        BY <1>0, <1>1, <2>2, <4>1 DEF TaskFits, YoungerOverlap, SignedUp
      <4>3. request[b].document = request[n].document
              => Overlaps(b, n) \/ held[b] # {request[n].document}
        BY <1>0, <1>1, <2>2, <4>1 DEF TaskFits, DocumentFits
      <4> QED BY <4>1, <4>2, <4>3 DEF TrialsFit, Overlaps
    <3> QED BY <3>1, <3>2
  <2>15. \A a \in Exists' \ Exists : a = n
    BY <2>3
  <2> QED BY <2>1, <2>4, <2>7, <2>8, <2>10, <2>11, <2>12, <2>13, <2>14, <2>15, GrowthSound
<1> QED BY <1>2, <1>3

-----------------------------------------------------------------------------
(* The steps of a renewal.                                                 *)

LEMMA ListCitiesSound ==
  ASSUME Sound, NEW h \in Handlers, listIbgeCitiesByState(h)
  PROVE  Sound'
<1>1. /\ task[h].pc = "city" /\ task \in [Handlers -> Task]
      /\ UNCHANGED <<tables, link, request, issued, conflicted>>
      /\ task[h] \in Task /\ TaskFits(task[h]) /\ Asked(h).state \in States
      /\ fetch \in [Fetches -> {"none", "pending", "listed", "failed"}]
      /\ cache \in [States -> {0} \cup {f \in Fetches : fetch[f] # "none"}]
  BY TaskTypes DEF listIbgeCitiesByState, Sound, TypeOK
<1>2. PICK f \in Fetches : PromisesOK'
              /\ task' = [task EXCEPT ![h].pc = "cities", ![h].fetch = f]
  <2>1. CASE cache[Asked(h).state] # 0
    <3>1. /\ task' = [task EXCEPT ![h].pc = "cities", ![h].fetch = cache[Asked(h).state]]
          /\ UNCHANGED promises
      BY <2>1 DEF listIbgeCitiesByState
    <3>2. cache[Asked(h).state] \in Fetches
      BY <1>1, <2>1
    <3> QED BY <3>1, <3>2, PromisesStay
  <2>2. CASE cache[Asked(h).state] = 0
    <3>1. PICK f \in Fetches :
            /\ fetch[f] = "none"
            /\ fetch' = [fetch EXCEPT ![f] = "pending"]
            /\ cache' = [cache EXCEPT ![Asked(h).state] = f]
            /\ task' = [task EXCEPT ![h].pc = "cities", ![h].fetch = f]
      BY <2>2 DEF listIbgeCitiesByState
    <3>2. PromisesOK'
      <4>1. fetch' \in [Fetches -> {"none", "pending", "listed", "failed"}]
        BY <1>1, <3>1
      <4>2. \A g \in Fetches : fetch[g] # "none" => fetch'[g] = fetch[g]
        BY <1>1, <3>1
      <4>3. fetch'[f] = "pending"
        BY <1>1, <3>1
      <4>4. cache' \in [States -> {0} \cup {g \in Fetches : fetch'[g] # "none"}]
        BY <1>1, <3>1, <4>2, <4>3
      <4>5. FailedLookupIsForgotten'
        BY <1>1, <3>1, <4>2, <4>3 DEF FailedLookupIsForgotten, Sound
      <4> QED BY <4>1, <4>4, <4>5 DEF PromisesOK
    <3> QED BY <3>1, <3>2
  <2> QED BY <2>1, <2>2
<1> DEFINE t == [task[h] EXCEPT !.pc = "cities", !.fetch = f]
<1>3. /\ t \in Task /\ t.pc = "cities" /\ t.request = task[h].request
      /\ task' = [task EXCEPT ![h] = t]
  <2>1. f \in 0..MaxFetches
    BY BoundAssumption
  <2> QED BY <1>1, <1>2, <2>1 DEF Task
<1> HIDE DEF t
<1>4. TaskFits(t)
  BY <1>1, <1>3 DEF TaskFits
<1> QED BY <1>1, <1>2, <1>3, <1>4, ConflictsStay, QuietSound

\* What is known of a renewal past the check of its e-mail.
LEMMA RenewalTypes ==
  ASSUME Sound, NEW h \in Handlers, task[h].pc \in {"city", "cities", "checkout", "renew"}
  PROVE  /\ Asked(h).kind = "renewal" /\ Asked(h).email = Asked(h).link
         /\ user[Asked(h).email] \in Exists
<1>1. /\ Asked(h).kind = "renewal" /\ Asked(h).email = Asked(h).link
      /\ user[Asked(h).email] # 0
  BY TaskTypes DEF TaskFits, Asked
<1>2. user[Asked(h).email] \in Exists \cup {0}
  BY TaskTypes DEF Sound, TypeOK
<1> QED BY <1>1, <1>2

LEMMA ResolveCitySound ==
  ASSUME Sound, NEW h \in Handlers, resolveIbgeCityCode(h) \/ createRecurringCheckout(h)
  PROVE  Sound'
<1>1. /\ task[h].pc \in {"cities", "checkout"}
      /\ Finish(h) \/ Continue(h, "checkout") \/ Continue(h, "renew")
      /\ UNCHANGED <<tables, link, promises, request, issued, conflicted>>
  BY DEF resolveIbgeCityCode, createRecurringCheckout
<1>2. CASE Finish(h)
  BY <1>1, <1>2, ConflictsStay, FinishSound
<1>3. /\ Asked(h).kind = "renewal" /\ Asked(h).email = Asked(h).link
      /\ user[Asked(h).email] # 0
  BY <1>1, TaskTypes DEF TaskFits, Asked
<1>4. CASE Continue(h, "checkout")
  BY <1>1, <1>3, <1>4, ContinueSound
<1>5. CASE Continue(h, "renew")
  BY <1>1, <1>3, <1>5, ContinueSound
<1> QED BY <1>1, <1>2, <1>4, <1>5

LEMMA RenewalCommitSound ==
  ASSUME Sound, NEW h \in Handlers, RenewalCommit(h)
  PROVE  Sound'
<1>0. PICK a, d : a = user[Asked(h).email] /\ d = Asked(h).document
  OBVIOUS
<1>1. /\ task[h].pc = "renew" /\ task' = [task EXCEPT ![h] = Idle]
      /\ agency' = [agency EXCEPT ![a].document = d, ![a].isActive = FALSE]
      /\ held' = [held EXCEPT ![a] = held[a] \cup {d}]
      /\ UNCHANGED <<user, link, cache, fetch, request, issued, conflicted>>
  BY <1>0 DEF RenewalCommit, Finish, promises
<1>2. a \in Exists /\ a \in Ids /\ d \in Documents
  BY <1>0, <1>1, RenewalTypes, TaskTypes DEF Exists
<1>3. /\ agency \in [Ids -> Agency] /\ task \in [Handlers -> Task]
      /\ held \in [Ids -> SUBSET (Documents \cup {NoDocument})]
      /\ user \in [Emails -> Exists \cup {0}]
  BY DEF Sound, TypeOK
<1>4. Idle \in Task /\ Idle.pc = "idle"
  BY BoundAssumption DEF Idle, Task
<1> HIDE DEF Ids
<1>5. /\ agency' \in [Ids -> Agency]
      /\ \A b \in Ids : /\ agency'[b].exists = agency[b].exists
                        /\ agency'[b].slug = agency[b].slug
                        /\ b # a => agency'[b] = agency[b]
      /\ agency'[a].document = d
  <2>1. agency[a] \in Agency
    BY <1>2, <1>3
  <2> DEFINE new == [agency[a] EXCEPT !.document = d, !.isActive = FALSE]
  <2>2. /\ new \in Agency /\ new.exists = agency[a].exists /\ new.slug = agency[a].slug
        /\ new.document = d
    BY <1>2, <2>1 DEF Agency
  <2>3. agency' = [agency EXCEPT ![a] = new]
    BY <1>1, <1>3
  <2> HIDE DEF new
  <2> QED BY <1>2, <1>3, <2>2, <2>3
<1>6. /\ held' \in [Ids -> SUBSET (Documents \cup {NoDocument})]
      /\ \A b \in Ids : held[b] \subseteq held'[b]
      /\ d \in held'[a]
  BY <1>1, <1>2, <1>3
<1>7. Exists' = Exists
  BY <1>5 DEF Exists
<1>8. TypeOK'
  BY <1>1, <1>3, <1>4, <1>5, <1>6, <1>7 DEF Sound, TypeOK
<1>9. Grows
  BY <1>1, <1>5, <1>6, <1>7, CountTypes DEF Grows, Sound, Exists
<1>10. RequestsFit' /\ FailedLookupIsForgotten'
  BY <1>1 DEF Sound, RequestsFit, FailedLookupIsForgotten
<1>11. ASSUME NEW b \in Exists
       PROVE  agency'[b].document \in held'[b] \/ agency'[b].document = agency[b].document
  BY <1>5, <1>6 DEF Exists
<1> QED BY <1>1, <1>3, <1>4, <1>7, <1>8, <1>9, <1>10, <1>11, GrowthSound

-----------------------------------------------------------------------------
(* The invariant.                                                          *)

LEMMA InitSound == Init => Sound
<1> SUFFICES ASSUME Init PROVE Sound
  OBVIOUS
<1>1. Idle \in Task /\ Idle.pc = "idle" /\ NoAgency \in Agency /\ ~NoAgency.exists
  BY BoundAssumption DEF Idle, Task, NoAgency, Agency
<1>2. \A a \in Ids : agency[a] = NoAgency
  BY DEF Init
<1>3. Exists = {} /\ 1..issued = {}
  BY <1>1, <1>2 DEF Init, Exists
<1>4. TypeOK
  BY <1>1, <1>3, BoundAssumption DEF Init, TypeOK
<1>5. TasksFit /\ TasksApart
  BY <1>1 DEF Init, TasksFit, TaskFits, TasksApart
<1>6. RequestsFit /\ AgenciesFit /\ ConflictsFit
  BY <1>3 DEF Init, RequestsFit, AgenciesFit, ConflictsFit
<1>7. FailedLookupIsForgotten /\ OneTrialPerDocument
  BY <1>3 DEF Init, FailedLookupIsForgotten, OneTrialPerDocument, SignedUp
<1> QED BY <1>4, <1>5, <1>6, <1>7 DEF Sound

LEMMA StutterSound ==
  ASSUME Sound, UNCHANGED vars
  PROVE  Sound'
<1>1. /\ UNCHANGED <<agency, user, link, cache, fetch, request, conflicted, issued, held, task>>
      /\ Exists' = Exists
  BY DEF vars, tables, promises, Exists
<1>2. TypeOK' /\ Grows /\ RequestsFit' /\ FailedLookupIsForgotten'
  BY <1>1, CountTypes DEF Sound, TypeOK, Grows, RequestsFit, FailedLookupIsForgotten
<1> QED BY <1>1, <1>2, GrowthSound

LEMMA AbortSound ==
  ASSUME Sound, NEW h \in Handlers, Abort(h)
  PROVE  Sound'
<1> QED BY ConflictsStay, FinishSound DEF Abort

LEMMA SoundStep == Sound /\ [Next]_vars => Sound'
<1> SUFFICES ASSUME Sound, [Next]_vars PROVE Sound'
  OBVIOUS
<1>1. ASSUME NEW h \in Handlers, Submit(h) PROVE Sound'
  BY <1>1, SubmitSound DEF Submit
<1>2. ASSUME NEW h \in Handlers, Proceed(h) PROVE Sound'
  BY <1>2, AddressSound, FindUserSound, FindDocumentSound, SlugSearchSound,
     CreateAgencyRowSound, CommitSignupSound, ListCitiesSound, ResolveCitySound,
     RenewalCommitSound
  DEF Proceed
<1> QED
  BY <1>1, <1>2, CreateAgencySound, AbortSound, HandOutLinkSound, EndFetchSound, SetActiveSound,
     CreateAgencyUserSound, StutterSound
  DEF Next

LEMMA AlwaysSound == Spec => []Sound
<1> QED BY InitSound, SoundStep, PTL DEF Spec

-----------------------------------------------------------------------------
(* Theorems.                                                               *)

\* Every row, promise and handler keeps its type: a user is always of an agency
\* that exists, and the cache only keeps promises that were made.
THEOREM TypeCorrect == Spec => []TypeOK
<1>1. Sound => TypeOK
  BY DEF Sound
<1> QED BY AlwaysSound, <1>1, PTL

\* A sign-up leaves all of its agency or nothing, whatever else is created
\* between its reads and its transaction.
THEOREM SignupsAreWhole == Spec => []SignupIsWhole
<1>1. Sound => SignupIsWhole
  BY DEF Sound, SignupIsWhole, SignedUp, AgenciesFit, AgencyFits
<1> QED BY AlwaysSound, <1>1, PTL

\* A document is signed up twice only by sign-ups that were in flight together,
\* or after the first agency exchanged its document.
THEOREM TrialsAreSingle == Spec => []OneTrialPerDocument
<1>1. Sound => OneTrialPerDocument
  BY DEF Sound
<1> QED BY AlwaysSound, <1>1, PTL

\* A sign-up fails for its slug only when the agency that has this very text was
\* created beside it, whatever name it was made of.
THEOREM ConflictsOverlap == Spec => []SlugConflictOverlapped
<1>1. Sound => SlugConflictOverlapped
  BY DEF Sound, SlugConflictOverlapped, ConflictsFit, ConflictFits
<1> QED BY AlwaysSound, <1>1, PTL

\* The cache of municipalities never keeps a promise that has failed.
THEOREM FailuresAreForgotten == Spec => []FailedLookupIsForgotten
<1>1. Sound => FailedLookupIsForgotten
  BY DEF Sound
<1> QED BY AlwaysSound, <1>1, PTL

\* The document of an agency changes only when the user a renewal link was
\* handed to renews it.
THEOREM LinksOpenOwnAgency == Spec => LinkOpensOwnAgency
<1>1. Sound /\ [Next]_vars
      => [\A a \in Exists :
            agency'[a].document # agency[a].document
              => \E h \in Handlers : /\ task[h].pc = "renew" /\ task'[h].pc = "idle"
                                     /\ user[Asked(h).link] = a]_agency
  <2> SUFFICES ASSUME Sound, Next, NEW a \in Exists,
                      agency'[a].document # agency[a].document
               PROVE  \E h \in Handlers : /\ task[h].pc = "renew" /\ task'[h].pc = "idle"
                                          /\ user[Asked(h).link] = a
    BY DEF vars, tables
  <2>0. agency \in [Ids -> Agency] /\ a \in Ids /\ task \in [Handlers -> Task]
    BY DEF Sound, TypeOK, Exists
  <2>1. ASSUME NEW h \in Handlers, RenewalCommit(h)
        PROVE  /\ task[h].pc = "renew" /\ task'[h].pc = "idle"
               /\ user[Asked(h).link] = a
    <3>1. task[h].pc = "renew" /\ task' = [task EXCEPT ![h] = Idle]
      BY <2>1 DEF RenewalCommit, Finish
    <3>2. Asked(h).email = Asked(h).link
      BY <3>1, RenewalTypes
    <3>3. PICK o, d : /\ o = user[Asked(h).email]
                      /\ agency' = [agency EXCEPT ![o].document = d, ![o].isActive = FALSE]
      BY <2>1 DEF RenewalCommit
    <3>4. o = a
      BY <2>0, <3>3
    <3> QED BY <2>0, <3>1, <3>2, <3>3, <3>4 DEF Idle
  <2>2. ASSUME NEW n \in Ids \ Exists, NEW slug, NEW d, InsertAgency(n, slug, d)
        PROVE  FALSE
    <3>1. a # n
      BY <2>2
    <3> QED BY <2>0, <2>2, <3>1 DEF InsertAgency
  <2>3. ASSUME NEW h \in Handlers, CommitSignup(h) PROVE FALSE
    <3>1. task[h].pc = "user"
      BY <2>3 DEF CommitSignup
    <3>2. task[h].request \in Ids \ Exists
      BY <3>1, TaskTypes
    <3>3. InsertAgency(task[h].request, task[h].slug, Asked(h).document)
      BY <2>3 DEF CommitSignup, tables
    <3> QED BY <2>2, <3>2, <3>3
  <2>4. ASSUME NEW slug, createAgency(slug) PROVE FALSE
    <3>1. issued < MaxRequests /\ InsertAgency(issued + 1, slug, NoDocument)
      BY <2>4 DEF createAgency, Begin
    <3>2. issued + 1 \in Ids /\ \A b \in Exists : b <= issued /\ b \in Nat
      BY <3>1, CountTypes DEF Sound, AgenciesFit, AgencyFits, Exists
    <3>3. issued + 1 \notin Exists
      BY <3>2, CountTypes DEF Sound
    <3> QED BY <2>2, <3>1, <3>2, <3>3
  <2>5. ASSUME NEW b \in Ids, SetActive(b) PROVE FALSE
    <3>1. agency' = [agency EXCEPT ![b].isActive = ~agency[b].isActive]
      BY <2>5 DEF SetActive
    <3> QED BY <2>0, <3>1 DEF Agency
  <2>6. \E h \in Handlers : RenewalCommit(h)
    BY <2>3, <2>4, <2>5, ZenonT(30)
    DEF Next, Submit, createAgencySignup, Proceed, normalizeSignupAddress, FindUser,
        FindDocument, generateUniqueAgencySlug, CreateAgencyRow, listIbgeCitiesByState,
        resolveIbgeCityCode, createRecurringCheckout, Abort, HandOutLink, EndFetch,
        createAgencyUser, tables
  <2> QED BY <2>1, <2>6
<1> QED BY AlwaysSound, <1>1, PTL DEF Spec, LinkOpensOwnAgency
===============================================================================
