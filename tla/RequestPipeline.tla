--------------------------- MODULE RequestPipeline ---------------------------
(***************************************************************************)
(* What a request passes on its way to a resource: the probe that turns a  *)
(* client certificate into a principal, the filter that takes the          *)
(* principal from the static cache or authenticates the user, and the      *)
(* resource that asks who is calling.  Meanwhile other threads add users,  *)
(* clear or save the list, and the server is restarted from the file.      *)
(*                                                                         *)
(* The user manager keeps a list and an index by id; add() changes one     *)
(* after the other.  An account is an id and an encrypted password.        *)
(*                                                                         *)
(* The collections are not synchronized.  When two appends to the list     *)
(* overlap, the one that ends with a stale size or array drops accounts    *)
(* that were listed since it began, or its own, or ends in an exception.   *)
(* When two puts into a HashMap overlap, any entries may be lost, and a    *)
(* get may miss an entry while a put moves the table.                      *)
(***************************************************************************)
EXTENDS Integers, Sequences, FiniteSets, Functions

CONSTANTS
  Requests, Adders,     \* worker threads, threads that call add()
  Subjects,             \* names in client certificates
  Ids, Passwords,       \* of users
  BeforeColon,          \* a password up to its first colon
  None,                 \* nothing
  Configurations,       \* settings of a server: https, whether a certificate is
                        \* required, whether basic authentication is, and
                        \* whether there is a user manager
  MaxUsers, MaxRestarts \* bounds

ASSUME PipelineAssumption ==
  /\ None \notin Subjects \cup Ids \cup Passwords \cup {"null"} \cup Nat
  /\ "null" \notin Subjects \cup Ids
  /\ Adders \cap Requests = {} /\ IsFiniteSet(Adders)
  /\ BeforeColon \in [Passwords -> Passwords]
  /\ Configurations \subseteq [secure : BOOLEAN, needClientAuth : BOOLEAN,
                              enabled : BOOLEAN, hasUsers : BOOLEAN]
  /\ {MaxUsers, MaxRestarts} \subseteq Nat

VARIABLES
  settings,        \* of the server
  users,           \* UserManagerImpl.users
  userById,        \* UserManagerImpl.userById
  adding,          \* the account that an adder adds
  since,           \* the length of the list when an adder began to append
  overlapped,      \* threads whose put into a map overlaps another put into it
  file,            \* the XML file
  principalCache,  \* the names in PrincipalCache
  request,         \* what each request brings, and how far it is
  restarts,        \* number of restarts
  loose,           \* history: ids whose entry may differ from the list
  seen,            \* history: whether the credentials of a request were right
  raced            \* history: requests that a data race misled

vars == <<settings, users, userById, adding, since, overlapped, file,
          principalCache, request, restarts, loose, seen, raced>>
directory == <<users, userById, adding, since, file, restarts, loose>>

Encrypt(password) == <<"encrypted", password>>
Accounts == {[id |-> id, password |-> Encrypt(p)] : id \in Ids, p \in Passwords}

ASSUME AccountAssumption == None \notin Accounts

\* What may stand in the authorization header: a user and a password, another
\* scheme, a user without a password, or nothing.
Login == [kind : {"login"}, id : Ids, password : Passwords]
Credentials ==
  Login \cup [kind : {"none", "other", "malformed"}, id : {None}, password : {None}]

NewRequest ==
  [pc |-> "new", subject |-> None, header |-> None, valid |-> TRUE, principal |-> None,
   credentials |-> [kind |-> "none", id |-> None, password |-> None]]

Init ==
  /\ settings \in Configurations
  /\ users = <<>> /\ userById = <<>> /\ file = <<>>
  /\ adding = [a \in Adders |-> None] /\ since = [a \in Adders |-> None]
  /\ overlapped = {}
  /\ principalCache = {}
  /\ request = [r \in Requests |-> NewRequest]
  /\ restarts = 0 /\ loose = {} /\ raced = {}
  /\ seen = [r \in Requests |-> {}]

-----------------------------------------------------------------------------
(* The user manager.                                                       *)

\* The account of an id that is last in a list.
HasAccount(list, id) == \E i \in DOMAIN list : list[i].id = id
LastListed(list, id) ==
  LET i == CHOOSE i \in DOMAIN list :
             list[i].id = id /\ \A j \in i + 1 .. Len(list) : list[j].id # id
  IN  list[i]

PutIndex(index, account) ==
  [id \in DOMAIN index \cup {account.id} |->
     IF id = account.id THEN account ELSE index[id]]

\* Fault: the first account of an id keeps the entry.
ReinitKeepsFirst(list) ==
  [id \in {list[i].id : i \in DOMAIN list} |->
     list[CHOOSE i \in DOMAIN list :
            list[i].id = id /\ \A j \in 1 .. i - 1 : list[j].id # id]]

\* reinitUserById() of a new manager: the last of equal ids wins.
ReinitUserById(list) ==
  [id \in {list[i].id : i \in DOMAIN list} |-> LastListed(list, id)]

Pending(id) == {a \in Adders : adding[a] # None /\ adding[a].id = id}
Listing == {a \in Adders : since[a] # None}
Indexing == {a \in Adders : adding[a] # None} \ Listing

\* A thread begins a put into a map while others are at theirs.
Meet(thread, others) == IF others = {} THEN overlapped
                        ELSE overlapped \cup others \cup {thread}

\* Whether credentials are right according to the list; both answers will do
\* while the entry of the id is not settled.
Views(c, list, unsettled) ==
  IF c.kind # "login" THEN {}
  ELSE IF c.id \in unsettled THEN BOOLEAN
  ELSE {/\ HasAccount(list, c.id)
        /\ LastListed(list, c.id).password = Encrypt(BeforeColon[c.password])}

Observe(list, unsettled) ==
  seen' = [r \in Requests |->
             seen[r] \cup Views(request[r].credentials, list, unsettled)]

Unsettled == loose \cup {id \in Ids : Pending(id) # {}}

\* add() is called: its first statement appends to the list.
BeginAdd(a, account) ==
  /\ adding[a] = None /\ Len(users) + Cardinality(Listing) < MaxUsers
  /\ adding' = [adding EXCEPT ![a] = account]
  /\ since' = [since EXCEPT ![a] = Len(users)]
  /\ loose' = IF Pending(account.id) # {} THEN loose \cup {account.id} ELSE loose
  /\ Observe(users, Unsettled \cup {account.id})
  /\ UNCHANGED <<settings, users, userById, overlapped, file, principalCache, request,
                 restarts, raced>>

\* A list without the elements from n + 1 to m.
Cut(list, n, m) ==
  [i \in 1 .. Len(list) - (m - n) |-> list[IF i <= n THEN i ELSE i + (m - n)]]

Appended(a, list) ==
  /\ users' = list
  /\ since' = [since EXCEPT ![a] = None]

\* The append ends, the put into the index begins.
ListUser(a) ==
  /\ a \in Listing
  /\ Appended(a, Append(users, adding[a]))
  /\ overlapped' = Meet(a, Indexing)
  /\ UNCHANGED <<settings, userById, adding, file, principalCache, request, restarts,
                 loose, seen, raced>>

\* The append has overlapped another one.
ListUserRaces(a) ==
  /\ a \in Listing
  /\ Listing # {a} \/ Len(users) > since[a]
  /\ \E n, m \in since[a] .. Len(users), own \in BOOLEAN :
       /\ n <= m
       /\ Appended(a, IF own THEN Append(Cut(users, n, m), adding[a]) ELSE Cut(users, n, m))
       /\ \/ /\ overlapped' = Meet(a, Indexing)
             /\ loose' = loose \cup {users[i].id : i \in n + 1 .. m}
                            \cup (IF own THEN {} ELSE {adding[a].id})
             /\ UNCHANGED adding
          \/ /\ ~own   \* ArrayIndexOutOfBoundsException
             /\ adding' = [adding EXCEPT ![a] = None]
             /\ loose' = loose \cup {users[i].id : i \in n + 1 .. m}
             /\ UNCHANGED overlapped
       /\ Observe(users', Unsettled \cup loose')
  /\ UNCHANGED <<settings, userById, file, principalCache, request, restarts, raced>>

\* The account that an adder adds is the last of its id, and nobody else adds one.
Settles(a, account) ==
  /\ Pending(account.id) = {a} /\ HasAccount(users, account.id)
  /\ LastListed(users, account.id) = account

Added(a) ==
  /\ adding' = [adding EXCEPT ![a] = None]
  /\ overlapped' = overlapped \ {a}
  /\ Observe(users, Unsettled \cup loose')
  /\ UNCHANGED <<settings, users, since, file, principalCache, request, restarts, raced>>

\* Fault: the list gets a user that the index knows already, the index does not.
IndexNewOnly(a) ==
  LET account == adding[a] IN
  /\ a \in Indexing
  /\ userById' = IF account.id \in DOMAIN userById THEN userById
                 ELSE PutIndex(userById, account)
  /\ loose' = IF Settles(a, account) THEN loose \ {account.id} ELSE loose
  /\ Added(a)

\* The put ends, and with it add().
IndexUser(a) ==
  LET account == adding[a] IN
  /\ a \in Indexing
  /\ userById' = PutIndex(userById, account)
  /\ loose' = IF Settles(a, account) THEN loose \ {account.id} ELSE loose
  /\ Added(a)

\* The put has overlapped another one.
IndexUserRaces(a) ==
  /\ a \in Indexing \cap overlapped
  /\ \E index \in {userById, PutIndex(userById, adding[a])}, kept \in SUBSET Ids :
       userById' = Restrict(index, DOMAIN index \cap kept)
  /\ loose' = loose \cup {adding[a].id} \cup (DOMAIN userById \ DOMAIN userById')
  /\ Added(a)

\* getUsers().clear(), as TestUserManagerResource does before it adds users: the
\* index stays.
ClearUsers ==
  /\ users # <<>> /\ Listing = {}
  /\ users' = <<>>
  /\ loose' = loose \cup {users[i].id : i \in DOMAIN users}
  /\ Observe(<<>>, Unsettled \cup loose')
  /\ UNCHANGED <<settings, userById, adding, since, overlapped, file, principalCache,
                 request, restarts, raced>>

\* save(): the list is written, the index is not.
Save ==
  /\ file # users
  /\ file' = users
  /\ UNCHANGED <<settings, users, userById, adding, since, overlapped, principalCache,
                 request, restarts, loose, seen, raced>>

\* A new process reads the file with fromXml(); the requests are gone.
Restart ==
  /\ restarts < MaxRestarts
  /\ restarts' = restarts + 1
  /\ users' = file
  /\ userById' = ReinitUserById(file)
  /\ adding' = [a \in Adders |-> None] /\ since' = [a \in Adders |-> None]
  /\ overlapped' = {}
  /\ principalCache' = {}
  /\ request' = [r \in Requests |-> NewRequest]
  /\ loose' = {} /\ raced' = {}
  /\ seen' = [r \in Requests |-> {}]
  /\ UNCHANGED <<settings, file>>

-----------------------------------------------------------------------------
(* The probe.                                                              *)
At(r, point) == request[r].pc = point
GoTo(r, point) == request' = [request EXCEPT ![r].pc = point]

Known(r) == request[r].header \in principalCache
Caching == {r \in Requests : At(r, "cache")}

\* Fault: the cache gets the principal of every request.
ReceiveCachesAll(r, subject, claimed, credentials) ==
  /\ At(r, "new")
  /\ subject # None => settings.secure
  /\ request' = [request EXCEPT ![r] =
       [pc |-> "cache", subject |-> subject, header |-> claimed,
        credentials |-> credentials, valid |-> TRUE, principal |-> None]]
  /\ overlapped' = Meet(r, Caching)
  /\ seen' = [seen EXCEPT ![r] = Views(credentials, users, Unsettled)]
  /\ UNCHANGED <<settings, directory, principalCache, raced>>

\* onRequestReceiveEvent() up to the cache.  A header principal_id that the client
\* sends stays.  Without a principal where one is needed the request is sent to an
\* address that does not exist.
Receive(r, subject, claimed, credentials) ==
  /\ At(r, "new")
  /\ subject # None => settings.secure
  /\ request' = [request EXCEPT ![r] =
       [pc          |-> IF subject # None THEN "cache" ELSE "filter",
        subject     |-> subject,
        header      |-> claimed,
        credentials |-> credentials,
        valid       |-> ~(settings.secure /\ settings.needClientAuth /\ subject = None),
        principal   |-> None]]
  /\ overlapped' = IF subject # None THEN Meet(r, Caching) ELSE overlapped
  /\ seen' = [seen EXCEPT ![r] = Views(credentials, users, Unsettled)]
  /\ UNCHANGED <<settings, directory, principalCache, raced>>

\* Fault: a header that is there already stays.
NameUnlessNamed(r) ==
  /\ request' = [request EXCEPT ![r].pc = "filter",
       ![r].header = IF @ = None THEN request[r].subject ELSE @]
  /\ overlapped' = overlapped \ {r}

\* setHeader() replaces what the client sent.
NameRequest(r) ==
  /\ request' = [request EXCEPT ![r].pc = "filter", ![r].header = request[r].subject]
  /\ overlapped' = overlapped \ {r}

\* PrincipalCache.add(), and the header principal_id.
CachePrincipal(r) ==
  /\ At(r, "cache")
  /\ principalCache' = principalCache \cup {request[r].subject}
  /\ NameRequest(r)
  /\ UNCHANGED <<settings, directory, seen, raced>>

\* The put has overlapped another one.
CachePrincipalRaces(r) ==
  /\ At(r, "cache") /\ r \in overlapped
  /\ principalCache' \in SUBSET (principalCache \cup {request[r].subject})
  /\ NameRequest(r)
  /\ raced' = raced \cup
                  {q \in Requests : At(q, "filter")' /\ request[q].subject # None /\ ~Known(q)'}
  /\ UNCHANGED <<settings, directory, seen>>

-----------------------------------------------------------------------------
(* The filter.                                                             *)
\* Fault: the cache is not asked.
FilterAsksAll(r) ==
  /\ At(r, "filter") /\ settings.hasUsers
  /\ GoTo(r, "authenticate")
  /\ UNCHANGED <<settings, directory, overlapped, principalCache, seen, raced>>

\* The principal of the header is in the cache.
FilterKnown(r) ==
  /\ At(r, "filter") /\ settings.hasUsers
  /\ Known(r)
  /\ request' = [request EXCEPT ![r].pc = "resource",
                                ![r].principal = request[r].header]
  /\ UNCHANGED <<settings, directory, overlapped, principalCache, seen, raced>>

FilterUnknown(r) ==
  /\ At(r, "filter") /\ settings.hasUsers
  /\ ~Known(r) \/ Caching # {}
  /\ raced' = IF Known(r) THEN raced \cup {r} ELSE raced
  /\ GoTo(r, "authenticate")
  /\ UNCHANGED <<settings, directory, overlapped, principalCache, seen>>

\* Without a user manager there is no filter.
NoFilter(r) ==
  /\ At(r, "filter") /\ ~settings.hasUsers
  /\ GoTo(r, "resource")
  /\ UNCHANGED <<settings, directory, overlapped, principalCache, seen, raced>>

\* Fault: the number of values is not checked.
AuthenticateLenient(r) ==
  LET c == request[r].credentials IN
  /\ At(r, "authenticate") /\ c.kind # "login"
  /\ IF c.kind = "none" /\ settings.enabled THEN GoTo(r, "unauthorized")
     ELSE request' = [request EXCEPT ![r].pc = "resource", ![r].principal = "null"]
  /\ UNCHANGED <<settings, directory, overlapped, principalCache, seen, raced>>

\* authenticate() without a user and a password.  "null" is the Authorizer of
\* no user.
AuthenticateOther(r) ==
  LET c == request[r].credentials IN
  /\ At(r, "authenticate") /\ c.kind # "login"
  /\ CASE c.kind = "none" /\ settings.enabled -> GoTo(r, "unauthorized")
       [] c.kind = "malformed"              -> GoTo(r, "badRequest")
       [] OTHER -> request' = [request EXCEPT ![r].pc = "resource", ![r].principal = "null"]
  /\ UNCHANGED <<settings, directory, overlapped, principalCache, seen, raced>>

\* Fault: the password is not compared.
RightAlways(account, c) == account.id = c.id

\* What authenticate() compares: split(":") leaves the password up to a colon.
Right(account, c) == account.password = Encrypt(BeforeColon[c.password])

AuthenticateLogin(r) ==
  LET c == request[r].credentials IN
  /\ At(r, "authenticate") /\ c.kind = "login"
  /\ IF c.id \in DOMAIN userById /\ Right(userById[c.id], c)
     THEN request' = [request EXCEPT ![r].pc = "resource", ![r].principal = c.id]
     ELSE GoTo(r, "unauthorized")
  /\ UNCHANGED <<settings, directory, overlapped, principalCache, seen, raced>>

\* The index is read while a put moves its table.
AuthenticateMisses(r) ==
  LET c == request[r].credentials IN
  /\ At(r, "authenticate") /\ c.kind = "login"
  /\ Indexing # {}
  /\ raced' = raced \cup {r}
  /\ GoTo(r, "unauthorized")
  /\ UNCHANGED <<settings, directory, overlapped, principalCache, seen>>

\* The resource calls getPrincipal(): the name of no user is a
\* NullPointerException; without a filter Jersey knows no principal.
Resource(r) ==
  /\ At(r, "resource")
  /\ GoTo(r, CASE ~request[r].valid             -> "notFound"
               [] request[r].principal = "null" -> "error"
               [] OTHER                         -> "served")
  /\ UNCHANGED <<settings, directory, overlapped, principalCache, seen, raced>>

Directory == \/ \E a \in Adders : \/ \E account \in Accounts : BeginAdd(a, account)
                                 \/ ListUser(a) \/ ListUserRaces(a)
                                 \/ IndexUser(a) \/ IndexUserRaces(a)
             \/ ClearUsers \/ Save \/ Restart

Handle(r) == \/ \E subject, claimed \in Subjects \cup {None}, c \in Credentials :
                  Receive(r, subject, claimed, c)
             \/ CachePrincipal(r) \/ CachePrincipalRaces(r)
             \/ FilterKnown(r) \/ FilterUnknown(r) \/ NoFilter(r)
             \/ AuthenticateOther(r) \/ AuthenticateLogin(r) \/ AuthenticateMisses(r)
             \/ Resource(r)

Next == Directory \/ \E r \in Requests : Handle(r)

Spec == Init /\ [][Next]_vars

-----------------------------------------------------------------------------
(* Properties.                                                             *)
Points == {"new", "cache", "filter", "authenticate", "resource", "served",
           "unauthorized", "badRequest", "notFound", "error"}

RequestType ==
  [pc : Points, subject : Subjects \cup {None}, header : Subjects \cup {None},
   valid : BOOLEAN, principal : Subjects \cup Ids \cup {None, "null"},
   credentials : Credentials]

\* Every variable has its type; only principals of certificates are cached.
TypeOK ==
  /\ settings \in Configurations
  /\ users \in Seq(Accounts) /\ Len(users) + Cardinality(Listing) <= MaxUsers
  /\ DOMAIN userById \subseteq Ids /\ Range(userById) \subseteq Accounts
  /\ adding \in [Adders -> Accounts \cup {None}]
  /\ since \in [Adders -> (0 .. MaxUsers) \cup {None}]
  /\ \A a \in Listing : adding[a] # None
  /\ overlapped \subseteq Adders \cup Requests
  /\ file \in Seq(Accounts) /\ Len(file) <= MaxUsers
  /\ principalCache \subseteq Subjects
  /\ request \in [Requests -> RequestType]
  /\ restarts \in 0 .. MaxRestarts
  /\ loose \subseteq Ids /\ raced \subseteq Requests
  /\ seen \in [Requests -> SUBSET BOOLEAN]

\* Equal ids are allowed, and a lookup finds the one that is last in the list,
\* unless calls of add() of the id overlap, a data race has lost its account or
\* entry or the list was cleared, and the id has not been added again since.
LookupIsLastListed ==
  \A id \in Ids \ Unsettled : HasAccount(users, id) =>
    id \in DOMAIN userById /\ userById[id] = LastListed(users, id)

\* After a restart from the saved file every listed user logs in as before, with
\* the same exceptions.
ReloadKeepsLogins ==
  [][restarts' # restarts /\ file = users =>
       \A id \in Ids \ Unsettled : HasAccount(users, id) =>
         id \in DOMAIN userById' /\ userById'[id] = userById[id]]_vars

\* A login is accepted or refused as the list of users demands, of the password up
\* to its first colon, at some moment between the arrival of the request and the
\* answer, although the lookup and the comparison run while users are added
\* (unless the header principal_id bears the id).
DecisionFits ==
  \A r \in Requests :
    LET q == request[r] IN
    /\ q.credentials.kind = "login" /\ q.principal = q.credentials.id =>
         TRUE \in seen[r] \/ q.header = q.credentials.id
    /\ q.credentials.kind = "login" /\ q.pc = "unauthorized" =>
         FALSE \in seen[r] \/ r \in raced

\* A resource is told a name that its own request brought, never one that only
\* another request left in the static cache: the subject of the certificate,
\* whatever name the client sends along; without a certificate the name in the
\* client's header, else the user who logged in, or nobody.
OwnPrincipal ==
  \A r \in Requests :
    LET q   == request[r]
        own == IF q.subject # None THEN q.subject ELSE q.header
    IN
    settings.hasUsers /\ q.pc \in {"resource", "served", "notFound", "error"} =>
      /\ q.principal \in {own, q.credentials.id, "null"} \ {None}
      /\ q.subject # None /\ r \notin raced => q.principal = q.subject

\* Who has a certificate needs no password: the name that the probe put into the
\* cache is there when the filter asks for it.
CertificateServes ==
  \A r \in Requests :
    request[r].subject # None /\ request[r].pc \in Points \ {"new"} =>
      \/ request[r].pc \in {"cache", "filter", "resource", "served"}
      \/ r \in raced

\* Only a request that authenticate() lets through without a user fails in the
\* resource, with a NullPointerException in getPrincipal().
ErrorOnlyWithoutUser ==
  \A r \in Requests : request[r].pc = "error" =>
    /\ request[r].credentials.kind \in {"none", "other"}
    /\ request[r].credentials.kind = "none" => ~settings.enabled
=============================================================================
