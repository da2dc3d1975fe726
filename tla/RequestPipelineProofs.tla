------------------------- MODULE RequestPipelineProofs -------------------------
(***************************************************************************)
(* Theorems about RequestPipeline, for any requests, adders, users,        *)
(* passwords and configurations of a server: the index of users follows    *)
(* the list, a login is decided as the list demands, and a resource is     *)
(* told the caller of its own request.                                     *)
(***************************************************************************)
EXTENDS RequestPipeline, WellFoundedInduction, SequenceTheorems,
  FiniteSetTheorems, TLAPS

-----------------------------------------------------------------------------
(* The index and the list.                                                 *)

\* The entry of an id is its last account in the list.
Match(id) ==
  /\ id \in DOMAIN userById <=> HasAccount(users, id)
  /\ HasAccount(users, id) => userById[id] = LastListed(users, id)

\* A settled id has an entry exactly if it is listed, and it is the last one.
Agree(id) == id \notin Unsettled => Match(id)

\* An id that no race and no clear befell has at most one adder; before it ends its
\* append the entry is still right, after it the account is the last of the id.
Sole(a) ==
  adding[a] # None /\ adding[a].id \notin loose =>
    /\ Pending(adding[a].id) = {a}
    /\ since[a] # None => Match(adding[a].id)
    /\ since[a] = None => /\ HasAccount(users, adding[a].id)
                          /\ LastListed(users, adding[a].id) = adding[a]

DirectoryInv == (\A id \in Ids : Agree(id)) /\ (\A a \in Adders : Sole(a))

-----------------------------------------------------------------------------
(* The requests.                                                           *)

\* What the list now says of the credentials has been noted, and so has been
\* what a decision rests on.
Noted(r) ==
  LET q == request[r] IN
  /\ Views(q.credentials, users, Unsettled) \subseteq seen[r]
  /\ q.credentials.kind = "login" /\ q.principal = q.credentials.id =>
       TRUE \in seen[r] \/ q.header = q.credentials.id
  /\ q.credentials.kind = "login" /\ q.pc = "unauthorized" =>
       FALSE \in seen[r] \/ r \in raced

\* The principal of a request is its own, and who has a certificate is in the
\* cache, under the name in the header, when the filter asks.
Identified(r) ==
  LET q == request[r] IN
  /\ q.pc \in {"new", "cache", "filter", "authenticate"} => q.principal = None
  /\ ~settings.hasUsers => q.principal = None /\ q.pc # "authenticate"
  /\ q.pc = "new" => q.credentials.kind = "none"
  /\ q.pc = "cache" => q.subject # None
  /\ q.subject # None => q.valid
  /\ q.subject # None /\ q.pc \notin {"new", "cache"} => q.header = q.subject
  /\ q.subject # None /\ r \notin raced =>
       /\ q.pc \in {"cache", "filter", "resource", "served"}
       /\ q.pc = "filter" => q.subject \in principalCache
       /\ settings.hasUsers /\ q.pc \in {"resource", "served"} => q.principal = q.subject
  /\ settings.hasUsers /\ q.pc \in {"resource", "served", "notFound", "error"} =>
       q.principal \in {IF q.subject # None THEN q.subject ELSE q.header,
                        q.credentials.id, "null"} \ {None}
  /\ q.pc = "error" => q.principal = "null"
  /\ q.principal = "null" =>
       /\ q.credentials.kind \in {"none", "other"}
       /\ q.credentials.kind = "none" => ~settings.enabled
       /\ q.subject = None \/ r \in raced

IInv == /\ TypeOK /\ DirectoryInv
        /\ \A r \in Requests : Noted(r) /\ Identified(r)

-----------------------------------------------------------------------------
(* The last account of an id.                                              *)

IsLast(list, id, i) ==
  /\ i \in DOMAIN list /\ list[i].id = id
  /\ \A j \in i + 1 .. Len(list) : list[j].id # id

\* A nonempty set of natural numbers has a least one.
LEMMA LeastNatural ==
  ASSUME NEW T \in SUBSET Nat, T # {}
  PROVE  \E n \in T : \A m \in T : n <= m
<1>1. PICK n \in T : \A m \in T : <<m, n>> \notin OpToRel(<, Nat)
  BY NatLessThanWellFounded, WFMin
<1>2. \A m \in T : ~(m < n)
  BY <1>1 DEF OpToRel
<1> QED
  BY <1>2

\* A listed id has a last account, and LastListed() is one of that id.
LEMMA LastExists ==
  ASSUME NEW list \in Seq(Accounts), NEW id, HasAccount(list, id)
  PROVE  /\ \E i : IsLast(list, id, i) /\ LastListed(list, id) = list[i]
         /\ LastListed(list, id) \in Accounts
<1> DEFINE Back == {n \in Nat : /\ Len(list) - n \in DOMAIN list
                               /\ list[Len(list) - n].id = id}
<1>1. Back # {}
  <2>1. PICK i \in DOMAIN list : list[i].id = id
    BY DEF HasAccount
  <2>2. Len(list) - i \in Nat /\ Len(list) - (Len(list) - i) = i
    BY <2>1
  <2> QED
    BY <2>1, <2>2
<1>2. PICK n \in Back : \A m \in Back : n <= m
  <2> HIDE DEF Back
  <2>1. Back \in SUBSET Nat
    BY DEF Back
  <2> QED
    BY <1>1, <2>1, LeastNatural
<1>3. IsLast(list, id, Len(list) - n)
  <2>1. ASSUME NEW j \in Len(list) - n + 1 .. Len(list), list[j].id = id
        PROVE  FALSE
    <3>1. Len(list) - j \in Back /\ Len(list) - j < n
      BY <1>2, <2>1
    <3>2. n <= Len(list) - j
      <4> HIDE DEF Back
      <4> QED
        BY <1>2, <3>1
    <3> QED
      BY <3>1, <3>2
  <2> QED
    BY <1>2, <2>1 DEF IsLast
<1>4. PICK i : IsLast(list, id, i) /\ LastListed(list, id) = list[i]
  BY <1>3 DEF IsLast, LastListed
<1> QED
  BY <1>4 DEF IsLast

\* There is one last account of an id.
LEMMA LastUnique ==
  ASSUME NEW list \in Seq(Accounts), NEW id, NEW i, IsLast(list, id, i)
  PROVE  HasAccount(list, id) /\ LastListed(list, id) = list[i]
<1>1. HasAccount(list, id)
  BY DEF IsLast, HasAccount
<1>2. PICK k : IsLast(list, id, k) /\ LastListed(list, id) = list[k]
  BY <1>1, LastExists
<1>3. i = k
  BY <1>2 DEF IsLast
<1> QED
  BY <1>1, <1>2, <1>3

\* An account that is appended is the last of its id and leaves the others.
LEMMA AppendAccount ==
  ASSUME NEW list \in Seq(Accounts), NEW account \in Accounts, NEW id
  PROVE  LET longer == Append(list, account) IN
         /\ longer \in Seq(Accounts) /\ Len(longer) = Len(list) + 1
         /\ id = account.id => HasAccount(longer, id) /\ LastListed(longer, id) = account
         /\ id # account.id => /\ HasAccount(longer, id) <=> HasAccount(list, id)
                               /\ HasAccount(list, id) =>
                                    LastListed(longer, id) = LastListed(list, id)
<1> DEFINE longer == Append(list, account)
<1>1. /\ longer \in Seq(Accounts) /\ Len(longer) = Len(list) + 1
      /\ longer[Len(list) + 1] = account
      /\ \A i \in 1 .. Len(list) : longer[i] = list[i]
  BY AppendProperties
<1> HIDE DEF longer
<1>2. CASE id = account.id
  <2>1. IsLast(longer, id, Len(list) + 1)
    BY <1>1, <1>2 DEF IsLast
  <2> QED
    BY <1>1, <1>2, <2>1, LastUnique DEF longer
<1>3. CASE id # account.id
  <2>1. HasAccount(longer, id) <=> HasAccount(list, id)
    <3>1. DOMAIN longer = 1 .. Len(list) + 1 /\ DOMAIN list = 1 .. Len(list)
      BY <1>1
    <3> QED
      BY <1>1, <1>3, <3>1 DEF HasAccount
  <2>2. ASSUME HasAccount(list, id)
        PROVE  LastListed(longer, id) = LastListed(list, id)
    <3>1. PICK i : IsLast(list, id, i) /\ LastListed(list, id) = list[i]
      BY <2>2, LastExists
    <3>2. IsLast(longer, id, i) /\ longer[i] = list[i]
      BY <1>1, <1>3, <3>1 DEF IsLast
    <3> QED
      BY <1>1, <3>1, <3>2, LastUnique
  <2> QED
    BY <1>1, <1>3, <2>1, <2>2 DEF longer
<1> QED
  BY <1>2, <1>3

\* An id that is not among the accounts cut out of a list keeps its last one.
LEMMA CutAccounts ==
  ASSUME NEW list \in Seq(Accounts), NEW n \in 0 .. Len(list), NEW m \in n .. Len(list)
  PROVE  LET shorter == Cut(list, n, m) IN
         /\ shorter \in Seq(Accounts) /\ Len(shorter) <= Len(list)
         /\ \A id : id \notin {list[i].id : i \in n + 1 .. m} =>
              /\ HasAccount(shorter, id) <=> HasAccount(list, id)
              /\ HasAccount(list, id) => LastListed(shorter, id) = LastListed(list, id)
<1> DEFINE shorter == Cut(list, n, m)
           d       == m - n
<1>1. n \in Nat /\ m \in Nat /\ n <= m /\ m <= Len(list) /\ Len(list) \in Nat /\ d \in Nat
  OBVIOUS
<1>2. \A i \in 1 .. Len(list) : list[i] \in Accounts
  OBVIOUS
<1>3. shorter = [i \in 1 .. Len(list) - d |-> list[IF i <= n THEN i ELSE i + d]]
  BY DEF Cut
<1>4. \A i \in 1 .. Len(list) - d : (IF i <= n THEN i ELSE i + d) \in 1 .. Len(list)
  BY <1>1
<1>5. shorter \in [1 .. Len(list) - d -> Accounts]
  BY <1>2, <1>3, <1>4
<1>6. shorter \in Seq(Accounts) /\ Len(shorter) = Len(list) - d
  <2>1. Len(list) - d \in Nat
    BY <1>1
  <2> HIDE DEF d, shorter
  <2> QED
    BY <1>5, <2>1
<1>7. \A i \in 1 .. Len(list) - d : shorter[i] = list[IF i <= n THEN i ELSE i + d]
  BY <1>3
<1> HIDE DEF shorter
<1>8. ASSUME NEW id, id \notin {list[i].id : i \in n + 1 .. m}
      PROVE  /\ HasAccount(shorter, id) <=> HasAccount(list, id)
             /\ HasAccount(list, id) => LastListed(shorter, id) = LastListed(list, id)
  <2>1. ASSUME HasAccount(shorter, id) PROVE HasAccount(list, id)
    <3>1. PICK i \in 1 .. Len(list) - d : shorter[i].id = id
      BY <1>6, <2>1 DEF HasAccount
    <3>2. PICK j : j = IF i <= n THEN i ELSE i + d
      OBVIOUS
    <3>3. j \in DOMAIN list /\ list[j].id = id
      BY <1>4, <1>7, <3>1, <3>2
    <3> QED
      BY <3>3 DEF HasAccount
  <2>2. ASSUME HasAccount(list, id)
        PROVE  HasAccount(shorter, id) /\ LastListed(shorter, id) = LastListed(list, id)
    <3>1. PICK j : IsLast(list, id, j) /\ LastListed(list, id) = list[j]
      BY <2>2, LastExists
    <3>2. j \in 1 .. Len(list) /\ ~(n + 1 <= j /\ j <= m)
      BY <1>1, <1>8, <3>1 DEF IsLast
    <3>3. PICK k : k = IF j <= n THEN j ELSE j - d
      OBVIOUS
    <3>4. k \in 1 .. Len(list) - d /\ shorter[k] = list[j]
      BY <1>1, <1>7, <3>2, <3>3
    <3>5. ASSUME NEW i \in k + 1 .. Len(list) - d PROVE shorter[i].id # id
      <4>1. (IF i <= n THEN i ELSE i + d) \in j + 1 .. Len(list)
        BY <1>1, <3>2, <3>3
      <4>2. i \in 1 .. Len(list) - d
        BY <3>4
      <4> QED
        BY <1>7, <3>1, <4>1, <4>2 DEF IsLast
    <3>6. IsLast(shorter, id, k)
      BY <1>6, <3>1, <3>4, <3>5 DEF IsLast
    <3> QED
      BY <1>6, <3>1, <3>4, <3>6, LastUnique
  <2> QED
    BY <2>1, <2>2
<1> QED
  BY <1>1, <1>6, <1>8 DEF shorter

\* The index of a new manager has exactly the listed ids, each with its last account.
LEMMA ReinitAgrees ==
  ASSUME NEW list \in Seq(Accounts)
  PROVE  LET index == ReinitUserById(list) IN
         /\ DOMAIN index \subseteq Ids /\ Range(index) \subseteq Accounts
         /\ \A id : id \in DOMAIN index <=> HasAccount(list, id)
         /\ \A id : HasAccount(list, id) => index[id] = LastListed(list, id)
<1> DEFINE index == ReinitUserById(list)
<1>1. /\ \A id : id \in DOMAIN index <=> HasAccount(list, id)
      /\ \A id \in DOMAIN index : index[id] = LastListed(list, id)
  BY DEF ReinitUserById, HasAccount
<1>2. \A id \in DOMAIN index : index[id] \in Accounts
  BY <1>1, LastExists
<1>3. \A i \in DOMAIN list : list[i].id \in Ids
  BY DEF Accounts
<1>4. DOMAIN index \subseteq Ids
  BY <1>1, <1>3 DEF HasAccount
<1> HIDE DEF index
<1>5. Range(index) \subseteq Accounts
  BY <1>2 DEF Range
<1> QED
  BY <1>1, <1>4, <1>5 DEF index

-----------------------------------------------------------------------------
(* Type correctness.                                                       *)

\* A new request is a request.
LEMMA NewTyped == NewRequest \in RequestType
BY DEF NewRequest, RequestType, Points, Credentials

\* A server starts without users and requests.
LEMMA InitTyped == Init => TypeOK
<1> USE PipelineAssumption DEF PipelineAssumption
<1>1. DOMAIN <<>> = {} /\ Range(<<>>) = {}
  BY DEF Range
<1>2. <<>> \in Seq(Accounts) /\ Len(<<>>) = 0
  OBVIOUS
<1>3. ASSUME Init PROVE Len(users) + Cardinality(Listing) <= MaxUsers
  <2>1. Listing = {}
    BY <1>3 DEF Init, Listing
  <2> QED
    BY <1>2, <1>3, <2>1, FS_EmptySet DEF Init
<1>4. ASSUME Init PROVE Listing = {}
  BY <1>4 DEF Init, Listing
<1> QED
  BY <1>1, <1>2, <1>3, <1>4, NewTyped DEF Init, TypeOK

\* A put types the index.
LEMMA PutTyped ==
  ASSUME NEW index, NEW account \in Accounts,
         DOMAIN index \subseteq Ids, Range(index) \subseteq Accounts
  PROVE  /\ DOMAIN PutIndex(index, account) = DOMAIN index \cup {account.id}
         /\ PutIndex(index, account)[account.id] = account
         /\ \A id \in DOMAIN index \ {account.id} :
              PutIndex(index, account)[id] = index[id]
         /\ DOMAIN PutIndex(index, account) \subseteq Ids
         /\ Range(PutIndex(index, account)) \subseteq Accounts
<1> DEFINE longer == PutIndex(index, account)
<1>1. /\ DOMAIN longer = DOMAIN index \cup {account.id}
      /\ \A id \in DOMAIN longer :
           longer[id] = IF id = account.id THEN account ELSE index[id]
  BY DEF PutIndex
<1>2. account.id \in Ids
  BY DEF Accounts
<1>3. \A id \in DOMAIN index : index[id] \in Accounts
  BY DEF Range
<1> HIDE DEF longer
<1>4. Range(longer) \subseteq Accounts
  BY <1>1, <1>3 DEF Range
<1> QED
  BY <1>1, <1>2, <1>4 DEF longer

\* What is observed are answers.
LEMMA ObserveTyped ==
  ASSUME seen \in [Requests -> SUBSET BOOLEAN], NEW list, NEW ids, Observe(list, ids)
  PROVE  seen' \in [Requests -> SUBSET BOOLEAN]
<1>1. \A c : Views(c, list, ids) \subseteq BOOLEAN
  BY DEF Views
<1> QED
  BY <1>1 DEF Observe

\* An adder that begins to append counts towards the length of the list, one that
\* ends no longer does.
LEMMA ListingCounts ==
  ASSUME since \in [Adders -> (0 .. MaxUsers) \cup {None}]
  PROVE  /\ Cardinality(Listing) \in Nat
         /\ \A a \in Adders, n \in Nat :
              since[a] = None /\ since' = [since EXCEPT ![a] = n] =>
                Cardinality(Listing') = Cardinality(Listing) + 1
         /\ \A a \in Listing : since' = [since EXCEPT ![a] = None] =>
              Cardinality(Listing') = Cardinality(Listing) - 1
<1> USE PipelineAssumption DEF PipelineAssumption
<1>1. IsFiniteSet(Listing)
  <2>1. Listing \subseteq Adders
    BY DEF Listing
  <2> QED
    BY <2>1, FS_Subset
<1>2. ASSUME NEW a \in Adders, NEW n \in Nat, since[a] = None,
             since' = [since EXCEPT ![a] = n]
      PROVE  Cardinality(Listing') = Cardinality(Listing) + 1
  <2>1. Listing' = Listing \cup {a} /\ a \notin Listing
    BY <1>2 DEF Listing
  <2> QED
    BY <1>1, <2>1, FS_AddElement
<1>3. ASSUME NEW a \in Listing, since' = [since EXCEPT ![a] = None]
      PROVE  Cardinality(Listing') = Cardinality(Listing) - 1
  <2>1. Listing' = Listing \ {a}
    BY <1>3 DEF Listing
  <2> QED
    BY <1>1, <2>1, FS_RemoveElement
<1> QED
  BY <1>1, <1>2, <1>3, FS_CardinalityType

\* What an append with a data race leaves of the list: the accounts of ids that are
\* not cut out, and its own unless it is lost.
Leaves(a, list, n, m, own) ==
  /\ \A id : id \notin {users[i].id : i \in n + 1 .. m} /\ (id # adding[a].id \/ ~own) =>
       /\ HasAccount(list, id) <=> HasAccount(users, id)
       /\ HasAccount(users, id) => LastListed(list, id) = LastListed(users, id)
  /\ own => HasAccount(list, adding[a].id) /\ LastListed(list, adding[a].id) = adding[a]

LEMMA RaceCuts ==
  ASSUME TypeOK, NEW a \in Listing, NEW n \in since[a] .. Len(users),
         NEW m \in since[a] .. Len(users), n <= m, NEW own \in BOOLEAN,
         NEW list, list = IF own THEN Append(Cut(users, n, m), adding[a])
                          ELSE Cut(users, n, m)
  PROVE  /\ list \in Seq(Accounts) /\ Len(list) <= Len(users) + 1
         /\ Leaves(a, list, n, m, own)
<1> USE PipelineAssumption DEF PipelineAssumption
<1>1. /\ a \in Adders /\ adding[a] \in Accounts /\ since[a] \in 0 .. MaxUsers
      /\ users \in Seq(Accounts)
  BY DEF TypeOK, Listing
<1>2. n \in 0 .. Len(users) /\ m \in n .. Len(users)
  BY <1>1
<1>3. PICK shorter : shorter = Cut(users, n, m)
  OBVIOUS
<1>4. /\ shorter \in Seq(Accounts) /\ Len(shorter) <= Len(users)
      /\ \A id : id \notin {users[i].id : i \in n + 1 .. m} =>
           /\ HasAccount(shorter, id) <=> HasAccount(users, id)
           /\ HasAccount(users, id) => LastListed(shorter, id) = LastListed(users, id)
  BY <1>1, <1>2, <1>3, CutAccounts
<1>a. shorter \in Seq(Accounts) /\ Len(shorter) <= Len(users)
  BY <1>4
<1>5. CASE own
  <2>0. PICK account \in Accounts : account = adding[a]
    BY <1>1
  <2>1. list = Append(shorter, account)
    BY <1>3, <1>5, <2>0
  <2>2. ASSUME NEW id
        PROVE  LET longer == Append(shorter, account) IN
               /\ longer \in Seq(Accounts) /\ Len(longer) = Len(shorter) + 1
               /\ id = account.id => HasAccount(longer, id) /\ LastListed(longer, id) = account
               /\ id # account.id => /\ HasAccount(longer, id) <=> HasAccount(shorter, id)
                                     /\ HasAccount(shorter, id) =>
                                          LastListed(longer, id) = LastListed(shorter, id)
    BY <1>a, AppendAccount
  <2> QED
    <3>1. /\ list \in Seq(Accounts) /\ Len(list) = Len(shorter) + 1
          /\ HasAccount(list, account.id) /\ LastListed(list, account.id) = account
      BY <2>1, <2>2
    <3>2. \A id : id # account.id =>
            /\ HasAccount(list, id) <=> HasAccount(shorter, id)
            /\ HasAccount(shorter, id) => LastListed(list, id) = LastListed(shorter, id)
      BY <2>1, <2>2
    <3>3. Len(list) <= Len(users) + 1
      BY <1>1, <1>a, <3>1
    <3> QED
      BY <1>4, <1>5, <2>0, <3>1, <3>2, <3>3 DEF Leaves
<1>6. CASE ~own
  BY <1>1, <1>3, <1>4, <1>6 DEF Leaves
<1> QED
  BY <1>5, <1>6

\* Every step of the user manager and a restart keep the types.
LEMMA DirectoryTyped ==
  ASSUME TypeOK, Directory
  PROVE  TypeOK'
<1> USE PipelineAssumption DEF PipelineAssumption
<1>0. /\ Cardinality(Listing) \in Nat /\ Len(users) \in Nat
      /\ Len(users) + Cardinality(Listing) <= MaxUsers
      /\ since \in [Adders -> (0 .. MaxUsers) \cup {None}] /\ MaxUsers \in Nat
  BY ListingCounts DEF TypeOK
<1>1. ASSUME NEW a \in Adders, NEW account \in Accounts, BeginAdd(a, account)
      PROVE  TypeOK'
  <2>1. seen' \in [Requests -> SUBSET BOOLEAN]
    BY <1>1, ObserveTyped DEF BeginAdd, TypeOK
  <2>2. account.id \in Ids /\ account # None
    BY AccountAssumption DEF AccountAssumption, Accounts
  <2>3. since[a] = None
    BY <1>1 DEF BeginAdd, TypeOK, Listing
  <2>4. Cardinality(Listing') = Cardinality(Listing) + 1
    BY <1>0, <1>1, <2>3, ListingCounts DEF BeginAdd
  <2>5. Len(users') + Cardinality(Listing') <= MaxUsers
    BY <1>0, <1>1, <2>4 DEF BeginAdd
  <2>6. since' \in [Adders -> (0 .. MaxUsers) \cup {None}]
    BY <1>0, <1>1 DEF BeginAdd
  <2>7. \A b \in Listing' : adding'[b] # None
    BY <1>1, <2>2 DEF BeginAdd, TypeOK, Listing
  <2> QED
    BY <1>1, <2>1, <2>2, <2>5, <2>6, <2>7 DEF BeginAdd, TypeOK
<1>2. ASSUME NEW a \in Listing, NEW list \in Seq(Accounts), Len(list) <= Len(users) + 1,
             Appended(a, list), adding' \in {adding, [adding EXCEPT ![a] = None]}
      PROVE  /\ users' \in Seq(Accounts) /\ Len(users') + Cardinality(Listing') <= MaxUsers
             /\ since' \in [Adders -> (0 .. MaxUsers) \cup {None}]
             /\ \A b \in Listing' : adding'[b] # None
  <2>1. Cardinality(Listing') = Cardinality(Listing) - 1
    BY <1>0, <1>2, ListingCounts DEF Appended
  <2>2. users' = list /\ Len(list) \in Nat
    BY <1>2 DEF Appended
  <2>3. \A b \in Listing' : b \in Listing /\ b # a
    BY <1>0, <1>2 DEF Appended, Listing
  <2>4. \A b \in Listing' : adding'[b] # None
    BY <1>2, <2>3 DEF TypeOK, Listing
  <2>5. since' \in [Adders -> (0 .. MaxUsers) \cup {None}]
    BY <1>0, <1>2 DEF Appended
  <2> QED
    BY <1>0, <1>2, <2>1, <2>2, <2>4, <2>5
<1>3. ASSUME NEW a \in Adders, overlapped' = Meet(a, Indexing)
      PROVE  overlapped' \subseteq Adders \cup Requests
  BY <1>3 DEF Meet, Indexing, TypeOK
<1>4. ASSUME NEW a \in Adders, ListUser(a)
      PROVE  TypeOK'
  <2>1. a \in Listing /\ adding[a] \in Accounts /\ users \in Seq(Accounts)
    BY <1>4 DEF ListUser, TypeOK
  <2>2. PICK list : list = Append(users, adding[a])
    OBVIOUS
  <2>3. list \in Seq(Accounts) /\ Len(list) <= Len(users) + 1
    BY <2>1, <2>2, AppendProperties
  <2>4. Appended(a, list) /\ adding' = adding
    BY <1>4, <2>2 DEF ListUser
  <2>5. overlapped' \subseteq Adders \cup Requests
    BY <1>3, <1>4 DEF ListUser
  <2>6. /\ users' \in Seq(Accounts) /\ Len(users') + Cardinality(Listing') <= MaxUsers
        /\ since' \in [Adders -> (0 .. MaxUsers) \cup {None}]
        /\ \A b \in Listing' : adding'[b] # None
    BY <1>2, <2>1, <2>3, <2>4
  <2> QED
    BY <1>4, <2>5, <2>6 DEF ListUser, TypeOK
<1>5. ASSUME NEW a \in Adders, ListUserRaces(a)
      PROVE  TypeOK'
  <2>1. a \in Listing /\ adding[a] \in Accounts
    BY <1>5 DEF ListUserRaces, TypeOK
  <2>2. PICK n \in since[a] .. Len(users), m \in since[a] .. Len(users), own \in BOOLEAN :
          /\ n <= m
          /\ Appended(a, IF own THEN Append(Cut(users, n, m), adding[a])
                         ELSE Cut(users, n, m))
          /\ \/ /\ overlapped' = Meet(a, Indexing)
                /\ loose' = loose \cup {users[i].id : i \in n + 1 .. m}
                               \cup (IF own THEN {} ELSE {adding[a].id})
                /\ UNCHANGED adding
             \/ /\ ~own
                /\ adding' = [adding EXCEPT ![a] = None]
                /\ loose' = loose \cup {users[i].id : i \in n + 1 .. m}
                /\ UNCHANGED overlapped
          /\ Observe(users', Unsettled \cup loose')
    BY <1>5 DEF ListUserRaces
  <2>3. PICK list : list = IF own THEN Append(Cut(users, n, m), adding[a])
                           ELSE Cut(users, n, m)
    OBVIOUS
  <2>4. list \in Seq(Accounts) /\ Len(list) <= Len(users) + 1
    BY <2>1, <2>2, <2>3, RaceCuts
  <2>5. /\ users' \in Seq(Accounts) /\ Len(users') + Cardinality(Listing') <= MaxUsers
        /\ since' \in [Adders -> (0 .. MaxUsers) \cup {None}]
        /\ \A b \in Listing' : adding'[b] # None
    BY <1>2, <2>1, <2>2, <2>3, <2>4
  <2>6. overlapped' \subseteq Adders \cup Requests
    BY <1>3, <2>2 DEF TypeOK
  <2>7. seen' \in [Requests -> SUBSET BOOLEAN]
    BY <2>2, ObserveTyped DEF TypeOK
  <2>8. loose' \subseteq Ids
    <3>1. since[a] \in Nat
      BY <2>1 DEF Listing, TypeOK
    <3>2. \A i \in n + 1 .. m : users[i].id \in Ids
      <4>1. \A i \in n + 1 .. m : i \in 1 .. Len(users)
        BY <1>0, <2>2, <3>1
      <4> QED
        BY <4>1 DEF TypeOK, Accounts
    <3>3. adding[a].id \in Ids
      BY <2>1 DEF Accounts
    <3> QED
      BY <2>2, <3>2, <3>3 DEF TypeOK
  <2>9. adding' \in [Adders -> Accounts \cup {None}]
    BY <2>2 DEF TypeOK
  <2> QED
    BY <1>5, <2>5, <2>6, <2>7, <2>8, <2>9 DEF ListUserRaces, TypeOK
<1>6. ASSUME NEW a \in Adders, a \in Indexing, Added(a), loose' \subseteq Ids,
             DOMAIN userById' \subseteq Ids, Range(userById') \subseteq Accounts
      PROVE  TypeOK'
  <2>1. seen' \in [Requests -> SUBSET BOOLEAN]
    BY <1>6, ObserveTyped DEF Added, TypeOK
  <2>2. Listing' = Listing /\ a \notin Listing
    BY <1>6 DEF Added, Listing, Indexing
  <2>3. \A b \in Listing' : adding'[b] # None
    BY <1>6, <2>2 DEF Added, TypeOK, Listing
  <2>4. Len(users') + Cardinality(Listing') <= MaxUsers
    BY <1>0, <1>6, <2>2 DEF Added
  <2> QED
    BY <1>6, <2>1, <2>3, <2>4 DEF Added, TypeOK
<1>7. ASSUME NEW a \in Adders, a \in Indexing
      PROVE  /\ adding[a] \in Accounts /\ adding[a].id \in Ids
             /\ DOMAIN userById \subseteq Ids /\ Range(userById) \subseteq Accounts
  BY <1>7 DEF TypeOK, Indexing, Accounts
<1>8. ASSUME NEW a \in Adders, IndexUser(a)
      PROVE  TypeOK'
  <2>1. a \in Indexing /\ Added(a) /\ userById' = PutIndex(userById, adding[a])
    BY <1>8 DEF IndexUser
  <2>2. DOMAIN userById' \subseteq Ids /\ Range(userById') \subseteq Accounts
    <3>1. PICK longer : longer = PutIndex(userById, adding[a])
      OBVIOUS
    <3>2. DOMAIN longer \subseteq Ids /\ Range(longer) \subseteq Accounts
      BY <1>7, <2>1, <3>1, PutTyped
    <3> QED
      BY <2>1, <3>1, <3>2
  <2>3. loose' \subseteq Ids
    BY <1>8 DEF IndexUser, TypeOK
  <2> QED
    BY <1>6, <2>1, <2>2, <2>3
<1>9. ASSUME NEW a \in Adders, IndexUserRaces(a)
      PROVE  TypeOK'
  <2>1. a \in Indexing /\ Added(a)
    BY <1>9 DEF IndexUserRaces
  <2>2. PICK index \in {userById, PutIndex(userById, adding[a])}, kept \in SUBSET Ids :
          userById' = Restrict(index, DOMAIN index \cap kept)
    BY <1>9 DEF IndexUserRaces
  <2>3. DOMAIN index \subseteq Ids /\ Range(index) \subseteq Accounts
    <3>1. PICK longer : longer = PutIndex(userById, adding[a])
      OBVIOUS
    <3>2. DOMAIN longer \subseteq Ids /\ Range(longer) \subseteq Accounts
      BY <1>7, <2>1, <3>1, PutTyped
    <3> QED
      BY <1>7, <2>1, <2>2, <3>1, <3>2
  <2>4. DOMAIN userById' \subseteq Ids /\ Range(userById') \subseteq Accounts
    BY <2>2, <2>3 DEF Restrict, Range
  <2>5. loose' \subseteq Ids
    BY <1>7, <1>9, <2>1 DEF IndexUserRaces, TypeOK
  <2> QED
    BY <1>6, <2>1, <2>4, <2>5
<1>10. CASE ClearUsers
  <2>1. seen' \in [Requests -> SUBSET BOOLEAN]
    BY <1>10, ObserveTyped DEF ClearUsers, TypeOK
  <2>2. \A i \in DOMAIN users : users[i].id \in Ids
    BY DEF TypeOK, Accounts
  <2>3. <<>> \in Seq(Accounts) /\ Len(<<>>) = 0
    OBVIOUS
  <2>4. Listing' = Listing
    BY <1>10 DEF ClearUsers, Listing
  <2>5. Len(users') + Cardinality(Listing') <= MaxUsers
    BY <1>0, <1>10, <2>3, <2>4 DEF ClearUsers
  <2>6. \A b \in Listing' : adding'[b] # None
    BY <1>10, <2>4 DEF ClearUsers, TypeOK
  <2> QED
    BY <1>10, <2>1, <2>2, <2>3, <2>5, <2>6 DEF ClearUsers, TypeOK
<1>11. CASE Save
  <2>1. Listing' = Listing
    BY <1>11 DEF Save, Listing
  <2>2. Len(file') <= MaxUsers
    BY <1>0, <1>11 DEF Save
  <2> QED
    BY <1>11, <2>1, <2>2 DEF Save, TypeOK
<1>12. CASE Restart
  <2>1. DOMAIN userById' \subseteq Ids /\ Range(userById') \subseteq Accounts
    BY <1>12, ReinitAgrees DEF Restart, TypeOK
  <2>2. Listing' = {}
    BY <1>12 DEF Restart, Listing
  <2>3. Len(users') + Cardinality(Listing') <= MaxUsers
    BY <1>12, <2>2, FS_EmptySet DEF Restart, TypeOK
  <2> QED
    BY <1>12, <2>1, <2>2, <2>3, NewTyped DEF Restart, TypeOK
<1> QED
  BY <1>1, <1>4, <1>5, <1>8, <1>9, <1>10, <1>11, <1>12 DEF Directory

\* A request that moves on, perhaps with a principal, stays well typed.
LEMMA MoveTyped ==
  ASSUME TypeOK, NEW r \in Requests, NEW point \in Points,
         NEW name \in Subjects \cup Ids \cup {None, "null"},
         \/ request' = [request EXCEPT ![r].pc = point]
         \/ request' = [request EXCEPT ![r].pc = point, ![r].principal = name],
         UNCHANGED <<settings, directory, overlapped, principalCache, seen>>,
         raced' = raced \/ raced' = raced \cup {r}
  PROVE  TypeOK'
<1>1. request' \in [Requests -> RequestType]
  <2>0. request[r] \in RequestType
    BY DEF TypeOK
  <2>1. [request[r] EXCEPT !.pc = point] \in RequestType
    BY <2>0 DEF RequestType
  <2>2. [request[r] EXCEPT !.pc = point, !.principal = name] \in RequestType
    BY <2>0 DEF RequestType
  <2> QED
    BY <2>1, <2>2 DEF TypeOK
<1>2. raced' \subseteq Requests
  BY DEF TypeOK
<1>3. Listing' = Listing
  BY DEF directory, Listing
<1> QED
  BY <1>1, <1>2, <1>3 DEF TypeOK, directory

\* Every step of a request keeps the types.
LEMMA HandleTyped ==
  ASSUME TypeOK, NEW r \in Requests, Handle(r),
         At(r, "cache") => request[r].subject # None
  PROVE  TypeOK'
<1> USE PipelineAssumption DEF PipelineAssumption, Points
<1>0. ASSUME UNCHANGED directory PROVE Listing' = Listing
  BY <1>0 DEF directory, Listing
<1>1. ASSUME NEW subject \in Subjects \cup {None}, NEW claimed \in Subjects \cup {None},
             NEW c \in Credentials, Receive(r, subject, claimed, c)
      PROVE  TypeOK'
  <2>1. Views(c, users, Unsettled) \subseteq BOOLEAN
    BY DEF Views
  <2>2. seen' \in [Requests -> SUBSET BOOLEAN]
    BY <1>1, <2>1 DEF Receive, TypeOK
  <2>3. request' \in [Requests -> RequestType]
    BY <1>1 DEF Receive, TypeOK, RequestType
  <2>4. overlapped' \subseteq Adders \cup Requests
    BY <1>1 DEF Receive, Meet, Caching, TypeOK
  <2> QED
    BY <1>0, <1>1, <2>2, <2>3, <2>4 DEF Receive, TypeOK, directory
<1>2. CASE CachePrincipal(r) \/ CachePrincipalRaces(r)
  <2>1. request[r].subject \in Subjects
    BY <1>2 DEF CachePrincipal, CachePrincipalRaces, TypeOK, RequestType
  <2>2. principalCache' \subseteq Subjects
    BY <1>2, <2>1 DEF CachePrincipal, CachePrincipalRaces, TypeOK
  <2>3. request' \in [Requests -> RequestType]
    <3>0. request[r] \in RequestType
      BY DEF TypeOK
    <3>1. [request[r] EXCEPT !.pc = "filter", !.header = request[r].subject] \in RequestType
      BY <2>1, <3>0 DEF RequestType
    <3>2. request' = [request EXCEPT ![r] = [request[r] EXCEPT !.pc = "filter",
                                              !.header = request[r].subject]]
      BY <1>2 DEF CachePrincipal, CachePrincipalRaces, NameRequest, TypeOK
    <3> QED
      BY <3>1, <3>2 DEF TypeOK
  <2>4. overlapped' \subseteq Adders \cup Requests /\ raced' \subseteq Requests
    BY <1>2 DEF CachePrincipal, CachePrincipalRaces, NameRequest, TypeOK
  <2>5. UNCHANGED <<settings, directory, seen>>
    BY <1>2 DEF CachePrincipal, CachePrincipalRaces
  <2> QED
    BY <1>0, <2>2, <2>3, <2>4, <2>5 DEF TypeOK, directory
<1>3. /\ request[r].header \in Subjects \cup {None}
      /\ request[r].credentials \in Credentials
  BY DEF TypeOK, RequestType
<1>4. CASE FilterKnown(r)
  BY <1>3, <1>4, MoveTyped DEF FilterKnown
<1>5. CASE FilterUnknown(r)
  BY <1>5, MoveTyped DEF FilterUnknown, GoTo
<1>6. CASE NoFilter(r)
  BY <1>6, MoveTyped DEF NoFilter, GoTo
<1>7. CASE AuthenticateOther(r)
  BY <1>7, MoveTyped DEF AuthenticateOther, GoTo
<1>8. CASE AuthenticateLogin(r)
  <2>1. request[r].credentials.id \in Ids
    BY <1>3, <1>8 DEF AuthenticateLogin, Credentials, Login
  <2> QED
    BY <1>8, <2>1, MoveTyped DEF AuthenticateLogin, GoTo
<1>9. CASE AuthenticateMisses(r)
  BY <1>9, MoveTyped DEF AuthenticateMisses, GoTo
<1>10. CASE Resource(r)
  <2>1. PICK point : /\ request' = [request EXCEPT ![r].pc = point]
                     /\ point = CASE ~request[r].valid             -> "notFound"
                                 [] request[r].principal = "null" -> "error"
                                 [] OTHER                         -> "served"
    BY <1>10 DEF Resource, GoTo
  <2>2. point \in Points
    BY <2>1
  <2> QED
    BY <1>10, <2>1, <2>2, MoveTyped DEF Resource
<1> QED
  BY <1>1, <1>2, <1>4, <1>5, <1>6, <1>7, <1>8, <1>9, <1>10 DEF Handle

-----------------------------------------------------------------------------
(* The index follows the list.                                             *)

\* Steps of requests leave the user manager alone.
LEMMA HandleDirectory ==
  ASSUME NEW r \in Requests, Handle(r)
  PROVE  UNCHANGED <<settings, directory>>
BY DEF Handle, Receive, CachePrincipal, CachePrincipalRaces, FilterKnown, FilterUnknown,
       NoFilter, AuthenticateOther, AuthenticateLogin, AuthenticateMisses, Resource

\* The accounts that are being added, after a step that changes what one adder adds.
LEMMA PendingAfter ==
  ASSUME TypeOK, NEW a \in Adders, NEW value,
         adding' = [adding EXCEPT ![a] = value], NEW id
  PROVE  Pending(id)' = IF value # None /\ value.id = id
                        THEN Pending(id) \cup {a} ELSE Pending(id) \ {a}
BY DEF Pending, TypeOK

SameLast(id) ==
  /\ HasAccount(users', id) <=> HasAccount(users, id)
  /\ HasAccount(users, id) => LastListed(users', id) = LastListed(users, id)
SameEntry(id) ==
  /\ id \in DOMAIN userById' <=> id \in DOMAIN userById
  /\ id \in DOMAIN userById => userById'[id] = userById[id]

\* What neither the list nor the index changes of an id still matches.
LEMMA MatchKept ==
  ASSUME NEW id, Match(id), SameLast(id), SameEntry(id)
  PROVE  Match(id)'
BY DEF Match, SameLast, SameEntry

\* A step that does not touch the id of an adder leaves what holds of it.
LEMMA SoleKept ==
  ASSUME NEW b \in Adders, Sole(b), adding'[b] = adding[b], since'[b] = since[b],
         NEW id, adding[b] # None => id = adding[b].id,
         adding[b] # None /\ id \notin loose' =>
           /\ id \notin loose /\ Pending(id)' = Pending(id)
           /\ SameLast(id) /\ SameEntry(id)
  PROVE  Sole(b)'
<1>1. CASE adding[b] # None /\ id \notin loose'
  <2>1. since[b] # None => Match(id)'
    BY <1>1, MatchKept DEF Sole
  <2>2. since[b] = None => HasAccount(users', id) /\ LastListed(users', id) = adding[b]
    BY <1>1 DEF Sole, SameLast
  <2> QED
    BY <1>1, <2>1, <2>2 DEF Sole
<1>2. CASE ~(adding[b] # None /\ id \notin loose')
  BY <1>2 DEF Sole
<1> QED
  BY <1>1, <1>2

\* add() begins: the id becomes unsettled, and loose if another thread adds it.
LEMMA BeginDirectory ==
  ASSUME TypeOK, DirectoryInv, NEW a \in Adders, NEW account \in Accounts,
         BeginAdd(a, account)
  PROVE  /\ DirectoryInv'
         /\ Unsettled' \subseteq Unsettled \cup {account.id}
<1> USE PipelineAssumption DEF PipelineAssumption
<1>1. /\ adding[a] = None /\ adding' = [adding EXCEPT ![a] = account]
      /\ since' = [since EXCEPT ![a] = Len(users)] /\ users' = users /\ userById' = userById
      /\ loose' = IF Pending(account.id) # {} THEN loose \cup {account.id} ELSE loose
      /\ Len(users) \in Nat
  BY DEF BeginAdd, TypeOK
<1>2. account.id \in Ids /\ account # None
  BY AccountAssumption DEF AccountAssumption, Accounts
<1>3. \A id : Pending(id)' = IF id = account.id THEN Pending(id) \cup {a}
                             ELSE Pending(id) \ {a}
  BY <1>1, <1>2, PendingAfter
<1>4. \A id : a \notin Pending(id)
  BY <1>1 DEF Pending
<1>5. Unsettled' = Unsettled \cup {account.id}
  BY <1>1, <1>2, <1>3, <1>4 DEF Unsettled
<1>6. \A id : SameLast(id) /\ SameEntry(id)
  BY <1>1 DEF SameLast, SameEntry
<1>7. ASSUME NEW id \in Ids PROVE Agree(id)'
  BY <1>5, <1>6, MatchKept DEF Agree, DirectoryInv
<1>8. ASSUME NEW b \in Adders PROVE Sole(b)'
  <2>1. CASE b = a
    <3>1. adding'[b] = account /\ since'[b] # None
      BY <1>1, <2>1 DEF TypeOK
    <3>2. CASE account.id \notin loose'
      <4>1. Pending(account.id) = {} /\ account.id \notin loose
        BY <1>1, <3>2
      <4>2. account.id \notin Unsettled
        BY <4>1 DEF Unsettled
      <4>3. Match(account.id)'
        BY <1>2, <1>6, <4>2, MatchKept DEF Agree, DirectoryInv
      <4>4. Pending(account.id)' = {a}
        BY <1>3, <4>1
      <4> QED
        BY <2>1, <3>1, <4>3, <4>4 DEF Sole
    <3> QED
      BY <3>1, <3>2 DEF Sole
  <2>2. CASE b # a
    <3>1. Sole(b) /\ adding'[b] = adding[b] /\ since'[b] = since[b]
      BY <1>1, <2>2 DEF TypeOK, DirectoryInv
    <3>2. PICK id : adding[b] # None => id = adding[b].id
      OBVIOUS
    <3>3. adding[b] # None /\ id \notin loose' => id \notin loose /\ Pending(id)' = Pending(id)
      <4>1. adding[b] # None => b \in Pending(id)
        BY <3>2 DEF Pending
      <4>2. adding[b] # None /\ id \notin loose' => id # account.id /\ id \notin loose
        BY <1>1, <4>1
      <4>3. id # account.id => Pending(id)' = Pending(id)
        <5>1. Pending(id) \ {a} = Pending(id)
          BY <1>4
        <5> QED
          BY <1>3, <5>1
      <4> QED
        BY <4>2, <4>3
    <3> QED
      BY <1>6, <3>1, <3>2, <3>3, SoleKept
  <2> QED
    BY <2>1, <2>2
<1> QED
  BY <1>5, <1>7, <1>8 DEF DirectoryInv

\* An append ends, whatever it leaves of the list: an id that it may have lost or
\* displaced is loose, or is still to be indexed by this adder alone.
LEMMA AppendDirectory ==
  ASSUME TypeOK, DirectoryInv, NEW a \in Listing,
         since' = [since EXCEPT ![a] = None], userById' = userById,
         loose \subseteq loose',
         \A id : id \notin loose' /\ id # adding[a].id => SameLast(id),
         \/ /\ adding' = adding
            /\ adding[a].id \notin loose' =>
                 HasAccount(users', adding[a].id) /\ LastListed(users', adding[a].id) = adding[a]
         \/ /\ adding' = [adding EXCEPT ![a] = None]
            /\ adding[a].id \notin loose' => SameLast(adding[a].id)
  PROVE  DirectoryInv'
<1> USE PipelineAssumption DEF PipelineAssumption
<1>1. /\ a \in Adders /\ adding[a] \in Accounts /\ adding[a] # None
      /\ adding[a].id \in Ids /\ a \in Pending(adding[a].id) /\ since[a] # None
  BY DEF TypeOK, Listing, Accounts, Pending
<1>2. \A id : SameEntry(id)
  BY DEF SameEntry
<1>3. \A id : id # adding[a].id => Pending(id)' = Pending(id)
  BY <1>1, PendingAfter DEF Pending
<1>4. ASSUME NEW id \in Ids PROVE Agree(id)'
  <2>1. CASE id # adding[a].id
    <3>1. id \notin Unsettled' => id \notin Unsettled /\ id \notin loose'
      BY <1>3, <2>1 DEF Unsettled
    <3> QED
      BY <1>2, <2>1, <3>1, MatchKept DEF Agree, DirectoryInv
  <2>2. CASE id = adding[a].id /\ id \notin Unsettled'
    <3>1. id \notin loose' /\ Pending(id)' = {}
      BY <2>2 DEF Unsettled
    <3>2. adding' # adding
      BY <1>1, <2>2, <3>1 DEF Pending
    <3>3. Sole(a) /\ id \notin loose
      BY <1>1, <3>1 DEF DirectoryInv
    <3>4. Match(id)
      BY <1>1, <2>2, <3>3 DEF Sole
    <3> QED
      BY <1>2, <2>2, <3>1, <3>2, <3>4, MatchKept DEF Agree
  <2> QED
    BY <2>1, <2>2 DEF Agree
<1>5. ASSUME NEW b \in Adders PROVE Sole(b)'
  <2>1. CASE b = a
    <3>1. CASE adding' = adding
      <4>1. since'[a] = None /\ Sole(a)
        BY <1>1, <2>1 DEF TypeOK, DirectoryInv
      <4>2. \A id : Pending(id)' = Pending(id)
        BY <3>1 DEF Pending
      <4>3. ASSUME adding[a].id \notin loose'
            PROVE  HasAccount(users', adding[a].id) /\ LastListed(users', adding[a].id) = adding[a]
        BY <1>1, <3>1, <4>3 DEF TypeOK
      <4> QED
        BY <1>1, <2>1, <3>1, <4>1, <4>2, <4>3 DEF Sole
    <3>2. CASE adding' = [adding EXCEPT ![a] = None]
      BY <1>1, <2>1, <3>2 DEF Sole, TypeOK
    <3> QED
      BY <3>1, <3>2
  <2>2. CASE b # a
    <3>1. Sole(b) /\ adding'[b] = adding[b] /\ since'[b] = since[b]
      BY <1>1, <2>2 DEF TypeOK, DirectoryInv
    <3>2. PICK id : adding[b] # None => id = adding[b].id
      OBVIOUS
    <3>3. adding[b] # None /\ id \notin loose' =>
            id \notin loose /\ Pending(id)' = Pending(id) /\ SameLast(id)
      <4>1. adding[b] # None /\ id \notin loose' => Pending(id) = {b}
        BY <3>1, <3>2 DEF Sole
      <4> QED
        BY <1>1, <1>3, <2>2, <4>1
    <3> QED
      BY <1>2, <3>1, <3>2, <3>3, SoleKept
  <2> QED
    BY <2>1, <2>2
<1> QED
  BY <1>4, <1>5 DEF DirectoryInv

\* The append of add() that no other one overlaps.
LEMMA ListDirectory ==
  ASSUME TypeOK, DirectoryInv, NEW a \in Adders, ListUser(a)
  PROVE  /\ DirectoryInv' /\ Unsettled' = Unsettled /\ adding[a].id \in Unsettled
         /\ \A id : id # adding[a].id => SameLast(id)
<1>1. /\ a \in Listing /\ users' = Append(users, adding[a]) /\ users \in Seq(Accounts)
      /\ since' = [since EXCEPT ![a] = None]
      /\ userById' = userById /\ loose' = loose /\ adding' = adding
  BY DEF ListUser, Appended, TypeOK
<1>2. PICK account \in Accounts : account = adding[a]
  BY <1>1 DEF Listing, TypeOK
<1>3. ASSUME NEW id
      PROVE  LET longer == Append(users, account) IN
             /\ longer \in Seq(Accounts) /\ Len(longer) = Len(users) + 1
             /\ id = account.id => HasAccount(longer, id) /\ LastListed(longer, id) = account
             /\ id # account.id => /\ HasAccount(longer, id) <=> HasAccount(users, id)
                                   /\ HasAccount(users, id) =>
                                        LastListed(longer, id) = LastListed(users, id)
  BY <1>1, AppendAccount
<1>4. \A id : id # adding[a].id => SameLast(id)
  BY <1>1, <1>2, <1>3 DEF SameLast
<1>5. HasAccount(users', adding[a].id) /\ LastListed(users', adding[a].id) = adding[a]
  BY <1>1, <1>2, <1>3
<1>6. DirectoryInv'
  BY <1>1, <1>4, <1>5, AppendDirectory
<1>7. Unsettled' = Unsettled
  BY <1>1 DEF Unsettled, Pending
<1>8. adding[a].id \in Unsettled
  BY <1>1, <1>2 DEF Unsettled, Pending, Listing, TypeOK, Accounts
<1> QED
  BY <1>4, <1>6, <1>7, <1>8

\* The append of add() that others overlap: what it loses is loose.
LEMMA ListRacesDirectory ==
  ASSUME TypeOK, DirectoryInv, NEW a \in Adders, ListUserRaces(a)
  PROVE  /\ DirectoryInv' /\ Unsettled' \subseteq Unsettled \cup loose'
         /\ Observe(users', Unsettled \cup loose')
<1>1. /\ a \in Listing /\ userById' = userById
  BY DEF ListUserRaces
<1>2. PICK n \in since[a] .. Len(users), m \in since[a] .. Len(users), own \in BOOLEAN :
        /\ n <= m
        /\ Appended(a, IF own THEN Append(Cut(users, n, m), adding[a])
                       ELSE Cut(users, n, m))
        /\ \/ /\ overlapped' = Meet(a, Indexing)
              /\ loose' = loose \cup {users[i].id : i \in n + 1 .. m}
                             \cup (IF own THEN {} ELSE {adding[a].id})
              /\ UNCHANGED adding
           \/ /\ ~own
              /\ adding' = [adding EXCEPT ![a] = None]
              /\ loose' = loose \cup {users[i].id : i \in n + 1 .. m}
              /\ UNCHANGED overlapped
        /\ Observe(users', Unsettled \cup loose')
  BY DEF ListUserRaces
<1>3. PICK list : list = IF own THEN Append(Cut(users, n, m), adding[a])
                         ELSE Cut(users, n, m)
  OBVIOUS
<1>4. Leaves(a, list, n, m, own)
  <2>1. a \in Listing /\ n <= m
    BY <1>1, <1>2
  <2> QED
    BY <1>3, <2>1, RaceCuts
<1>5. users' = list /\ since' = [since EXCEPT ![a] = None] /\ loose \subseteq loose'
  BY <1>2, <1>3 DEF Appended
<1>6. \A id : id \notin loose' /\ (id # adding[a].id \/ ~own) => SameLast(id)
  <2>1. \A id : id \notin loose' => id \notin {users[i].id : i \in n + 1 .. m}
    BY <1>2
  <2> QED
    BY <1>4, <1>5, <2>1 DEF SameLast, Leaves
<1>7. \/ /\ adding' = adding
         /\ adding[a].id \notin loose' =>
              HasAccount(users', adding[a].id) /\ LastListed(users', adding[a].id) = adding[a]
      \/ /\ adding' = [adding EXCEPT ![a] = None]
         /\ adding[a].id \notin loose' => SameLast(adding[a].id)
  <2>1. CASE ~own /\ adding' = [adding EXCEPT ![a] = None]
    BY <1>6, <2>1
  <2>2. CASE adding' = adding
    <3>1. adding[a].id \notin loose' => own
      BY <1>1, <1>2, <2>2 DEF Listing, TypeOK
    <3> QED
      BY <1>4, <1>5, <2>2, <3>1 DEF Leaves
  <2> QED
    BY <1>2, <2>1, <2>2
<1>8. DirectoryInv'
  BY <1>1, <1>5, <1>6, <1>7, AppendDirectory
<1>9. Unsettled' \subseteq Unsettled \cup loose'
  BY <1>2 DEF Unsettled, Pending, TypeOK
<1> QED
  BY <1>2, <1>8, <1>9

\* A put into the index ends: what it may have lost is loose, and the id of the
\* adder becomes settled only if its account is the last one.
LEMMA PutDirectory ==
  ASSUME TypeOK, DirectoryInv, NEW a \in Indexing, Added(a),
         \A id : id # adding[a].id /\ id \notin loose' => id \notin loose /\ SameEntry(id),
         adding[a].id \notin loose' =>
           /\ \/ adding[a].id \notin loose
              \/ Settles(a, adding[a])
           /\ adding[a].id \in DOMAIN userById' /\ userById'[adding[a].id] = adding[a]
  PROVE  /\ DirectoryInv' /\ Unsettled' \subseteq Unsettled \cup loose'
         /\ Observe(users', Unsettled \cup loose')
<1> USE PipelineAssumption DEF PipelineAssumption
<1>1. /\ a \in Adders /\ adding[a] # None /\ since[a] = None
      /\ adding[a].id \in Ids /\ a \in Pending(adding[a].id)
      /\ adding' = [adding EXCEPT ![a] = None] /\ users' = users /\ since' = since
  BY DEF Added, Indexing, Listing, TypeOK, Accounts, Pending
<1>2. \A id : SameLast(id)
  BY <1>1 DEF SameLast
<1>3. \A id : Pending(id)' = Pending(id) \ {a}
  BY <1>1, PendingAfter
<1>4. \A id : id # adding[a].id => Pending(id)' = Pending(id)
  BY <1>1, <1>3 DEF Pending
<1>5. adding[a].id \notin loose' => Settles(a, adding[a])
  BY <1>1 DEF DirectoryInv, Sole, Settles
<1>6. ASSUME NEW id \in Ids PROVE Agree(id)'
  <2>1. CASE id # adding[a].id
    <3>1. id \notin Unsettled' => id \notin Unsettled /\ id \notin loose'
      BY <1>4, <2>1 DEF Unsettled
    <3> QED
      BY <1>2, <2>1, <3>1, MatchKept DEF Agree, DirectoryInv
  <2>2. CASE id = adding[a].id
    <3>1. CASE id \notin loose'
      BY <1>1, <1>5, <2>2, <3>1 DEF Agree, Match, Settles
    <3>2. CASE id \in loose'
      BY <3>2 DEF Agree, Unsettled
    <3> QED
      BY <3>1, <3>2
  <2> QED
    BY <2>1, <2>2
<1>7. ASSUME NEW b \in Adders PROVE Sole(b)'
  <2>1. CASE b = a
    BY <1>1, <2>1 DEF Sole, TypeOK
  <2>2. CASE b # a
    <3>1. Sole(b) /\ adding'[b] = adding[b] /\ since'[b] = since[b]
      BY <1>1, <2>2 DEF TypeOK, DirectoryInv
    <3>2. PICK id : adding[b] # None => id = adding[b].id
      OBVIOUS
    <3>3. adding[b] # None /\ id \notin loose' => id # adding[a].id
      <4>1. adding[b] # None => b \in Pending(id)
        BY <3>2 DEF Pending
      <4> QED
        BY <1>5, <2>2, <4>1 DEF Settles
    <3>4. adding[b] # None /\ id \notin loose' =>
            /\ id \notin loose /\ Pending(id)' = Pending(id)
            /\ SameLast(id) /\ SameEntry(id)
      BY <1>2, <1>4, <3>3
    <3> QED
      BY <3>1, <3>2, <3>4, SoleKept
  <2> QED
    BY <2>1, <2>2
<1>8. Unsettled' \subseteq Unsettled \cup loose'
  BY <1>3 DEF Unsettled
<1>9. Observe(users', Unsettled \cup loose')
  BY <1>1 DEF Added
<1> QED
  BY <1>6, <1>7, <1>8, <1>9 DEF DirectoryInv

\* The put of add(), with or without a data race.
LEMMA IndexDirectory ==
  ASSUME TypeOK, DirectoryInv, NEW a \in Adders, IndexUser(a) \/ IndexUserRaces(a)
  PROVE  /\ DirectoryInv' /\ Unsettled' \subseteq Unsettled \cup loose'
         /\ Observe(users', Unsettled \cup loose')
<1>0. a \in Indexing /\ Added(a)
  BY DEF IndexUser, IndexUserRaces
<1>1. /\ adding[a] \in Accounts /\ DOMAIN userById \subseteq Ids
      /\ Range(userById) \subseteq Accounts
  BY <1>0 DEF Indexing, TypeOK
<1>2. PICK account \in Accounts : account = adding[a]
  BY <1>1
<1>3. PICK longer : longer = PutIndex(userById, account)
  OBVIOUS
<1>4. /\ DOMAIN longer = DOMAIN userById \cup {account.id}
      /\ longer[account.id] = account
      /\ \A id \in DOMAIN userById \ {account.id} : longer[id] = userById[id]
      /\ DOMAIN longer \subseteq Ids
  BY <1>1, <1>3, PutTyped
<1>5. CASE IndexUser(a)
  <2>1. userById' = longer
    BY <1>2, <1>3, <1>5 DEF IndexUser
  <2>2. loose' = IF Settles(a, adding[a]) THEN loose \ {adding[a].id} ELSE loose
    BY <1>5 DEF IndexUser
  <2>3. \A id : id # adding[a].id /\ id \notin loose' => id \notin loose /\ SameEntry(id)
    BY <1>2, <1>4, <2>1, <2>2 DEF SameEntry
  <2>4. adding[a].id \notin loose' =>
          /\ adding[a].id \notin loose \/ Settles(a, adding[a])
          /\ adding[a].id \in DOMAIN userById' /\ userById'[adding[a].id] = adding[a]
    BY <1>2, <1>4, <2>1, <2>2
  <2> QED
    BY <1>0, <2>3, <2>4, PutDirectory
<1>6. CASE IndexUserRaces(a)
  <2>1. PICK index \in {userById, longer}, kept \in SUBSET Ids :
          userById' = Restrict(index, DOMAIN index \cap kept)
    BY <1>2, <1>3, <1>6 DEF IndexUserRaces
  <2>2. loose' = loose \cup {adding[a].id} \cup (DOMAIN userById \ DOMAIN userById')
    BY <1>6 DEF IndexUserRaces
  <2>3. /\ DOMAIN userById' = DOMAIN index \cap kept
        /\ \A id \in DOMAIN userById' : userById'[id] = index[id]
    BY <2>1 DEF Restrict
  <2>4. \A id : id # adding[a].id /\ id \notin loose' => id \notin loose /\ SameEntry(id)
    BY <1>2, <1>4, <2>1, <2>2, <2>3 DEF SameEntry
  <2> QED
    BY <1>0, <2>2, <2>4, PutDirectory
<1> QED
  BY <1>5, <1>6

\* Every step of the user manager, and a restart, leave the index in agreement
\* with the list.
LEMMA DirectoryKept ==
  ASSUME TypeOK, DirectoryInv, Directory
  PROVE  DirectoryInv'
<1>1. CASE ClearUsers
  <2>1. /\ users' = <<>> /\ userById' = userById /\ adding' = adding /\ since' = since
        /\ loose' = loose \cup {users[i].id : i \in DOMAIN users} /\ Listing = {}
    BY <1>1 DEF ClearUsers
  <2>2. DOMAIN <<>> = {}
    OBVIOUS
  <2>3. \A id : ~HasAccount(users', id)
    BY <2>1, <2>2 DEF HasAccount
  <2>4. \A id : HasAccount(users, id) => id \in loose'
    BY <2>1 DEF HasAccount
  <2>5. \A id : Pending(id)' = Pending(id)
    BY <2>1 DEF Pending
  <2>6. ASSUME NEW id \in Ids PROVE Agree(id)'
    <3>1. CASE id \in Unsettled'
      BY <3>1 DEF Agree
    <3>2. CASE id \notin Unsettled'
      <4>1. id \notin Unsettled /\ ~HasAccount(users, id)
        BY <2>1, <2>4, <2>5, <3>2 DEF Unsettled
      <4> QED
        BY <2>1, <2>3, <4>1 DEF Agree, Match, DirectoryInv
    <3> QED
      BY <3>1, <3>2
  <2>7. ASSUME NEW a \in Adders PROVE Sole(a)'
    <3>1. since[a] = None
      BY <2>1 DEF Listing
    <3>2. adding[a] # None /\ adding[a].id \notin loose' => FALSE
      BY <2>1, <2>4, <3>1 DEF DirectoryInv, Sole
    <3> QED
      BY <2>1, <3>2 DEF Sole
  <2> QED
    BY <2>6, <2>7 DEF DirectoryInv
<1>2. CASE Save
  BY <1>2 DEF Save, DirectoryInv, Agree, Match, Sole, Unsettled, Pending
<1>3. CASE Restart
  <2>1. /\ users' = file /\ userById' = ReinitUserById(file)
        /\ file \in Seq(Accounts)
        /\ \A a \in Adders : adding'[a] = None
    BY <1>3 DEF Restart, TypeOK
  <2>2. /\ \A id : id \in DOMAIN userById' <=> HasAccount(users', id)
        /\ \A id : HasAccount(users', id) => userById'[id] = LastListed(users', id)
    BY <2>1, ReinitAgrees
  <2> QED
    BY <2>1, <2>2 DEF DirectoryInv, Agree, Match, Sole
<1> QED
  BY <1>1, <1>2, <1>3, BeginDirectory, ListDirectory, ListRacesDirectory, IndexDirectory
     DEF Directory

-----------------------------------------------------------------------------
(* What a request has seen of the list.                                    *)

\* With fewer unsettled ids there are fewer answers.
LEMMA FewerViews ==
  ASSUME NEW c, NEW list, NEW few, NEW many, c.kind = "login" /\ c.id \in few => c.id \in many
  PROVE  Views(c, list, few) \subseteq Views(c, list, many)
BY DEF Views

\* A step of the user manager notes what the list then says of every request that
\* is under way.
LEMMA DirectoryNoted ==
  ASSUME TypeOK, DirectoryInv, Directory, NEW r \in Requests, Noted(r)
  PROVE  Noted(r)'
<1> DEFINE c == request[r].credentials
<1>0. c \in Credentials /\ (c.kind = "login" => c.id \in Ids)
  BY DEF TypeOK, RequestType, Credentials, Login
<1>1. ASSUME request' = request, raced' = raced, seen[r] \subseteq seen'[r],
             Views(c, users', Unsettled') \subseteq seen'[r]
      PROVE  Noted(r)'
  BY <1>1 DEF Noted
<1>2. ASSUME request' = request, raced' = raced, NEW many,
             Observe(users', many), Unsettled' \subseteq many
      PROVE  Noted(r)'
  <2>1. Views(c, users', Unsettled') \subseteq Views(c, users', many)
    BY <1>2, FewerViews
  <2>2. seen'[r] = seen[r] \cup Views(c, users', many)
    BY <1>2 DEF Observe
  <2> QED
    BY <1>1, <1>2, <2>1, <2>2
<1>3. ASSUME NEW a \in Adders, NEW account \in Accounts, BeginAdd(a, account)
      PROVE  Noted(r)'
  <2>1. /\ request' = request /\ raced' = raced
        /\ Observe(users', Unsettled \cup {account.id})
    BY <1>3 DEF BeginAdd
  <2>2. Unsettled' \subseteq Unsettled \cup {account.id}
    BY <1>3, BeginDirectory
  <2> QED
    BY <1>2, <2>1, <2>2
<1>4. ASSUME NEW a \in Adders, ListUser(a)
      PROVE  Noted(r)'
  <2>1. request' = request /\ raced' = raced /\ seen' = seen
    BY <1>4 DEF ListUser
  <2>2. /\ Unsettled' = Unsettled /\ adding[a].id \in Unsettled
        /\ \A id : id # adding[a].id => SameLast(id)
    BY <1>4, ListDirectory
  <2>3. Views(c, users', Unsettled') = Views(c, users, Unsettled)
    BY <2>2 DEF Views, SameLast
  <2> QED
    BY <1>1, <2>1, <2>3 DEF Noted
<1>5. ASSUME NEW a \in Adders, ListUserRaces(a) \/ IndexUser(a) \/ IndexUserRaces(a)
      PROVE  Noted(r)'
  <2>1. request' = request /\ raced' = raced
    BY <1>5 DEF ListUserRaces, IndexUser, IndexUserRaces, Added
  <2>2. Unsettled' \subseteq Unsettled \cup loose' /\ Observe(users', Unsettled \cup loose')
    BY <1>5, ListRacesDirectory, IndexDirectory
  <2> QED
    BY <1>2, <2>1, <2>2
<1>6. CASE ClearUsers
  <2>1. request' = request /\ raced' = raced /\ Observe(users', Unsettled \cup loose')
    BY <1>6 DEF ClearUsers
  <2>2. Unsettled' \subseteq Unsettled \cup loose'
    BY <1>6 DEF ClearUsers, Unsettled, Pending
  <2> QED
    BY <1>2, <2>1, <2>2
<1>7. CASE Save
  BY <1>7 DEF Save, Noted, Unsettled, Pending
<1>8. CASE Restart
  BY <1>8 DEF Restart, Noted, NewRequest, Views
<1> QED
  BY <1>3, <1>4, <1>5, <1>6, <1>7, <1>8 DEF Directory

\* A step of one request leaves what is noted of the others.
LEMMA OtherNoted ==
  ASSUME NEW r \in Requests, Noted(r), UNCHANGED directory,
         request'[r] = request[r], seen'[r] = seen[r], raced \subseteq raced'
  PROVE  Noted(r)'
<1>1. users' = users /\ Unsettled' = Unsettled
  BY DEF directory, Unsettled, Pending
<1> QED
  BY <1>1 DEF Noted

\* A request that decides rests on what the list says at that moment.
LEMMA HandleNoted ==
  ASSUME TypeOK, DirectoryInv, NEW r \in Requests, Handle(r), Noted(r),
         Identified(r), NEW z \in Requests, Noted(z)
  PROVE  Noted(z)'
<1> USE PipelineAssumption DEF PipelineAssumption
<1> DEFINE c     == request[r].credentials
           right == /\ HasAccount(users, c.id)
                    /\ LastListed(users, c.id).password = Encrypt(BeforeColon[c.password])
<1>0. /\ c \in Credentials /\ request[r].header \in Subjects \cup {None}
      /\ c.kind = "login" => c.id \in Ids
      /\ c.kind # "login" => c.id = None
  BY DEF TypeOK, RequestType, Credentials, Login
<1>1. users' = users /\ Unsettled' = Unsettled
  BY HandleDirectory DEF directory, Unsettled, Pending
<1>2. CASE z # r
  <2>1. request'[z] = request[z] /\ seen'[z] = seen[z] /\ raced \subseteq raced'
    BY <1>2 DEF Handle, Receive, CachePrincipal, CachePrincipalRaces, NameRequest,
       FilterKnown, FilterUnknown, NoFilter, AuthenticateOther, AuthenticateLogin,
       AuthenticateMisses, Resource, GoTo, TypeOK
  <2> QED
    BY <2>1, HandleDirectory, OtherNoted
<1>3. ASSUME NEW subject \in Subjects \cup {None}, NEW claimed \in Subjects \cup {None},
             NEW d \in Credentials, Receive(r, subject, claimed, d)
      PROVE  Noted(r)'
  <2>1. /\ request'[r].credentials = d /\ request'[r].principal = None
        /\ request'[r].pc # "unauthorized"
        /\ seen'[r] = Views(d, users, Unsettled)
    BY <1>3 DEF Receive, TypeOK
  <2>2. d.kind = "login" => d.id \in Ids
    BY DEF Credentials, Login
  <2> QED
    BY <1>1, <2>1, <2>2 DEF Noted
<1>4. ASSUME request'[r].credentials = c,
             request'[r].header = request[r].header \/ request'[r].principal = None,
             seen'[r] = seen[r], raced \subseteq raced',
             \/ request'[r].principal = request[r].principal
             \/ c.kind # "login" \/ request'[r].principal # c.id \/ TRUE \in seen[r]
             \/ request'[r].header = c.id,
             \/ request'[r].pc # "unauthorized"
             \/ c.kind # "login" \/ FALSE \in seen[r] \/ r \in raced'
      PROVE  Noted(r)'
  BY <1>0, <1>1, <1>4 DEF Noted
<1>a. ASSUME CachePrincipal(r) \/ CachePrincipalRaces(r)
      PROVE  Noted(r)'
  <2>1. /\ request'[r].credentials = c /\ request'[r].principal = request[r].principal
        /\ request[r].principal = None
        /\ seen' = seen /\ raced \subseteq raced' /\ request'[r].pc = "filter"
    BY <1>a DEF CachePrincipal, CachePrincipalRaces, NameRequest, At, Identified, TypeOK, RequestType
  <2> QED
    BY <1>4, <2>1
<1>5. ASSUME FilterUnknown(r) \/ NoFilter(r) \/ AuthenticateMisses(r)
      PROVE  Noted(r)'
  <2>1. /\ request'[r].credentials = c /\ request'[r].principal = request[r].principal
        /\ request'[r].header = request[r].header
        /\ seen' = seen /\ raced \subseteq raced'
        /\ request'[r].pc = "unauthorized" => r \in raced'
    BY <1>5 DEF FilterUnknown, NoFilter, AuthenticateMisses, GoTo, TypeOK, RequestType
  <2> QED
    BY <1>4, <2>1
<1>6. ASSUME FilterKnown(r)
      PROVE  Noted(r)'
  <2>1. request[r].header \in Subjects
    BY <1>6 DEF FilterKnown, Known, TypeOK
  <2>2. /\ request'[r].credentials = c /\ request'[r].pc = "resource"
        /\ request'[r].header = request[r].header
        /\ request'[r].principal = request[r].header
        /\ seen' = seen /\ raced' = raced
    BY <1>6 DEF FilterKnown, TypeOK
  <2> QED
    BY <1>0, <1>4, <2>1, <2>2
<1>7. ASSUME AuthenticateOther(r)
      PROVE  Noted(r)'
  <2>1. /\ request'[r].credentials = c /\ request'[r].header = request[r].header
        /\ c.kind # "login" /\ seen' = seen /\ raced' = raced
    BY <1>7 DEF AuthenticateOther, GoTo, TypeOK, RequestType
  <2> QED
    BY <1>4, <2>1
<1>8. ASSUME AuthenticateLogin(r)
      PROVE  Noted(r)'
  <2>1. /\ c.kind = "login" /\ request'[r].credentials = c
        /\ request'[r].header = request[r].header
        /\ seen' = seen /\ raced' = raced
        /\ IF c.id \in DOMAIN userById /\ Right(userById[c.id], c)
           THEN request'[r].pc = "resource"
           ELSE request'[r].principal = request[r].principal
    BY <1>8 DEF AuthenticateLogin, GoTo, TypeOK, RequestType
  <2>2. CASE c.id \in Unsettled
    <3>1. seen[r] = BOOLEAN
      BY <2>1, <2>2 DEF Noted, Views, TypeOK
    <3> QED
      BY <1>4, <2>1, <3>1
  <2>3. CASE c.id \notin Unsettled
    <3>1. right \in seen[r]
      BY <2>1, <2>3 DEF Noted, Views
    <3>2. Agree(c.id)
      BY <1>0, <2>1 DEF DirectoryInv
    <3>3. CASE c.id \in DOMAIN userById /\ Right(userById[c.id], c)
      <4>1. right
        BY <2>3, <3>2, <3>3 DEF Agree, Match, Right
      <4>2. TRUE \in seen[r]
        BY <3>1, <4>1
      <4> QED
        BY <1>4, <2>1, <3>3, <4>2
    <3>4. CASE ~(c.id \in DOMAIN userById /\ Right(userById[c.id], c))
      <4>1. ~right
        BY <2>3, <3>2, <3>4 DEF Agree, Match, Right
      <4>2. FALSE \in seen[r]
        BY <3>1, <4>1
      <4> QED
        BY <1>4, <2>1, <3>4, <4>2
    <3> QED
      BY <3>3, <3>4
  <2> QED
    BY <2>2, <2>3
<1>9. ASSUME Resource(r)
      PROVE  Noted(r)'
  <2>1. /\ request'[r].credentials = c /\ request'[r].principal = request[r].principal
        /\ request'[r].header = request[r].header
        /\ seen' = seen /\ raced' = raced
        /\ request'[r].pc # "unauthorized"
    BY <1>9 DEF Resource, GoTo, TypeOK
  <2> QED
    BY <1>4, <2>1
<1>10. Noted(r)'
  BY <1>3, <1>a, <1>5, <1>6, <1>7, <1>8, <1>9 DEF Handle
<1> QED
  BY <1>2, <1>10

-----------------------------------------------------------------------------
(* Who a request is.                                                       *)

\* A step of one request does not change who another one is: a name that a race
\* takes from the cache is noted of the requests that bear it.
LEMMA OtherIdentified ==
  ASSUME NEW r \in Requests, Identified(r), settings' = settings,
         request'[r] = request[r], raced \subseteq raced',
         request[r].subject # None /\ request[r].pc = "filter" =>
           request[r].subject \in principalCache' \/ r \in raced'
             \/ request[r].subject \notin principalCache
  PROVE  Identified(r)'
BY DEF Identified

\* Every step of a request leaves it with its own principal.
LEMMA HandleIdentified ==
  ASSUME TypeOK, NEW r \in Requests, Handle(r), NEW z \in Requests,
         Identified(r), Identified(z)
  PROVE  Identified(z)'
<1> USE PipelineAssumption DEF PipelineAssumption
<1>0. /\ request[r].credentials \in Credentials
      /\ request[r].subject \in Subjects \cup {None}
      /\ request[r].header \in Subjects \cup {None}
      /\ principalCache \subseteq Subjects
      /\ settings' = settings
  BY HandleDirectory DEF TypeOK, RequestType
<1>1. CASE z # r
  <2>1. request'[z] = request[z] /\ raced \subseteq raced'
    BY <1>1 DEF Handle, Receive, CachePrincipal, CachePrincipalRaces, NameRequest,
       FilterKnown, FilterUnknown, NoFilter, AuthenticateOther, AuthenticateLogin,
       AuthenticateMisses, Resource, GoTo, TypeOK
  <2>2. CASE principalCache \subseteq principalCache'
    BY <1>0, <2>1, <2>2, OtherIdentified
  <2>3. CASE CachePrincipalRaces(r)
    <3>1. request[z].subject # None /\ request[z].pc = "filter" =>
            request[z].subject \in principalCache' \/ z \in raced'
      BY <2>1, <2>3 DEF CachePrincipalRaces, At, Known, Identified
    <3> QED
      BY <1>0, <2>1, <3>1, OtherIdentified
  <2>4. CachePrincipalRaces(r) \/ principalCache \subseteq principalCache'
    BY DEF Handle, Receive, CachePrincipal, FilterKnown, FilterUnknown, NoFilter,
       AuthenticateOther, AuthenticateLogin, AuthenticateMisses, Resource
  <2> QED
    BY <2>2, <2>3, <2>4
<1>2. ASSUME NEW subject \in Subjects \cup {None}, NEW claimed \in Subjects \cup {None},
             NEW c \in Credentials, Receive(r, subject, claimed, c)
      PROVE  Identified(r)'
  <2>1. /\ request'[r].pc = IF subject # None THEN "cache" ELSE "filter"
        /\ request'[r].subject = subject /\ request'[r].principal = None
        /\ subject # None => request'[r].valid
    BY <1>2 DEF Receive, TypeOK
  <2> QED
    BY <1>0, <2>1 DEF Identified
<1>3. ASSUME CachePrincipal(r) \/ CachePrincipalRaces(r)
      PROVE  Identified(r)'
  <2>1. /\ request[r].pc = "cache" /\ raced \subseteq raced'
        /\ request'[r].pc = "filter" /\ request'[r].subject = request[r].subject
        /\ request'[r].header = request[r].subject
        /\ request'[r].principal = request[r].principal
        /\ request'[r].valid = request[r].valid
        /\ request'[r].credentials = request[r].credentials
    BY <1>3 DEF CachePrincipal, CachePrincipalRaces, NameRequest, At, TypeOK, RequestType
  <2>2. r \in raced' \/ request[r].subject \in principalCache'
    <3>1. CASE CachePrincipal(r)
      BY <3>1 DEF CachePrincipal
    <3>2. CASE CachePrincipalRaces(r)
      <4>1. request[r].subject # None
        BY <2>1 DEF Identified
      <4> QED
        BY <2>1, <3>2, <4>1 DEF CachePrincipalRaces, At, Known
    <3> QED
      BY <1>3, <3>1, <3>2
  <2> QED
    BY <1>0, <2>1, <2>2 DEF Identified
<1>4. ASSUME FilterKnown(r)
      PROVE  Identified(r)'
  <2>1. /\ request[r].pc = "filter" /\ settings.hasUsers
        /\ request[r].header \in principalCache
        /\ request'[r].pc = "resource" /\ request'[r].subject = request[r].subject
        /\ request'[r].header = request[r].header
        /\ request'[r].principal = request[r].header
        /\ request'[r].valid = request[r].valid
        /\ request'[r].credentials = request[r].credentials
        /\ UNCHANGED <<principalCache, raced>>
    BY <1>4 DEF FilterKnown, Known, At, TypeOK
  <2> QED
    BY <1>0, <2>1 DEF Identified
<1>5. ASSUME FilterUnknown(r)
      PROVE  Identified(r)'
  <2>1. /\ request[r].pc = "filter" /\ settings.hasUsers
        /\ request'[r].pc = "authenticate" /\ request'[r].subject = request[r].subject
        /\ request'[r].header = request[r].header
        /\ request'[r].principal = request[r].principal
        /\ request'[r].valid = request[r].valid
        /\ request'[r].credentials = request[r].credentials
        /\ request[r].header \in principalCache => r \in raced'
        /\ principalCache' = principalCache /\ raced \subseteq raced'
    BY <1>5 DEF FilterUnknown, Known, At, GoTo, TypeOK
  <2> QED
    BY <1>0, <2>1 DEF Identified
<1>6. ASSUME NoFilter(r)
      PROVE  Identified(r)'
  <2>1. /\ request[r].pc = "filter" /\ ~settings.hasUsers
        /\ request'[r].pc = "resource" /\ request'[r].subject = request[r].subject
        /\ request'[r].header = request[r].header
        /\ request'[r].principal = request[r].principal
        /\ request'[r].valid = request[r].valid
        /\ request'[r].credentials = request[r].credentials
        /\ UNCHANGED <<principalCache, raced>>
    BY <1>6 DEF NoFilter, At, GoTo, TypeOK
  <2> QED
    BY <1>0, <2>1 DEF Identified
<1>7. ASSUME AuthenticateOther(r)
      PROVE  Identified(r)'
  <2>1. /\ request[r].pc = "authenticate" /\ request[r].credentials.kind # "login"
        /\ \/ request[r].credentials.kind = "malformed" /\ request'[r].pc = "badRequest"
              /\ request'[r].principal = request[r].principal
           \/ request'[r].pc = "unauthorized"
              /\ request'[r].principal = request[r].principal
           \/ /\ request'[r].pc = "resource" /\ request'[r].principal = "null"
              /\ request[r].credentials.kind # "malformed"
              /\ request[r].credentials.kind = "none" => ~settings.enabled
        /\ request'[r].subject = request[r].subject
        /\ request'[r].header = request[r].header
        /\ request'[r].valid = request[r].valid
        /\ request'[r].credentials = request[r].credentials
        /\ UNCHANGED <<principalCache, raced>>
    BY <1>7 DEF AuthenticateOther, At, GoTo, TypeOK, RequestType
  <2>2. request[r].credentials.kind \in {"none", "other", "malformed"}
    BY <1>0, <2>1 DEF Credentials, Login
  <2> QED
    BY <1>0, <2>1, <2>2 DEF Identified
<1>8. ASSUME AuthenticateLogin(r)
      PROVE  Identified(r)'
  <2>1. /\ request[r].pc = "authenticate" /\ request[r].credentials.kind = "login"
        /\ \/ request'[r].pc = "unauthorized"
              /\ request'[r].principal = request[r].principal
           \/ request'[r].pc = "resource"
              /\ request'[r].principal = request[r].credentials.id
        /\ request'[r].subject = request[r].subject
        /\ request'[r].header = request[r].header
        /\ request'[r].valid = request[r].valid
        /\ request'[r].credentials = request[r].credentials
        /\ UNCHANGED <<principalCache, raced>>
    BY <1>8 DEF AuthenticateLogin, At, GoTo, TypeOK, RequestType
  <2>2. request[r].credentials.id \in Ids
    BY <1>0, <2>1 DEF Credentials, Login
  <2> QED
    BY <1>0, <2>1, <2>2 DEF Identified
<1>9. ASSUME AuthenticateMisses(r)
      PROVE  Identified(r)'
  <2>1. /\ request[r].pc = "authenticate"
        /\ request'[r].pc = "unauthorized" /\ request'[r].subject = request[r].subject
        /\ request'[r].header = request[r].header
        /\ request'[r].principal = request[r].principal
        /\ request'[r].valid = request[r].valid
        /\ request'[r].credentials = request[r].credentials
        /\ principalCache' = principalCache /\ raced' = raced \cup {r}
    BY <1>9 DEF AuthenticateMisses, At, GoTo, TypeOK
  <2> QED
    BY <1>0, <2>1 DEF Identified
<1>10. ASSUME Resource(r)
       PROVE  Identified(r)'
  <2>1. /\ request[r].pc = "resource"
        /\ request'[r].pc = CASE ~request[r].valid             -> "notFound"
                              [] request[r].principal = "null" -> "error"
                              [] OTHER                         -> "served"
        /\ request'[r].subject = request[r].subject
        /\ request'[r].header = request[r].header
        /\ request'[r].principal = request[r].principal
        /\ request'[r].valid = request[r].valid
        /\ request'[r].credentials = request[r].credentials
        /\ UNCHANGED <<principalCache, raced>>
    BY <1>10 DEF Resource, At, GoTo, TypeOK
  <2> QED
    BY <1>0, <2>1 DEF Identified
<1>11. Identified(r)'
  BY <1>2, <1>3, <1>4, <1>5, <1>6, <1>7, <1>8, <1>9, <1>10 DEF Handle
<1> QED
  BY <1>1, <1>11

\* The inductive invariant holds initially and is kept by every step.
LEMMA Inductive == (Init => IInv) /\ (IInv /\ [Next]_vars => IInv')
<1> USE PipelineAssumption DEF PipelineAssumption
<1>1. ASSUME Init PROVE IInv
  <2>1. DOMAIN <<>> = {}
    OBVIOUS
  <2>2. DirectoryInv
    BY <1>1, <2>1 DEF Init, DirectoryInv, Agree, Match, Sole, HasAccount
  <2>3. ASSUME NEW r \in Requests PROVE Noted(r) /\ Identified(r)
    BY <1>1 DEF Init, NewRequest, Noted, Identified, Views
  <2> QED
    BY <1>1, <2>2, <2>3, InitTyped DEF IInv
<1>2. ASSUME IInv, UNCHANGED vars PROVE IInv'
  <2>1. TypeOK'
    BY <1>2 DEF IInv, vars, TypeOK, Listing
  <2>2. DirectoryInv'
    BY <1>2 DEF IInv, vars, DirectoryInv, Agree, Match, Sole, Unsettled, Pending
  <2>3. ASSUME NEW r \in Requests PROVE Noted(r)' /\ Identified(r)'
    BY <1>2, OtherNoted, OtherIdentified DEF IInv, vars, directory
  <2> QED
    BY <2>1, <2>2, <2>3 DEF IInv
<1>3. ASSUME IInv, Directory PROVE IInv'
  <2>1. TypeOK' /\ DirectoryInv'
    BY <1>3, DirectoryTyped, DirectoryKept DEF IInv
  <2>2. ASSUME NEW r \in Requests PROVE Noted(r)' /\ Identified(r)'
    <3>1. Noted(r)'
      BY <1>3, DirectoryNoted DEF IInv
    <3>2. CASE Restart
      BY <3>1, <3>2 DEF Restart, NewRequest, Identified
    <3>3. CASE UNCHANGED <<settings, request, principalCache, raced>>
      BY <1>3, <3>1, <3>3 DEF IInv, Identified
    <3> QED
      BY <1>3, <3>1, <3>2, <3>3
         DEF Directory, BeginAdd, ListUser, ListUserRaces, IndexUser, IndexUserRaces,
             Added, ClearUsers, Save
  <2> QED
    BY <2>1, <2>2 DEF IInv
<1>4. ASSUME IInv, NEW r \in Requests, Handle(r) PROVE IInv'
  <2>1. TypeOK'
    BY <1>4, HandleTyped DEF IInv, Identified, At
  <2>2. DirectoryInv'
    BY <1>4, HandleDirectory DEF IInv, directory, DirectoryInv, Agree, Match, Sole,
       Unsettled, Pending
  <2>3. \A z \in Requests : Noted(z)' /\ Identified(z)'
    BY <1>4, HandleNoted, HandleIdentified DEF IInv
  <2> QED
    BY <2>1, <2>2, <2>3 DEF IInv
<1> QED
  BY <1>1, <1>2, <1>3, <1>4 DEF Next

-----------------------------------------------------------------------------
\* Every reachable state is well typed, and only principals of certificates are in
\* the cache, for any requests, users and configurations.
THEOREM TypeCorrect == Spec => []TypeOK
<1>1. IInv => TypeOK
  BY DEF IInv
<1> QED
  BY Inductive, <1>1, PTL DEF Spec

\* A lookup in the index of users finds the account that is last in the list, except
\* for an id that overlapping calls of add(), a data race or a clear have befallen,
\* for any number of adders whose appends and puts lose accounts and entries.
THEOREM IndexFollowsList == Spec => []LookupIsLastListed
<1>1. IInv => LookupIsLastListed
  BY DEF IInv, DirectoryInv, Agree, Match, LookupIsLastListed
<1> QED
  BY Inductive, <1>1, PTL DEF Spec

\* After a restart from the saved file every listed user logs in as before, with the
\* same exceptions.
THEOREM ReloadIsFaithful == Spec => ReloadKeepsLogins
<1>1. IInv /\ [Next]_vars =>
        [restarts' # restarts /\ file = users =>
           \A id \in Ids \ Unsettled : HasAccount(users, id) =>
             id \in DOMAIN userById' /\ userById'[id] = userById[id]]_vars
  <2>1. ASSUME IInv, Next, restarts' # restarts, file = users,
               NEW id \in Ids \ Unsettled, HasAccount(users, id)
        PROVE  id \in DOMAIN userById' /\ userById'[id] = userById[id]
    <3>1. Restart
      BY <2>1, HandleDirectory DEF Next, Directory, directory, BeginAdd, ListUser,
         ListUserRaces, IndexUser, IndexUserRaces, Added, ClearUsers, Save
    <3>2. userById' = ReinitUserById(users) /\ users \in Seq(Accounts)
      BY <2>1, <3>1 DEF Restart, IInv, TypeOK
    <3>3. id \in DOMAIN userById' /\ userById'[id] = LastListed(users, id)
      BY <2>1, <3>2, ReinitAgrees
    <3> QED
      BY <2>1, <3>3 DEF IInv, DirectoryInv, Agree, Match
  <2> QED
    BY <2>1
<1> QED
  BY Inductive, <1>1, PTL DEF Spec, ReloadKeepsLogins

\* A login is accepted or refused as the list of users demands, of the password up to
\* its first colon, at some moment between the arrival of the request and the answer,
\* however many threads add and authenticate users meanwhile.
THEOREM DecisionIsCurrent == Spec => []DecisionFits
<1>1. IInv => DecisionFits
  BY DEF IInv, Noted, DecisionFits
<1> QED
  BY Inductive, <1>1, PTL DEF Spec

\* A resource is told a name that its own request brought, never one that only
\* another request left in the static cache: the subject of the certificate, or
\* else the name in the client's header, the user who logged in, or nobody.
THEOREM PrincipalIsOwn == Spec => []OwnPrincipal
<1>1. IInv => OwnPrincipal
  BY DEF IInv, Identified, OwnPrincipal
<1> QED
  BY Inductive, <1>1, PTL DEF Spec

\* Who has a certificate is served without a password, unless a race on the cache
\* befell the request.
THEOREM CertificateSuffices == Spec => []CertificateServes
<1>1. IInv => CertificateServes
  BY DEF IInv, Identified, CertificateServes
<1> QED
  BY Inductive, <1>1, PTL DEF Spec

\* Only a request that authenticate() lets through without a user fails in the
\* resource.
THEOREM ErrorsHaveNoUser == Spec => []ErrorOnlyWithoutUser
<1>1. IInv => ErrorOnlyWithoutUser
  BY DEF IInv, Identified, ErrorOnlyWithoutUser
<1> QED
  BY Inductive, <1>1, PTL DEF Spec
=============================================================================
