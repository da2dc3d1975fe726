--------------------------- MODULE MCRequestPipeline ---------------------------
(* Instances of RequestPipeline for TLC. *)
EXTENDS RequestPipeline, TLC

Users(secure, needClientAuth, enabled) ==
  [secure |-> secure, needClientAuth |-> needClientAuth, enabled |-> enabled,
   hasUsers |-> TRUE]

\* http with basic authentication required.
Http == Users(FALSE, FALSE, TRUE)

\* http with basic authentication required or switched off, https where a
\* certificate is required and where it is not, https without users.
MCConfigurations ==
  {Http, Users(FALSE, FALSE, FALSE), Users(TRUE, TRUE, TRUE),
   Users(TRUE, FALSE, FALSE), [Users(TRUE, FALSE, TRUE) EXCEPT !.hasUsers = FALSE]}

\* A colon follows upon p1 in p1x.
CONSTANTS p1, p1x
MCBeforeColon == [p \in Passwords |-> IF p = p1x THEN p1 ELSE p]

MCSymmetry == Permutations(Requests) \cup Permutations(Adders)
              \cup Permutations(Ids) \cup Permutations(Subjects)

-----------------------------------------------------------------------------
(* Bounds: what is explored of the product of users and requests.          *)

Asking == {r \in Requests : ~At(r, "new")}
Logins == {r \in Asking : request[r].credentials.kind = "login"}
NumUsers == Len(users) + Cardinality(Listing)

\* The accounts in the list, in the index and under way.
KnownOf(id) == {account \in (Range(users) \cup Range(userById) \cup Range(adding)) \ {None} :
                 account.id = id}
Plain(id) == \A account \in KnownOf(id) : account.password = Encrypt(p1)

\* Up to three users, and up to two beside a file; passwords with a colon have
\* the users of one id only.
DirectoryPart ==
  /\ Asking = {} /\ settings = Http
  /\ file # <<>> => NumUsers <= 2
  /\ \E id \in Ids : Plain(id)

\* A login beside up to two users.
LoginPart ==
  /\ Asking = Logins /\ Cardinality(Logins) = 1 /\ settings = Http
  /\ file = <<>> /\ restarts = 0 /\ NumUsers <= 2
  /\ \A r \in Logins : request[r].header = None
  /\ \E id \in Ids : Plain(id)

\* Two requests beside up to one user with one password.
RequestPart ==
  /\ file = <<>> /\ restarts = 0 /\ NumUsers <= 1
  /\ Cardinality({a \in Adders : adding[a] # None}) <= 1
  /\ \E id \in Ids :
       /\ Plain(id) /\ \A other \in Ids \ {id} : KnownOf(other) = {}
       /\ \A r \in Logins : request[r].credentials \in [kind : {"login"}, id : {id}, password : {p1}]

InParts == DirectoryPart \/ LoginPart \/ RequestPart
=============================================================================
