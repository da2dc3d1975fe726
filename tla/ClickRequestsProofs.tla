-------------------------- MODULE ClickRequestsProofs --------------------------
(***************************************************************************)
(* Theorems about ClickRequests, for any requests, addresses, number of    *)
(* worker threads and capacity: what the map offers is saved, a rotation   *)
(* drops old streams only, no hit of a request is lost but to a data race, *)
(* and the streams of a visitor are split only where requests overlap.     *)
(***************************************************************************)
EXTENDS ClickRequests, FiniteSetTheorems, SequenceTheorems, TLAPS

-----------------------------------------------------------------------------
(* The inductive invariant.                                                *)

Early == {"idle", "create", "return"}

\* The points after the one at which a new stream is put and at which it is added.
AfterAdd == {"checkFlush", "serialise", "stamp", "checkRotate", "rotate", "visit",
             "removeAll", "done", "failed"}
AfterPut == {"add"} \cup AfterAdd

\* A request has a manager from get on, and a stream after it.
Flow ==
  \A r \in Requests :
    /\ pc[r] \in Early <=> mgr[r] = None
    /\ pc[r] \in Early \cup {"get"} <=> cs[r] = None
    /\ pc[r] \in {"put", "add"} => cs[r] = r
    /\ pc[r] = "idle" <=> ip[r] = None
    /\ pc[r] = "return" => instance # None
    /\ iter[r].toRemove # {} => pc[r] \in {"visit", "removeAll"}

\* A sound iterator has not left the list.
InsideList ==
  \A r \in Requests :
    pc[r] \in {"serialise", "visit"} /\ iter[r].state = "fresh" =>
      iter[r].cursor <= Len(Listed(r))

\* The stream a request found was put by another one with the same manager.
FoundWasPut ==
  \A r \in Requests : /\ cs[r] # None /\ cs[r] # r => pc[cs[r]] \in AfterPut
                      /\ cs[r] # None => mgr[cs[r]] = mgr[r]
                      /\ pc[r] = "hit" => cs[r] # r

\* The collections of a manager hold streams made for it.
Owned ==
  \A m \in Requests :
    /\ \A s \in Range(cache[m].mapped) : mgr[s] = m /\ cs[s] = s /\ pc[s] \in AfterPut
    /\ \A s \in Range(cache[m].listed) : mgr[s] = m /\ cs[s] = s /\ pc[s] \in AfterAdd

\* What a rotation is to remove is old and no longer in the map, unless a race
\* undid that.
Removed ==
  \A r \in Requests : \A s \in iter[r].toRemove :
    s \in old /\ pc[s] \in AfterAdd /\ (s \notin Range(Mapped(r)) \/ s \in raced)

Safe(s) == s \in old \cup raced \/ At(s, "add") \/ s \in Range(Listed(s))

\* Every hit that was recorded is in a stream that is safe.
HitsAreSafe ==
  /\ \A s \in Requests : pc[s] \notin AfterPut => hits[s] = {}
  /\ \A r \in Requests : pc[r] = "hit" => Safe(cs[r])
  /\ \A r \in Requests : pc[r] \in AfterPut =>
       r \in raced \/ (r \in hits[cs[r]] /\ Safe(cs[r]))

\* One entry per address.
OnePerAddress(entries) ==
  \A i, j \in DOMAIN entries : ip[entries[i]] = ip[entries[j]] => i = j

Distinct ==
  \A m \in Requests : OnePerAddress(cache[m].mapped)

AddressesFit == Cardinality(Range(ip) \ {None}) <= MAX_CLICKSTREAMS

\* A stream of the address has aged or met a race.
Aged(a) == \E u \in old \cup raced : ip[u] = a

\* As long as nothing is evicted, a stream whose address has not aged is found in
\* the map under its address.
PutIsFound ==
  AddressesFit =>
    \A t \in Requests :
      cs[t] = t /\ pc[t] \in AfterPut /\ ~Aged(ip[t]) =>
        \E e \in Range(Mapped(t)) : ip[e] = ip[t]

SplitByOverlap ==
  AddressesFit =>
    \A s, t \in Requests :
      s # t /\ cs[s] = s /\ cs[t] = t /\ mgr[s] = mgr[t] /\ ip[s] = ip[t] =>
        s \in unseen[t] \/ t \in unseen[s] \/ Aged(ip[s])

\* The requests that have begun, one after the other, are finitely many.
StartedFinite == IsFiniteSet({q \in Requests : pc[q] # "idle"})

IInv == /\ TypeOK /\ Flow /\ InsideList /\ FoundWasPut /\ Owned /\ Removed /\ EntriesAreSaved /\ HitsAreSafe
        /\ Distinct /\ PutIsFound /\ SplitByOverlap /\ StartedFinite

-----------------------------------------------------------------------------
(* The operators on the collections.                                       *)

\* A filtered sequence lists some positions of the sequence, each once, and those
\* are the ones with a member to keep.
LEMMA FilterPositions ==
  ASSUME NEW S, NEW s \in Seq(S), NEW keep,
         NEW f, f = Filter(s, keep)
  PROVE  \E n \in Nat : \E pos \in [1..n -> DOMAIN s] :
           /\ n <= Len(s)
           /\ f = [k \in 1..n |-> s[pos[k]]]
           /\ \A k \in 1..n : s[pos[k]] \in keep
           /\ \A j, k \in 1..n : pos[j] = pos[k] => j = k
           /\ \A i \in DOMAIN s : s[i] \in keep => \E k \in 1..n : pos[k] = i
<1>1. PICK picks : picks = {i \in DOMAIN s : s[i] \in keep}
  OBVIOUS
<1> DEFINE upTo(i) == {j \in picks : j <= i}
           Rank(i) == Cardinality(upTo(i))
           n == Cardinality(picks)
<1>2. /\ Len(s) \in Nat /\ DOMAIN s = 1..Len(s)
      /\ picks \in SUBSET (1..Len(s)) /\ \A i \in picks : i \in Nat
  BY <1>1
<1>3. IsFiniteSet(picks) /\ n \in Nat /\ n <= Len(s)
  <2>1. PICK l \in Nat : l = Len(s)
    BY <1>2
  <2>2. IsFiniteSet(1..l) /\ Cardinality(1..l) = l
    BY FS_Interval
  <2>3. picks \in SUBSET (1..l)
    BY <1>2, <2>1
  <2>4. IsFiniteSet(picks) /\ n <= l
    BY <2>2, <2>3, FS_Subset
  <2> QED
    BY <2>1, <2>4, FS_CardinalityType
<1>4. \A i \in picks : /\ IsFiniteSet(upTo(i)) /\ Rank(i) \in Nat
                       /\ Rank(i) <= n /\ Rank(i) # 0
  <2> SUFFICES ASSUME NEW i \in picks
               PROVE  /\ IsFiniteSet(upTo(i)) /\ Rank(i) \in Nat
                      /\ Rank(i) <= n /\ Rank(i) # 0
    OBVIOUS
  <2>1. upTo(i) \in SUBSET picks /\ i \in upTo(i)
    BY <1>2
  <2>2. IsFiniteSet(upTo(i)) /\ Rank(i) <= n
    BY <1>3, <2>1, FS_Subset
  <2>3. Rank(i) # 0
    BY <2>1, <2>2, FS_EmptySet
  <2> QED
    BY <2>2, <2>3, FS_CardinalityType
<1>5. \A i, j \in picks : i < j => Rank(i) < Rank(j)
  <2> SUFFICES ASSUME NEW i \in picks, NEW j \in picks, i < j
               PROVE  Rank(i) < Rank(j)
    OBVIOUS
  <2>1. upTo(i) \in SUBSET upTo(j) /\ j \in upTo(j) /\ j \notin upTo(i)
    <3>1. \A x \in picks : (x <= i => x <= j) /\ j <= j /\ ~(j <= i)
      BY <1>2
    <3> QED
      BY <3>1
  <2>2. Rank(i) <= Rank(j) /\ Rank(i) # Rank(j)
    BY <1>4, <2>1, FS_Subset
  <2> QED
    BY <1>4, <2>2
<1> HIDE DEF upTo, n
<1>6. \A i, j \in picks : Rank(i) = Rank(j) => i = j
  BY <1>2, <1>4, <1>5
<1> DEFINE ranks == [i \in picks |-> Rank(i)]
<1>7. ranks \in [picks -> 1..n]
  BY <1>3, <1>4
<1>8. \A k \in 1..n : \E i \in picks : Rank(i) = k
  <2>1. ranks \in Injection(picks, 1..n)
    BY <1>6, <1>7 DEF Injection, IsInjective
  <2>2. IsFiniteSet(1..n) /\ Cardinality(1..n) = n
    BY <1>3, FS_Interval
  <2>3. ranks \in Surjection(picks, 1..n)
    BY <2>1, <2>2, FS_Injection DEF n
  <2> QED
    BY <2>3 DEF Surjection
<1>9. PICK pos : pos = [k \in 1..n |-> CHOOSE i \in picks : Rank(i) = k]
  OBVIOUS
<1>10. \A k \in 1..n : pos[k] \in picks /\ Rank(pos[k]) = k
  BY <1>8, <1>9
<1>11. f = [k \in 1..n |-> s[pos[k]]]
  <2>1. f = [k \in 1..n |-> s[CHOOSE i \in picks : Rank(i) = k]]
    BY <1>1 DEF Filter, n, upTo
  <2> QED
    BY <1>9, <2>1
<1>12. pos \in [1..n -> DOMAIN s]
  BY <1>2, <1>9, <1>10
<1>13. \A k \in 1..n : s[pos[k]] \in keep
  BY <1>1, <1>10
<1>14. \A j, k \in 1..n : pos[j] = pos[k] => j = k
  BY <1>10
<1>15. \A i \in DOMAIN s : s[i] \in keep => \E k \in 1..n : pos[k] = i
  <2> SUFFICES ASSUME NEW i \in picks
               PROVE  \E k \in 1..n : pos[k] = i
    BY <1>1
  <2>1. Rank(i) \in 1..n
    BY <1>7
  <2>2. pos[Rank(i)] = i
    BY <1>6, <1>10, <2>1
  <2> QED
    BY <2>1, <2>2
<1> QED
  BY <1>3, <1>11, <1>12, <1>13, <1>14, <1>15

LEMMA FilterProperties ==
  ASSUME NEW S, NEW s \in Seq(S), NEW keep
  PROVE  /\ Filter(s, keep) \in Seq(S)
         /\ Len(Filter(s, keep)) <= Len(s)
         /\ Range(Filter(s, keep)) = Range(s) \cap keep
<1>1. PICK f : f = Filter(s, keep)
  OBVIOUS
<1> DEFINE Picks(n, pos) ==
             /\ n <= Len(s)
             /\ f = [k \in 1..n |-> s[pos[k]]]
             /\ \A k \in 1..n : s[pos[k]] \in keep
             /\ \A i \in DOMAIN s : s[i] \in keep => \E k \in 1..n : pos[k] = i
<1>2. \E n \in Nat : \E pos \in [1..n -> DOMAIN s] : Picks(n, pos)
  BY <1>1, FilterPositions
<1>3. PICK n \in Nat : \E pos \in [1..n -> DOMAIN s] : Picks(n, pos)
  BY <1>2
<1>4. PICK pos \in [1..n -> DOMAIN s] : Picks(n, pos)
  BY <1>3
<1>5. \A i \in DOMAIN s : s[i] \in S
  OBVIOUS
<1>6. f \in Seq(S) /\ Len(f) = n /\ DOMAIN f = 1..n
  BY <1>4, <1>5
<1>7. Range(f) \subseteq Range(s) \cap keep
  BY <1>4, <1>6 DEF Range
<1>8. Range(s) \cap keep \subseteq Range(f)
  <2> SUFFICES ASSUME NEW i \in DOMAIN s, s[i] \in keep PROVE s[i] \in Range(f)
    BY DEF Range
  <2>1. PICK k \in 1..n : pos[k] = i
    BY <1>4
  <2> QED
    BY <1>4, <1>6, <2>1 DEF Range
<1> QED
  BY <1>1, <1>4, <1>6, <1>7, <1>8

\* Filtering keeps one entry per address.
LEMMA FilterOnePerAddress ==
  ASSUME NEW S, NEW e \in Seq(S), NEW keep
  PROVE  OnePerAddress(e) => OnePerAddress(Filter(e, keep))
<1>1. PICK f : f = Filter(e, keep)
  OBVIOUS
<1> DEFINE Picks(n, pos) == /\ f = [k \in 1..n |-> e[pos[k]]]
                            /\ \A j, k \in 1..n : pos[j] = pos[k] => j = k
<1>2. \E n \in Nat : \E pos \in [1..n -> DOMAIN e] : Picks(n, pos)
  BY <1>1, FilterPositions, SMTT(60)
<1>3. PICK n \in Nat : \E pos \in [1..n -> DOMAIN e] : Picks(n, pos)
  BY <1>2
<1>4. PICK pos \in [1..n -> DOMAIN e] : Picks(n, pos)
  BY <1>3
<1>5. OnePerAddress(e) => OnePerAddress(f)
  BY <1>4 DEF OnePerAddress
<1> QED
  BY <1>1, <1>5

HasRoom(entries, s) ==
  (\E x \in Range(entries) : ip[x] = ip[s]) \/ Len(entries) < MAX_CLICKSTREAMS

AddressesKept(entries, s, after) ==
  \A x \in Range(entries) \cup {s} : \E y \in Range(after) : ip[y] = ip[x]

\* Entering a stream keeps one entry per address, and no address goes.
LEMMA EnteredProperties ==
  ASSUME TypeOK, NEW e \in Seq(Requests), NEW s \in Requests,
         NEW p, p = Entered(e, s)
  PROVE  /\ p \in Seq(Requests)
         /\ Len(p) = Len(e) \/ Len(p) = Len(e) + 1
         /\ Len(p) = Len(e) + 1 => \A x \in Range(e) : ip[x] # ip[s]
         /\ Range(p) \subseteq Range(e) \cup {s}
         /\ OnePerAddress(e) => OnePerAddress(p)
         /\ AddressesKept(e, s, p)
<1> DEFINE same == {i \in DOMAIN e : ip[e[i]] = ip[s]}
           grown == Append(e, s)
<1>1. /\ Len(e) \in Nat /\ DOMAIN e = 1..Len(e) /\ \A i \in 1..Len(e) : e[i] \in Requests
      /\ MAX_CLICKSTREAMS \in Nat
  BY RequestAssumption
<1>2. CASE same # {}
  <2>1. p = [i \in DOMAIN e |-> IF i \in same THEN s ELSE e[i]]
    BY <1>2 DEF Entered
  <2>2. p \in Seq(Requests) /\ Len(p) = Len(e) /\ DOMAIN p = DOMAIN e
    BY <1>1, <2>1
  <2>3. \A i \in DOMAIN e : p[i] \in {e[i], s} /\ ip[p[i]] = ip[e[i]]
    BY <2>1
  <2>4. Range(p) \subseteq Range(e) \cup {s}
    BY <2>2, <2>3 DEF Range
  <2>5. AddressesKept(e, s, p)
    <3>1. \A i \in DOMAIN e : p[i] \in Range(p) /\ ip[p[i]] = ip[e[i]]
      BY <2>2, <2>3 DEF Range
    <3>2. \E i \in DOMAIN e : ip[e[i]] = ip[s]
      BY <1>2
    <3> QED
      BY <3>1, <3>2 DEF Range, AddressesKept
  <2>6. Len(p) # Len(e) + 1
    <3>1. \A n \in Nat : n # n + 1
      OBVIOUS
    <3> QED
      BY <1>1, <2>2, <3>1
  <2> QED
    BY <2>2, <2>3, <2>4, <2>5, <2>6 DEF OnePerAddress
<1>3. CASE same = {}
  <2>1. p = grown
    BY <1>3 DEF Entered
  <2>2. /\ grown \in Seq(Requests) /\ Len(grown) = Len(e) + 1
        /\ grown[Len(e) + 1] = s /\ \A i \in 1..Len(e) : grown[i] = e[i]
    BY <1>1, AppendProperties
  <2> HIDE DEF grown
  <2>3. /\ \A i \in 1..(Len(e) + 1) : i \in 1..Len(e) \/ i = Len(e) + 1
        /\ Len(e) + 1 \in 1..(Len(e) + 1) /\ 1..Len(e) \subseteq 1..(Len(e) + 1)
        /\ Len(e) + 1 \notin 1..Len(e)
    BY <1>1
  <2>4. Range(grown) = Range(e) \cup {s}
    BY <1>1, <2>2, <2>3 DEF Range
  <2>5. OnePerAddress(e) => OnePerAddress(grown)
    BY <1>1, <1>3, <2>2, <2>3 DEF OnePerAddress
  <2>6. \A x \in Range(e) : ip[x] # ip[s]
    BY <1>3 DEF Range
  <2>7. AddressesKept(e, s, p)
    BY <2>1, <2>4 DEF AddressesKept
  <2> QED
    BY <2>1, <2>2, <2>4, <2>5, <2>6, <2>7
<1> QED
  BY <1>2, <1>3

\* put() stays within the capacity and evicts only when a new address does not fit.
LEMMA PutProperties ==
  ASSUME TypeOK, NEW e \in Seq(Requests), NEW s \in Requests,
         Len(e) <= MAX_CLICKSTREAMS,
         NEW p, p = Put(e, s)
  PROVE  /\ p \in Seq(Requests) /\ Len(p) <= MAX_CLICKSTREAMS
         /\ Range(p) \subseteq Range(e) \cup {s}
         /\ OnePerAddress(e) => OnePerAddress(p)
         /\ HasRoom(e, s) => AddressesKept(e, s, p)
<1>1. PICK g : g = Entered(e, s)
  OBVIOUS
<1>2. /\ g \in Seq(Requests)
      /\ Len(g) = Len(e) \/ Len(g) = Len(e) + 1
      /\ Len(g) = Len(e) + 1 => \A x \in Range(e) : ip[x] # ip[s]
      /\ Range(g) \subseteq Range(e) \cup {s}
      /\ OnePerAddress(e) => OnePerAddress(g)
      /\ AddressesKept(e, s, g)
  BY <1>1, EnteredProperties
<1>3. Len(e) \in Nat /\ Len(g) \in Nat /\ MAX_CLICKSTREAMS \in Nat
  BY <1>2, RequestAssumption
<1>4. p = IF Len(g) > Len(e) /\ Len(g) > MAX_CLICKSTREAMS THEN Tail(g) ELSE g
  BY <1>1 DEF Put
<1>5. CASE Len(g) > Len(e) /\ Len(g) > MAX_CLICKSTREAMS
  <2>1. p = Tail(g) /\ g # <<>> /\ Len(g) = Len(e) + 1
    BY <1>2, <1>3, <1>4, <1>5
  <2>2. /\ p \in Seq(Requests) /\ Len(p) = Len(e)
        /\ DOMAIN p = 1..Len(e) /\ DOMAIN g = 1..(Len(e) + 1)
        /\ \A i \in 1..Len(e) : p[i] = g[i + 1]
    BY <1>2, <1>3, <2>1
  <2>3. /\ \A i \in 1..Len(e) : i + 1 \in 1..(Len(e) + 1)
        /\ \A i, j \in 1..Len(e) : i + 1 = j + 1 => i = j
    BY <1>3
  <2>4. Range(p) \subseteq Range(g)
    BY <2>2, <2>3 DEF Range
  <2>5. OnePerAddress(g) => OnePerAddress(p)
    BY <2>2, <2>3 DEF OnePerAddress
  <2>6. ~HasRoom(e, s)
    BY <1>2, <1>3, <1>5, <2>1 DEF HasRoom
  <2> QED
    BY <1>2, <2>2, <2>4, <2>5, <2>6
<1>6. CASE ~(Len(g) > Len(e) /\ Len(g) > MAX_CLICKSTREAMS)
  <2>1. p = g
    BY <1>4, <1>6
  <2>2. Len(p) <= MAX_CLICKSTREAMS
    BY <1>2, <1>3, <1>6, <2>1
  <2> QED
    BY <1>2, <2>1, <2>2
<1> QED
  BY <1>5, <1>6

\* The entry of the address leaves the map.
LEMMA WithoutProperties ==
  ASSUME TypeOK, NEW e \in Seq(Requests), NEW s \in Requests,
         NEW p, p = Without(e, s)
  PROVE  /\ p \in Seq(Requests) /\ Len(p) <= Len(e)
         /\ Range(p) = {x \in Range(e) : ip[x] # ip[s]}
         /\ OnePerAddress(e) => OnePerAddress(p)
<1> DEFINE keep == {x \in Requests : ip[x] # ip[s]}
<1>1. p = Filter(e, keep)
  BY DEF Without
<1>2. /\ p \in Seq(Requests) /\ Len(p) <= Len(e)
      /\ Range(p) = Range(e) \cap keep
  BY <1>1, FilterProperties
<1>3. Range(e) \subseteq Requests
  BY DEF Range
<1>4. OnePerAddress(e) => OnePerAddress(p)
  BY <1>1, FilterOnePerAddress
<1> QED
  BY <1>2, <1>3, <1>4

-----------------------------------------------------------------------------
(* Changes of one field of a manager or of an iterator.                    *)

\* Everything but one field of one manager is as before.
OthersKept(c, m) == \A k \in Requests \ {m} : c[k] = cache[k]

SetMapped(m, v) == [cache EXCEPT ![m].mapped = v]
SetListed(m, v) == [cache EXCEPT ![m].listed = v]
TearMapped(m, v) == [cache EXCEPT ![m].mapped = v, ![m].mapTorn = TRUE]
TearListed(m, v) == [cache EXCEPT ![m].listed = v, ![m].listTorn = TRUE]
Advance(r, v) == [iter EXCEPT ![r].cursor = @ + 1, ![r].toRemove = v]

LEMMA MappedChange ==
  ASSUME TypeOK, NEW m \in Requests, NEW v \in Seq(Requests),
         NEW c, c = SetMapped(m, v)
  PROVE  /\ c \in [Requests -> Cache] /\ OthersKept(c, m)
         /\ c[m].mapped = v /\ c[m].listed = cache[m].listed
         /\ c[m].mapTorn = cache[m].mapTorn
<1>1. cache \in [Requests -> Cache] /\ cache[m] \in Cache
  BY DEF TypeOK
<1>2. PICK w : w = [cache[m] EXCEPT !.mapped = v]
  OBVIOUS
<1>3. /\ w \in Cache /\ w.mapped = v /\ w.listed = cache[m].listed
      /\ w.mapTorn = cache[m].mapTorn
  BY <1>1, <1>2 DEF Cache
<1>4. c = [cache EXCEPT ![m] = w]
  BY <1>2 DEF SetMapped
<1> QED
  BY <1>1, <1>3, <1>4 DEF OthersKept

LEMMA ListedChange ==
  ASSUME TypeOK, NEW m \in Requests, NEW v \in Seq(Requests),
         NEW c, c = SetListed(m, v)
  PROVE  /\ c \in [Requests -> Cache] /\ OthersKept(c, m)
         /\ c[m].listed = v /\ c[m].mapped = cache[m].mapped
         /\ c[m].mapTorn = cache[m].mapTorn
<1>1. cache \in [Requests -> Cache] /\ cache[m] \in Cache
  BY DEF TypeOK
<1>2. PICK w : w = [cache[m] EXCEPT !.listed = v]
  OBVIOUS
<1>3. /\ w \in Cache /\ w.listed = v /\ w.mapped = cache[m].mapped
      /\ w.mapTorn = cache[m].mapTorn
  BY <1>1, <1>2 DEF Cache
<1>4. c = [cache EXCEPT ![m] = w]
  BY <1>2 DEF SetListed
<1> QED
  BY <1>1, <1>3, <1>4 DEF OthersKept

LEMMA TornMapChange ==
  ASSUME TypeOK, NEW m \in Requests, NEW v \in Seq(Requests),
         NEW c, c = TearMapped(m, v)
  PROVE  /\ c \in [Requests -> Cache] /\ OthersKept(c, m)
         /\ c[m].mapped = v /\ c[m].listed = cache[m].listed
         /\ c[m].mapTorn
<1>1. cache \in [Requests -> Cache] /\ cache[m] \in Cache
  BY DEF TypeOK
<1>2. PICK w : w = [cache[m] EXCEPT !.mapped = v, !.mapTorn = TRUE]
  OBVIOUS
<1>3. /\ w \in Cache /\ w.mapped = v /\ w.listed = cache[m].listed
      /\ w.mapTorn
  BY <1>1, <1>2 DEF Cache
<1>4. c = [cache EXCEPT ![m] = w]
  BY <1>1, <1>2 DEF TearMapped
<1> QED
  BY <1>1, <1>3, <1>4 DEF OthersKept

LEMMA TornListChange ==
  ASSUME TypeOK, NEW m \in Requests, NEW v \in Seq(Requests),
         NEW c, c = TearListed(m, v)
  PROVE  /\ c \in [Requests -> Cache] /\ OthersKept(c, m)
         /\ c[m].listed = v /\ c[m].mapped = cache[m].mapped
         /\ c[m].mapTorn = cache[m].mapTorn
<1>1. cache \in [Requests -> Cache] /\ cache[m] \in Cache
  BY DEF TypeOK
<1>2. PICK w : w = [cache[m] EXCEPT !.listed = v, !.listTorn = TRUE]
  OBVIOUS
<1>3. /\ w \in Cache /\ w.listed = v /\ w.mapped = cache[m].mapped
      /\ w.mapTorn = cache[m].mapTorn
  BY <1>1, <1>2 DEF Cache
<1>4. c = [cache EXCEPT ![m] = w]
  BY <1>1, <1>2 DEF TearListed
<1> QED
  BY <1>1, <1>3, <1>4 DEF OthersKept

LEMMA FlagChange ==
  ASSUME TypeOK, NEW m \in Requests, NEW v \in BOOLEAN, NEW c,
         \/ c = [cache EXCEPT ![m].flushDue = v]
         \/ c = [cache EXCEPT ![m].rotateDue = v]
  PROVE  /\ c \in [Requests -> Cache] /\ OthersKept(c, m)
         /\ c[m].listed = cache[m].listed /\ c[m].mapped = cache[m].mapped
         /\ c[m].mapTorn = cache[m].mapTorn
<1>1. cache \in [Requests -> Cache] /\ cache[m] \in Cache
  BY DEF TypeOK
<1>2. PICK w : \/ w = [cache[m] EXCEPT !.flushDue = v] /\ c = [cache EXCEPT ![m] = w]
               \/ w = [cache[m] EXCEPT !.rotateDue = v] /\ c = [cache EXCEPT ![m] = w]
  OBVIOUS
<1>3. /\ w \in Cache /\ w.listed = cache[m].listed /\ w.mapped = cache[m].mapped
      /\ w.mapTorn = cache[m].mapTorn
  BY <1>1, <1>2 DEF Cache
<1>4. c = [cache EXCEPT ![m] = w]
  BY <1>2
<1> QED
  BY <1>1, <1>3, <1>4 DEF OthersKept

\* The iteration of r takes a step.
LEMMA IterAdvances ==
  ASSUME TypeOK, NEW r \in Requests, NEW v \in SUBSET Requests, NEW i,
         i = Advance(r, v)
  PROVE  /\ i \in [Requests -> Iterator]
         /\ i[r].cursor = iter[r].cursor + 1 /\ i[r].toRemove = v
         /\ i[r].state = iter[r].state
         /\ \A q \in Requests \ {r} : i[q] = iter[q]
<1>1. iter \in [Requests -> Iterator] /\ iter[r] \in Iterator
  BY DEF TypeOK
<1>2. PICK w : w = [iter[r] EXCEPT !.cursor = @ + 1, !.toRemove = v]
  OBVIOUS
<1>3. /\ w \in Iterator /\ w.cursor = iter[r].cursor + 1 /\ w.toRemove = v
      /\ w.state = iter[r].state
  <2>1. PICK n \in Nat : n = iter[r].cursor + 1
    BY <1>1 DEF Iterator
  <2>2. w = [iter[r] EXCEPT !.cursor = n, !.toRemove = v]
    BY <1>2, <2>1
  <2> QED
    BY <1>1, <2>1, <2>2 DEF Iterator
<1>4. i = [iter EXCEPT ![r] = w]
  BY <1>2 DEF Advance
<1> QED
  BY <1>1, <1>3, <1>4

\* Iterators of others may be found disturbed; nothing else of them changes.
Disturbed(i, q, state) ==
  /\ i[q] \in Iterator
  /\ i[q].cursor = iter[q].cursor /\ i[q].toRemove = iter[q].toRemove
  /\ i[q].state \in {iter[q].state, state}

LEMMA StateChange ==
  ASSUME TypeOK, NEW q \in Requests, NEW state \in {"changed", "broken"}, NEW w,
         w \in {iter[q], [iter[q] EXCEPT !.state = state]}
  PROVE  /\ w \in Iterator
         /\ w.cursor = iter[q].cursor /\ w.toRemove = iter[q].toRemove
         /\ w.state \in {iter[q].state, state}
<1>1. iter[q] \in Iterator
  BY DEF TypeOK
<1> QED
  BY <1>1 DEF Iterator

LEMMA Invalidated ==
  ASSUME TypeOK, NEW m, NEW r, NEW i, i = Invalidate(m, r)
  PROVE  /\ i \in [Requests -> Iterator]
         /\ \A q \in Requests : Disturbed(i, q, "changed")
         /\ \A q \in Iterating(m) \ {r} : i[q].state # "fresh"
<1>1. i = [q \in Requests |-> IF q \in Iterating(m) \ {r} /\ iter[q].state = "fresh"
                              THEN [iter[q] EXCEPT !.state = "changed"] ELSE iter[q]]
  BY DEF Invalidate
<1>2. ASSUME NEW q \in Requests
      PROVE  /\ i[q] \in Iterator /\ Disturbed(i, q, "changed")
             /\ q \in Iterating(m) \ {r} => i[q].state # "fresh"
  <2>1. i[q] = IF q \in Iterating(m) \ {r} /\ iter[q].state = "fresh"
               THEN [iter[q] EXCEPT !.state = "changed"] ELSE iter[q]
    BY <1>1
  <2>2. i[q] \in {iter[q], [iter[q] EXCEPT !.state = "changed"]}
    BY <2>1
  <2>3. /\ i[q] \in Iterator
        /\ i[q].cursor = iter[q].cursor /\ i[q].toRemove = iter[q].toRemove
        /\ i[q].state \in {iter[q].state, "changed"}
    BY <2>2, StateChange
  <2>4. iter[q] \in Iterator /\ [iter[q] EXCEPT !.state = "changed"].state = "changed"
    BY DEF TypeOK, Iterator
  <2> QED
    BY <2>1, <2>3, <2>4 DEF Disturbed
<1>3. i = [q \in Requests |-> i[q]]
  BY <1>1
<1>4. i \in [Requests -> Iterator]
  BY <1>2, <1>3
<1> QED
  BY <1>2, <1>4 DEF Iterating

LEMMA NewIterTyped ==
  ASSUME NEW next \in {"checkRotate", "done"}
  PROVE  /\ NewIter(next) \in Iterator
         /\ NewIter(next).cursor = 0 /\ NewIter(next).toRemove = {}
BY DEF NewIter, Iterator

-----------------------------------------------------------------------------
(* What the steps change: the sets of streams in the map and in the list   *)
(* of each manager, and the streams that each rotation is to remove.       *)

LEMMA HasManager ==
  ASSUME TypeOK, Flow, NEW r \in Requests, pc[r] \notin Early
  PROVE  mgr[r] \in Requests
BY DEF TypeOK, Flow

\* The stream a rotation looks at.
LEMMA LookedAt ==
  ASSUME TypeOK, Flow, InsideList, NEW r \in Requests, Look(r)
  PROVE  /\ iter[r].cursor + 1 \in DOMAIN Listed(r)
         /\ Listed(r)[iter[r].cursor + 1] \in Range(Listed(r))
         /\ Listed(r)[iter[r].cursor + 1] \in Requests
<1>1. mgr[r] \in Requests
  BY HasManager DEF Look, At, Early
<1>2. Listed(r) \in Seq(Requests) /\ iter[r].cursor \in Nat
  BY <1>1 DEF TypeOK, Cache, Iterator, Listed
<1>3. iter[r].cursor <= Len(Listed(r)) /\ iter[r].cursor # Len(Listed(r))
  BY DEF InsideList, Look, At, HasNext
<1>4. iter[r].cursor + 1 \in DOMAIN Listed(r)
  BY <1>2, <1>3
<1> QED
  BY <1>2, <1>4 DEF Range

SameStreams ==
  \A m \in Requests : /\ cache'[m].mapped = cache[m].mapped
                      /\ cache'[m].listed = cache[m].listed
                      /\ cache'[m].mapTorn = cache[m].mapTorn

\* The request moves on within the steps after the one that adds its stream.
Moves(r) == \E p \in AfterAdd : pc[r] \in AfterAdd /\ pc' = [pc EXCEPT ![r] = p]

IterKept(r) ==
  \A q \in Requests \ {r} : iter'[q] = iter[q]

RemovedLess(r) ==
  iter'[r].toRemove # {} => /\ iter'[r].toRemove = iter[r].toRemove
                            /\ pc'[r] \in {"visit", "removeAll"}

CursorSound(r) ==
  pc'[r] \in {"serialise", "visit"} /\ iter'[r].state = "fresh" =>
    iter'[r].cursor <= Len(Listed(r))

\* A step that only concerns the thread's own control and the due flags.
QuietStep(r) ==
  /\ UNCHANGED <<threads, instance, hits, old, history>>
  /\ cache' \in [Requests -> Cache] /\ iter' \in [Requests -> Iterator]
  /\ SameStreams /\ Moves(r) /\ IterKept(r) /\ RemovedLess(r) /\ CursorSound(r)

Quiet(r) ==
  \/ CheckFlush(r) \/ SerialiseNext(r) \/ SerialiseEnd(r) \/ StampFlush(r)
  \/ CheckRotate(r) \/ StartRotation(r) \/ VisitEnd(r) \/ Throws(r)

LEMMA QuietSteps ==
  ASSUME TypeOK, Flow, InsideList, NEW r \in Requests, Quiet(r)
  PROVE  QuietStep(r)
<1>1. /\ pc \in [Requests -> Points] /\ cache \in [Requests -> Cache]
      /\ iter \in [Requests -> Iterator] /\ iter[r] \in Iterator
  BY DEF TypeOK
<1>2. pc[r] \in AfterAdd
  BY DEF Quiet, CheckFlush, SerialiseNext, SerialiseEnd, StampFlush, CheckRotate,
         StartRotation, VisitEnd, Throws, At, AfterAdd
<1>3. mgr[r] \in Requests
  BY <1>2, HasManager DEF AfterAdd, Early
<1>4. cache[mgr[r]] \in Cache /\ Listed(r) \in Seq(Requests) /\ Len(Listed(r)) \in Nat
  BY <1>1, <1>3 DEF Cache, Listed
<1>5. NewIter("done") \in Iterator /\ NewIter("checkRotate") \in Iterator
      /\ \A next \in {"checkRotate", "done"} :
           NewIter(next).cursor = 0 /\ NewIter(next).toRemove = {}
  BY NewIterTyped
<1>6. \A q \in Requests : iter[q].toRemove # {} => pc[q] \in {"visit", "removeAll"}
  BY DEF Flow
<1> USE DEF SameStreams, IterKept, RemovedLess, CursorSound
<1>7. CASE CheckFlush(r)
  <2>1. PICK v \in BOOLEAN : cache' = [cache EXCEPT ![mgr[r]].flushDue = v]
    BY <1>4, <1>7 DEF CheckFlush, Cache
  <2>2. cache' \in [Requests -> Cache] /\ SameStreams
    <3>1. /\ cache' \in [Requests -> Cache] /\ OthersKept(cache', mgr[r])
          /\ cache'[mgr[r]].listed = cache[mgr[r]].listed
          /\ cache'[mgr[r]].mapped = cache[mgr[r]].mapped
          /\ cache'[mgr[r]].mapTorn = cache[mgr[r]].mapTorn
      BY <1>3, <2>1, FlagChange
    <3> QED
      BY <3>1 DEF OthersKept
  <2>3. \/ GoTo(r, "serialise") /\ iter' = [iter EXCEPT ![r] = NewIter("checkRotate")]
        \/ GoTo(r, "checkRotate") /\ UNCHANGED iter
    BY <1>7 DEF CheckFlush
  <2>4. pc[r] = "checkFlush"
    BY <1>7 DEF CheckFlush, At
  <2>5. /\ iter' \in [Requests -> Iterator] /\ IterKept(r)
        /\ RemovedLess(r) /\ CursorSound(r) /\ Moves(r)
    <3>1. CASE GoTo(r, "serialise") /\ iter' = [iter EXCEPT ![r] = NewIter("checkRotate")]
      BY <1>1, <1>2, <1>4, <1>5, <3>1 DEF GoTo, Moves, AfterAdd
    <3>2. CASE GoTo(r, "checkRotate") /\ UNCHANGED iter
      BY <1>1, <1>2, <1>6, <2>4, <3>2 DEF GoTo, Moves, AfterAdd
    <3> QED
      BY <2>3, <3>1, <3>2
  <2> QED
    BY <1>7, <2>2, <2>5 DEF QuietStep, CheckFlush
<1>8. CASE SerialiseNext(r)
  <2>1. /\ iter' = [iter EXCEPT ![r].cursor = @ + 1] /\ pc' = pc /\ cache' = cache
        /\ pc[r] = "serialise"
        /\ iter[r].state = "fresh" /\ iter[r].cursor # Len(Listed(r))
    BY <1>8 DEF SerialiseNext, At, HasNext
  <2>2. /\ iter'[r] \in Iterator /\ iter'[r].cursor = iter[r].cursor + 1
        /\ iter'[r].toRemove = iter[r].toRemove
    BY <1>1, <2>1 DEF Iterator
  <2>3. iter[r].cursor \in Nat /\ iter[r].cursor <= Len(Listed(r))
    BY <1>1, <2>1 DEF Iterator, InsideList
  <2>4. iter' \in [Requests -> Iterator] /\ IterKept(r)
    BY <1>1, <2>1, <2>2
  <2>5. RemovedLess(r) /\ CursorSound(r) /\ Moves(r)
    BY <1>1, <1>2, <1>4, <1>6, <2>1, <2>2, <2>3 DEF Moves
  <2> QED
    BY <1>1, <1>8, <2>1, <2>4, <2>5 DEF QuietStep, SerialiseNext
<1>9. CASE SerialiseEnd(r) \/ VisitEnd(r)
  <2>1. /\ iter' = iter /\ cache' = cache
        /\ \/ pc[r] = "serialise" /\ pc' = [pc EXCEPT ![r] = "stamp"]
           \/ pc[r] = "visit" /\ pc' = [pc EXCEPT ![r] = "removeAll"]
    BY <1>9 DEF SerialiseEnd, VisitEnd, At, GoTo
  <2>2. IterKept(r) /\ RemovedLess(r) /\ CursorSound(r) /\ Moves(r)
    BY <1>1, <1>2, <1>6, <2>1 DEF Moves, AfterAdd
  <2> QED
    BY <1>1, <1>9, <2>1, <2>2 DEF QuietStep, SerialiseEnd, VisitEnd
<1>10. CASE StampFlush(r)
  <2>1. cache' = [cache EXCEPT ![mgr[r]].flushDue = FALSE]
    BY <1>10 DEF StampFlush
  <2>2. cache' \in [Requests -> Cache] /\ SameStreams
    <3>1. /\ cache' \in [Requests -> Cache] /\ OthersKept(cache', mgr[r])
          /\ cache'[mgr[r]].listed = cache[mgr[r]].listed
          /\ cache'[mgr[r]].mapped = cache[mgr[r]].mapped
          /\ cache'[mgr[r]].mapTorn = cache[mgr[r]].mapTorn
      BY <1>3, <2>1, FlagChange
    <3> QED
      BY <3>1 DEF OthersKept
  <2>3. /\ iter' = [iter EXCEPT ![r] = NewIter("done")]
        /\ pc' = [pc EXCEPT ![r] = iter[r].next]
        /\ iter[r].next \in {"checkRotate", "done"}
    BY <1>1, <1>10 DEF StampFlush, GoTo, Iterator
  <2>4. /\ iter' \in [Requests -> Iterator] /\ IterKept(r)
        /\ RemovedLess(r) /\ CursorSound(r) /\ Moves(r)
    BY <1>1, <1>2, <1>4, <1>5, <2>3 DEF Moves, AfterAdd
  <2> QED
    BY <1>10, <2>2, <2>4 DEF QuietStep, StampFlush
<1>11. CASE CheckRotate(r)
  <2>1. PICK v \in BOOLEAN : cache' = [cache EXCEPT ![mgr[r]].rotateDue = v]
    BY <1>4, <1>11 DEF CheckRotate, Cache
  <2>2. cache' \in [Requests -> Cache] /\ SameStreams
    <3>1. /\ cache' \in [Requests -> Cache] /\ OthersKept(cache', mgr[r])
          /\ cache'[mgr[r]].listed = cache[mgr[r]].listed
          /\ cache'[mgr[r]].mapped = cache[mgr[r]].mapped
          /\ cache'[mgr[r]].mapTorn = cache[mgr[r]].mapTorn
      BY <1>3, <2>1, FlagChange
    <3> QED
      BY <3>1 DEF OthersKept
  <2>3. /\ iter' = iter /\ pc[r] = "checkRotate"
        /\ \E p \in {"rotate", "done"} : pc' = [pc EXCEPT ![r] = p]
    BY <1>11 DEF CheckRotate, GoTo, At
  <2>4. IterKept(r) /\ RemovedLess(r) /\ CursorSound(r) /\ Moves(r)
    BY <1>1, <1>2, <1>6, <2>3 DEF Moves, AfterAdd
  <2> QED
    BY <1>1, <1>11, <2>2, <2>3, <2>4 DEF QuietStep, CheckRotate
<1>12. CASE StartRotation(r)
  <2>1. cache' = [cache EXCEPT ![mgr[r]].rotateDue = FALSE]
    BY <1>12 DEF StartRotation
  <2>2. cache' \in [Requests -> Cache] /\ SameStreams
    <3>1. /\ cache' \in [Requests -> Cache] /\ OthersKept(cache', mgr[r])
          /\ cache'[mgr[r]].listed = cache[mgr[r]].listed
          /\ cache'[mgr[r]].mapped = cache[mgr[r]].mapped
          /\ cache'[mgr[r]].mapTorn = cache[mgr[r]].mapTorn
      BY <1>3, <2>1, FlagChange
    <3> QED
      BY <3>1 DEF OthersKept
  <2>3. /\ iter' = [iter EXCEPT ![r] = NewIter("done")]
        /\ pc' = [pc EXCEPT ![r] = "visit"]
    BY <1>12 DEF StartRotation, GoTo
  <2>4. /\ iter' \in [Requests -> Iterator] /\ IterKept(r)
        /\ RemovedLess(r) /\ CursorSound(r) /\ Moves(r)
    BY <1>1, <1>2, <1>4, <1>5, <2>3 DEF Moves, AfterAdd
  <2> QED
    BY <1>12, <2>2, <2>4 DEF QuietStep, StartRotation
<1>13. CASE Throws(r)
  <2>1. /\ iter' = [iter EXCEPT ![r] = NewIter("done")]
        /\ pc' = [pc EXCEPT ![r] = "failed"] /\ cache' = cache
    BY <1>13 DEF Throws, GoTo
  <2>2. /\ iter' \in [Requests -> Iterator] /\ IterKept(r)
        /\ RemovedLess(r) /\ CursorSound(r) /\ Moves(r)
    BY <1>1, <1>2, <1>5, <2>1 DEF Moves, AfterAdd
  <2> QED
    BY <1>1, <1>13, <2>1, <2>2 DEF QuietStep, Throws
<1> QED
  BY <1>7, <1>8, <1>9, <1>10, <1>11, <1>12, <1>13 DEF Quiet

\* A hit goes to the request's stream, or is lost to a race.
AppendStep(r) ==
  /\ UNCHANGED <<threads, instance, cache, old, unseen>>
  /\ pc[r] = "hit" /\ pc' = [pc EXCEPT ![r] = "checkFlush"]
  /\ iter' \in [Requests -> Iterator] /\ \A q \in Requests : Disturbed(iter', q, "broken")
  /\ \/ hits' = [hits EXCEPT ![cs[r]] = @ \cup {r}] /\ raced' = raced
     \/ hits' = hits /\ raced' = raced \cup {r}

LEMMA AppendSteps ==
  ASSUME TypeOK, NEW r \in Requests, AppendHit(r)
  PROVE  AppendStep(r)
<1>1. PICK broken \in SUBSET Inside(cs[r]) :
        iter' = [q \in Requests |-> IF q \in broken
                   THEN [iter[q] EXCEPT !.state = "broken"] ELSE iter[q]]
  BY DEF AppendHit
<1>2. ASSUME NEW q \in Requests
      PROVE  iter'[q] \in Iterator /\ Disturbed(iter', q, "broken")
  <2>1. iter'[q] \in {iter[q], [iter[q] EXCEPT !.state = "broken"]}
    BY <1>1
  <2>2. /\ iter'[q] \in Iterator
        /\ iter'[q].cursor = iter[q].cursor /\ iter'[q].toRemove = iter[q].toRemove
        /\ iter'[q].state \in {iter[q].state, "broken"}
    BY <2>1, StateChange
  <2> QED
    BY <2>2 DEF Disturbed
<1>3. iter' = [q \in Requests |-> iter'[q]]
  BY <1>1
<1>4. iter' \in [Requests -> Iterator]
  BY <1>2, <1>3
<1> QED
  BY <1>2, <1>4 DEF AppendHit, AppendStep, At, GoTo

\* Entries that a race leaves of a map or of a list.
Torn(r, before, after) == \E kept : before \in Seq(Requests) /\ after = Filter(before, kept)

\* A new stream is put into the map of its manager, alone or in a race.
PutStep(r) ==
  /\ UNCHANGED <<threads, iter, instance, old, unseen>>
  /\ pc[r] = "put" /\ pc' = [pc EXCEPT ![r] = "add"]
  /\ hits' = [hits EXCEPT ![r] = {r}]
  /\ cache' \in [Requests -> Cache] /\ OthersKept(cache', mgr[r])
  /\ cache'[mgr[r]].listed = Listed(r)
  /\ \/ /\ ~cache[mgr[r]].mapTorn
        /\ cache'[mgr[r]].mapped = Put(Mapped(r), r) /\ raced' = raced
     \/ /\ cache'[mgr[r]].mapTorn
        /\ \E before \in {Mapped(r), Entered(Mapped(r), r)} :
             Torn(r, before, cache'[mgr[r]].mapped)
        /\ raced' = raced \cup (Range(Entered(Mapped(r), r)) \ Range(cache'[mgr[r]].mapped))

LEMMA PutSteps ==
  ASSUME TypeOK, Flow, NEW r \in Requests, PutStream(r)
  PROVE  PutStep(r)
<1>1. pc[r] = "put" /\ mgr[r] \in Requests
  BY HasManager DEF PutStream, At, Early
<1>2. Mapped(r) \in Seq(Requests)
  BY <1>1 DEF TypeOK, Cache, Mapped
<1>3. CASE /\ ~cache[mgr[r]].mapTorn
           /\ cache' = [cache EXCEPT ![mgr[r]].mapped = Put(@, r)]
           /\ UNCHANGED raced
  <2>1. PICK p : p = Put(Mapped(r), r)
    OBVIOUS
  <2>2. Len(Mapped(r)) <= MAX_CLICKSTREAMS
    BY <1>1, <1>3 DEF TypeOK, Mapped
  <2>3. p \in Seq(Requests)
    BY <1>2, <2>1, <2>2, PutProperties
  <2>4. cache' = SetMapped(mgr[r], p)
    BY <1>3, <2>1 DEF Mapped, SetMapped
  <2>5. /\ cache' \in [Requests -> Cache] /\ OthersKept(cache', mgr[r])
        /\ cache'[mgr[r]].mapped = p /\ cache'[mgr[r]].listed = cache[mgr[r]].listed
    BY <1>1, <2>3, <2>4, MappedChange
  <2> QED
    BY <1>1, <1>3, <2>1, <2>5 DEF PutStream, PutStep, GoTo, Listed
<1>4. CASE \E before \in {Mapped(r), Entered(Mapped(r), r)} : \E kept \in SUBSET Requests :
             LET after == Filter(before, kept) IN
             /\ cache' = [cache EXCEPT ![mgr[r]].mapped = after, ![mgr[r]].mapTorn = TRUE]
             /\ raced' = raced \cup (Range(Entered(Mapped(r), r)) \ Range(after))
  <2>1. PICK g : g = Entered(Mapped(r), r)
    OBVIOUS
  <2>2. g \in Seq(Requests)
    BY <1>2, <2>1, EnteredProperties
  <2>3. PICK before \in {Mapped(r), g} : \E kept \in SUBSET Requests :
             LET after == Filter(before, kept) IN
             /\ cache' = [cache EXCEPT ![mgr[r]].mapped = after, ![mgr[r]].mapTorn = TRUE]
             /\ raced' = raced \cup (Range(g) \ Range(after))
    BY <1>4, <2>1
  <2>4. PICK kept \in SUBSET Requests :
             LET after == Filter(before, kept) IN
             /\ cache' = [cache EXCEPT ![mgr[r]].mapped = after, ![mgr[r]].mapTorn = TRUE]
             /\ raced' = raced \cup (Range(g) \ Range(after))
    BY <2>3
  <2>5. PICK after : after = Filter(before, kept)
    OBVIOUS
  <2>6. before \in Seq(Requests) /\ after \in Seq(Requests)
    BY <1>2, <2>2, <2>5, FilterProperties
  <2>7. cache' = TearMapped(mgr[r], after) /\ raced' = raced \cup (Range(g) \ Range(after))
    BY <2>4, <2>5 DEF TearMapped
  <2>8. /\ cache' \in [Requests -> Cache] /\ OthersKept(cache', mgr[r])
        /\ cache'[mgr[r]].mapped = after /\ cache'[mgr[r]].listed = cache[mgr[r]].listed
        /\ cache'[mgr[r]].mapTorn
    BY <1>1, <2>6, <2>7, TornMapChange
  <2>9. Torn(r, before, after)
    BY <2>5, <2>6 DEF Torn
  <2>10. \E b \in {Mapped(r), Entered(Mapped(r), r)} : Torn(r, b, cache'[mgr[r]].mapped)
    BY <2>1, <2>8, <2>9
  <2> QED
    BY <1>1, <2>1, <2>7, <2>8, <2>10 DEF PutStream, PutStep, GoTo, Listed
<1> QED
  BY <1>3, <1>4 DEF PutStream

\* A new stream is added to the list of its manager, alone or in a race.
AddStep(r) ==
  /\ UNCHANGED <<threads, instance, hits, old, unseen>>
  /\ pc[r] = "add" /\ \E p \in {"checkFlush", "failed"} : pc' = [pc EXCEPT ![r] = p]
  /\ cache' \in [Requests -> Cache] /\ OthersKept(cache', mgr[r])
  /\ cache'[mgr[r]].mapped = Mapped(r) /\ cache'[mgr[r]].mapTorn = cache[mgr[r]].mapTorn
  /\ \/ Range(cache'[mgr[r]].listed) = Range(Listed(r)) \cup {r} /\ raced' = raced
     \/ /\ Range(cache'[mgr[r]].listed) \in {Range(Listed(r)), Range(Listed(r)) \cup {r}}
        /\ raced' = raced \cup {r}
  /\ iter' \in [Requests -> Iterator] /\ \A q \in Requests : Disturbed(iter', q, "changed")
  /\ \A q \in Iterating(mgr[r]) \ {r} : iter'[q].state # "fresh"

LEMMA AddSteps ==
  ASSUME TypeOK, Flow, NEW r \in Requests, AddToList(r)
  PROVE  AddStep(r)
<1>1. pc[r] = "add" /\ mgr[r] \in Requests
  BY HasManager DEF AddToList, At, Early
<1>2. PICK l : l = Append(Listed(r), r)
  OBVIOUS
<1>3. Listed(r) \in Seq(Requests)
  BY <1>1 DEF TypeOK, Cache, Listed
<1>4. l \in Seq(Requests) /\ Range(l) = Range(Listed(r)) \cup {r}
  <2>1. /\ l \in Seq(Requests) /\ Len(Listed(r)) \in Nat
        /\ DOMAIN l = 1..(Len(Listed(r)) + 1) /\ DOMAIN Listed(r) = 1..Len(Listed(r))
        /\ l[Len(Listed(r)) + 1] = r
        /\ \A i \in 1..Len(Listed(r)) : l[i] = Listed(r)[i]
    BY <1>2, <1>3, AppendProperties
  <2>2. \A i : i \in 1..(Len(Listed(r)) + 1) <=>
                 i \in 1..Len(Listed(r)) \/ i = Len(Listed(r)) + 1
    BY <2>1
  <2> QED
    BY <2>1, <2>2 DEF Range
<1>5. \/ cache' = SetListed(mgr[r], l) /\ raced' = raced
      \/ /\ \E after \in {Listed(r), l} : cache' = TearListed(mgr[r], after)
         /\ raced' = raced \cup {r}
  BY <1>2 DEF AddToList, Listed, SetListed, TearListed
<1>6. /\ cache' \in [Requests -> Cache] /\ OthersKept(cache', mgr[r])
      /\ cache'[mgr[r]].mapped = Mapped(r) /\ cache'[mgr[r]].mapTorn = cache[mgr[r]].mapTorn
      /\ \/ cache'[mgr[r]].listed = l /\ raced' = raced
         \/ cache'[mgr[r]].listed \in {Listed(r), l} /\ raced' = raced \cup {r}
  <2>1. CASE cache' = SetListed(mgr[r], l) /\ raced' = raced
    <3>1. /\ cache' \in [Requests -> Cache] /\ OthersKept(cache', mgr[r])
          /\ cache'[mgr[r]].listed = l /\ cache'[mgr[r]].mapped = cache[mgr[r]].mapped
          /\ cache'[mgr[r]].mapTorn = cache[mgr[r]].mapTorn
      BY <1>1, <1>4, <2>1, ListedChange
    <3> QED
      BY <2>1, <3>1 DEF Mapped
  <2>2. ASSUME NEW after \in {Listed(r), l}, cache' = TearListed(mgr[r], after),
               raced' = raced \cup {r}
        PROVE  <1>6!:
    <3>1. after \in Seq(Requests)
      BY <1>3, <1>4
    <3>2. /\ cache' \in [Requests -> Cache] /\ OthersKept(cache', mgr[r])
          /\ cache'[mgr[r]].listed = after /\ cache'[mgr[r]].mapped = cache[mgr[r]].mapped
          /\ cache'[mgr[r]].mapTorn = cache[mgr[r]].mapTorn
      BY <1>1, <2>2, <3>1, TornListChange
    <3> QED
      BY <2>2, <3>2 DEF Mapped
  <2> QED
    BY <1>5, <2>1, <2>2
<1>7. /\ iter' \in [Requests -> Iterator]
      /\ \A q \in Requests : Disturbed(iter', q, "changed")
      /\ \A q \in Iterating(mgr[r]) \ {r} : iter'[q].state # "fresh"
  <2>1. iter' = Invalidate(mgr[r], r)
    BY DEF AddToList
  <2> QED
    BY <2>1, Invalidated
<1>8. \E p \in {"checkFlush", "failed"} : pc' = [pc EXCEPT ![r] = p]
  BY DEF AddToList, GoTo
<1>9. UNCHANGED <<threads, instance, hits, old, unseen>>
  BY DEF AddToList
<1> QED
  BY <1>1, <1>4, <1>6, <1>7, <1>8, <1>9 DEF AddStep

\* A rotation looks at stream s of the list.
VisitStep(r, s) ==
  /\ UNCHANGED <<pc, threads, instance, hits, unseen>>
  /\ pc[r] = "visit" /\ s \in Range(Listed(r)) /\ s \in Requests
  /\ old' \in {old, old \cup {s}}
  /\ cache' \in [Requests -> Cache] /\ OthersKept(cache', mgr[r])
  /\ cache'[mgr[r]].listed = Listed(r)
  /\ \/ /\ cache'[mgr[r]].mapped = IF s \in old' THEN Without(Mapped(r), s) ELSE Mapped(r)
        /\ cache'[mgr[r]].mapTorn = cache[mgr[r]].mapTorn
        /\ raced' = raced
     \/ /\ s \in old' /\ Torn(r, Mapped(r), cache'[mgr[r]].mapped)
        /\ cache'[mgr[r]].mapTorn
        /\ raced' = raced \cup {s} \cup (Range(Mapped(r)) \ Range(cache'[mgr[r]].mapped))
  /\ iter' \in [Requests -> Iterator] /\ IterKept(r) /\ CursorSound(r)
  /\ iter'[r].toRemove = iter[r].toRemove \cup ({s} \cap old')

LEMMA VisitSteps ==
  ASSUME TypeOK, Flow, InsideList, NEW r \in Requests, Visit(r)
  PROVE  \E s \in Requests : VisitStep(r, s)
<1>1. pc[r] = "visit" /\ mgr[r] \in Requests
  BY HasManager DEF Visit, Look, At, Early
<1>2. PICK s : s = Listed(r)[iter[r].cursor + 1]
  OBVIOUS
<1>3. s \in Requests /\ s \in Range(Listed(r)) /\ iter[r].cursor + 1 \in DOMAIN Listed(r)
  BY <1>2, LookedAt DEF Visit
<1>4. Mapped(r) \in Seq(Requests)
  BY <1>1 DEF TypeOK, Cache, Mapped
<1>5. PICK p : p = IF s \in old' THEN Without(Mapped(r), s) ELSE Mapped(r)
  OBVIOUS
<1>6. PICK v : v = iter[r].toRemove \cup ({s} \cap old')
  OBVIOUS
<1>7. /\ old' \in {old, old \cup {s}}
      /\ iter' = Advance(r, v)
      /\ \/ cache' = SetMapped(mgr[r], p) /\ raced' = raced
         \/ /\ s \in old'
            /\ \E kept \in SUBSET Requests :
                 /\ cache' = TearMapped(mgr[r], Filter(Mapped(r), kept))
                 /\ raced' = raced \cup {s} \cup (Range(Mapped(r)) \ Range(Filter(Mapped(r), kept)))
  BY <1>2, <1>5, <1>6 DEF Visit, Mapped, SetMapped, TearMapped, Advance
<1>8. /\ cache' \in [Requests -> Cache] /\ OthersKept(cache', mgr[r])
      /\ cache'[mgr[r]].listed = Listed(r)
      /\ \/ /\ cache'[mgr[r]].mapped = p
            /\ cache'[mgr[r]].mapTorn = cache[mgr[r]].mapTorn
            /\ raced' = raced
         \/ /\ s \in old' /\ Torn(r, Mapped(r), cache'[mgr[r]].mapped)
            /\ cache'[mgr[r]].mapTorn
            /\ raced' = raced \cup {s} \cup (Range(Mapped(r)) \ Range(cache'[mgr[r]].mapped))
  <2>1. CASE cache' = SetMapped(mgr[r], p) /\ raced' = raced
    <3>1. p \in Seq(Requests)
      BY <1>3, <1>4, <1>5, WithoutProperties
    <3>2. /\ cache' \in [Requests -> Cache] /\ OthersKept(cache', mgr[r])
          /\ cache'[mgr[r]].mapped = p /\ cache'[mgr[r]].listed = cache[mgr[r]].listed
          /\ cache'[mgr[r]].mapTorn = cache[mgr[r]].mapTorn
      BY <1>1, <2>1, <3>1, MappedChange
    <3> QED
      BY <2>1, <3>2 DEF Listed
  <2>2. ASSUME s \in old', NEW kept \in SUBSET Requests,
               cache' = TearMapped(mgr[r], Filter(Mapped(r), kept)),
               raced' = raced \cup {s} \cup (Range(Mapped(r)) \ Range(Filter(Mapped(r), kept)))
        PROVE  <1>8!:
    <3>1. PICK after : after = Filter(Mapped(r), kept)
      OBVIOUS
    <3>2. after \in Seq(Requests) /\ Torn(r, Mapped(r), after)
      BY <1>4, <3>1, FilterProperties DEF Torn
    <3>3. /\ cache' \in [Requests -> Cache] /\ OthersKept(cache', mgr[r])
          /\ cache'[mgr[r]].mapped = after /\ cache'[mgr[r]].listed = cache[mgr[r]].listed
          /\ cache'[mgr[r]].mapTorn
      BY <1>1, <2>2, <3>1, <3>2, TornMapChange
    <3> QED
      BY <2>2, <3>1, <3>2, <3>3 DEF Listed
  <2> QED
    BY <1>7, <2>1, <2>2
<1>9. v \in SUBSET Requests
  BY <1>3, <1>6 DEF TypeOK, Iterator
<1>10. /\ iter' \in [Requests -> Iterator]
       /\ iter'[r].cursor = iter[r].cursor + 1 /\ iter'[r].toRemove = v
       /\ \A q \in Requests \ {r} : iter'[q] = iter[q]
  BY <1>7, <1>9, IterAdvances
<1>11. CursorSound(r)
  <2>1. Listed(r) \in Seq(Requests)
    BY <1>1 DEF TypeOK, Cache, Listed
  <2> QED
    BY <1>3, <1>10, <2>1 DEF CursorSound
<1>12. UNCHANGED <<pc, threads, instance, hits, unseen>>
  BY DEF Visit
<1>13. VisitStep(r, s)
  BY <1>1, <1>3, <1>5, <1>6, <1>7, <1>8, <1>10, <1>11, <1>12 DEF VisitStep, IterKept
<1> QED
  BY <1>3, <1>13

\* A rotation drops what it has noted, alone or in a race.
RemoveStep(r) ==
  /\ UNCHANGED <<threads, instance, hits, old, unseen>>
  /\ pc[r] = "removeAll" /\ \E p \in {"serialise", "failed"} : pc' = [pc EXCEPT ![r] = p]
  /\ cache' \in [Requests -> Cache] /\ OthersKept(cache', mgr[r])
  /\ cache'[mgr[r]].mapped = Mapped(r) /\ cache'[mgr[r]].mapTorn = cache[mgr[r]].mapTorn
  /\ Range(cache'[mgr[r]].listed) \subseteq Range(Listed(r))
  /\ \/ /\ Range(cache'[mgr[r]].listed) = Range(Listed(r)) \ iter[r].toRemove
        /\ raced' = raced
     \/ /\ Overlaps(r)
        /\ raced' = raced \cup ((Range(Listed(r)) \ iter[r].toRemove)
                                  \ Range(cache'[mgr[r]].listed))
  /\ iter' \in [Requests -> Iterator]
  /\ iter'[r].toRemove = {} /\ iter'[r].cursor = 0
  /\ \A q \in Requests \ {r} : Disturbed(iter', q, "changed")
  /\ \/ cache'[mgr[r]].listed = Listed(r)
     \/ \A q \in Iterating(mgr[r]) \ {r} : iter'[q].state # "fresh"

LEMMA RemoveSteps ==
  ASSUME TypeOK, Flow, NEW r \in Requests, RemoveAll(r)
  PROVE  RemoveStep(r)
<1>1. pc[r] = "removeAll" /\ mgr[r] \in Requests
  BY HasManager DEF RemoveAll, At, Early
<1>2. PICK k : k = Kept(r)
  OBVIOUS
<1>3. Listed(r) \in Seq(Requests) /\ Range(Listed(r)) \subseteq Requests
  BY <1>1 DEF TypeOK, Cache, Listed, Range
<1>4. k \in Seq(Requests) /\ Range(k) = Range(Listed(r)) \ iter[r].toRemove
  <2>1. PICK keep : keep = Requests \ iter[r].toRemove
    OBVIOUS
  <2>2. k = Filter(Listed(r), keep)
    BY <1>2, <2>1 DEF Kept
  <2>3. k \in Seq(Requests) /\ Range(k) = Range(Listed(r)) \cap keep
    BY <1>3, <2>2, FilterProperties
  <2> QED
    BY <1>3, <2>1, <2>3
<1>5. /\ cache' \in [Requests -> Cache] /\ OthersKept(cache', mgr[r])
      /\ cache'[mgr[r]].mapped = Mapped(r) /\ cache'[mgr[r]].mapTorn = cache[mgr[r]].mapTorn
      /\ Range(cache'[mgr[r]].listed) \subseteq Range(Listed(r))
      /\ \/ Range(cache'[mgr[r]].listed) = Range(k) /\ raced' = raced
         \/ /\ Overlaps(r)
            /\ raced' = raced \cup (Range(k) \ Range(cache'[mgr[r]].listed))
  <2>1. CASE cache' = [cache EXCEPT ![mgr[r]].listed = Kept(r)] /\ raced' = raced
    <3>1. cache' = SetListed(mgr[r], k)
      BY <1>2, <2>1 DEF SetListed
    <3>2. /\ cache' \in [Requests -> Cache] /\ OthersKept(cache', mgr[r])
          /\ cache'[mgr[r]].listed = k /\ cache'[mgr[r]].mapped = cache[mgr[r]].mapped
          /\ cache'[mgr[r]].mapTorn = cache[mgr[r]].mapTorn
      BY <1>1, <1>4, <3>1, ListedChange
    <3> QED
      BY <1>4, <2>1, <3>2 DEF Mapped
  <2>2. ASSUME Rivals(r, {"add", "removeAll"}) # {}, NEW kept \in SUBSET Requests,
               cache' = [cache EXCEPT ![mgr[r]].listed = Filter(@, kept),
                                      ![mgr[r]].listTorn = TRUE],
               raced' = raced \cup (Range(Kept(r)) \ Range(cache'[mgr[r]].listed))
        PROVE  <1>5!:
    <3>1. PICK after : after = Filter(Listed(r), kept)
      OBVIOUS
    <3>2. after \in Seq(Requests) /\ Range(after) \subseteq Range(Listed(r))
      BY <1>3, <3>1, FilterProperties
    <3>3. cache' = TearListed(mgr[r], after)
      BY <2>2, <3>1 DEF TearListed, Listed
    <3>4. /\ cache' \in [Requests -> Cache] /\ OthersKept(cache', mgr[r])
          /\ cache'[mgr[r]].listed = after /\ cache'[mgr[r]].mapped = cache[mgr[r]].mapped
          /\ cache'[mgr[r]].mapTorn = cache[mgr[r]].mapTorn
      BY <1>1, <3>2, <3>3, TornListChange
    <3>5. Overlaps(r)
      BY <1>1, <2>2 DEF Overlaps
    <3> QED
      BY <1>2, <2>2, <3>2, <3>4, <3>5 DEF Mapped
  <2> QED
    BY <2>1, <2>2 DEF RemoveAll
<1>6. PICK l : l = cache'[mgr[r]].listed
  OBVIOUS
<1>7. PICK i : i = IF l = Listed(r) THEN iter ELSE Invalidate(mgr[r], r)
  OBVIOUS
<1>8. iter' = [i EXCEPT ![r] = NewIter("done")]
  BY <1>6, <1>7 DEF RemoveAll
<1>9. /\ i \in [Requests -> Iterator] /\ \A q \in Requests : Disturbed(i, q, "changed")
      /\ l # Listed(r) => \A q \in Iterating(mgr[r]) \ {r} : i[q].state # "fresh"
  <2>1. CASE l = Listed(r)
    BY <1>7, <2>1 DEF TypeOK, Disturbed
  <2>2. CASE l # Listed(r)
    <3>1. i = Invalidate(mgr[r], r)
      BY <1>7, <2>2
    <3> QED
      BY <2>2, <3>1, Invalidated
  <2> QED
    BY <2>1, <2>2
<1>10. /\ iter' \in [Requests -> Iterator]
       /\ iter'[r].toRemove = {} /\ iter'[r].cursor = 0
       /\ \A q \in Requests \ {r} : iter'[q] = i[q]
  <2>1. /\ NewIter("done") \in Iterator
        /\ NewIter("done").cursor = 0 /\ NewIter("done").toRemove = {}
    BY NewIterTyped
  <2> QED
    BY <1>8, <1>9, <2>1
<1>11. /\ \A q \in Requests \ {r} : Disturbed(iter', q, "changed")
       /\ l # Listed(r) => \A q \in Iterating(mgr[r]) \ {r} : iter'[q].state # "fresh"
  BY <1>9, <1>10 DEF Disturbed, Iterating
<1>12. /\ UNCHANGED <<threads, instance, hits, old, unseen>>
       /\ \E p \in {"serialise", "failed"} : pc' = [pc EXCEPT ![r] = p]
  BY DEF RemoveAll, GoTo
<1> QED
  BY <1>1, <1>4, <1>5, <1>6, <1>10, <1>11, <1>12 DEF RemoveStep

\* Every step is one of these.
LEMMA StepCases ==
  ASSUME [Next]_vars
  PROVE  \/ UNCHANGED vars
         \/ \E r \in Requests :
              \/ GetInstance(r) \/ GetFinds(r) \/ GetMisses(r) \/ AppendHit(r)
              \/ PutStream(r) \/ AddToList(r) \/ Quiet(r) \/ Visit(r) \/ RemoveAll(r)
BY DEF Next, Record, Flush, LogRotate, Quiet

-----------------------------------------------------------------------------
(* Types, and what a request has at each point.                            *)

LEMMA InitTyped == Init => TypeOK /\ Flow /\ InsideList
<1> SUFFICES ASSUME Init PROVE TypeOK /\ Flow /\ InsideList
  OBVIOUS
<1> USE RequestAssumption
<1>1. NewIter("done") \in Iterator /\ NewIter("done").toRemove = {}
  BY NewIterTyped
<1>2. PICK c : c = [mapped |-> <<>>, listed |-> <<>>, mapTorn |-> FALSE, listTorn |-> FALSE,
                    flushDue |-> FALSE, rotateDue |-> FALSE]
  OBVIOUS
<1>3. c \in Cache /\ Len(c.mapped) = 0
  BY <1>2 DEF Cache
<1>4. cache = [m \in Requests |-> c]
  BY <1>2 DEF Init
<1>5. TypeOK
  <2>1. /\ cache \in [Requests -> Cache]
        /\ \A m \in Requests :
             cache[m].mapTorn \/ Len(cache[m].mapped) <= MAX_CLICKSTREAMS
    BY <1>3, <1>4
  <2>2. pc \in [Requests -> Points] /\ iter \in [Requests -> Iterator]
    BY <1>1 DEF Init, Points
  <2>3. /\ ip \in [Requests -> Addresses \cup {None}]
        /\ mgr \in [Requests -> Requests \cup {None}]
        /\ cs \in [Requests -> Requests \cup {None}]
        /\ instance \in Requests \cup {None}
    BY DEF Init
  <2>4. /\ hits \in [Requests -> SUBSET Requests] /\ unseen \in [Requests -> SUBSET Requests]
        /\ old \subseteq Requests /\ raced \subseteq Requests
    BY DEF Init
  <2> QED
    BY <2>1, <2>2, <2>3, <2>4 DEF TypeOK
<1>6. Flow /\ InsideList
  BY <1>1 DEF Init, Flow, InsideList, Early
<1> QED
  BY <1>5, <1>6

LEMMA TypeStep ==
  ASSUME TypeOK, Flow, InsideList, [Next]_vars
  PROVE  TypeOK'
<1> USE RequestAssumption DEF TypeOK, threads, history
<1>1. CASE UNCHANGED vars
  BY <1>1 DEF vars
<1>2. ASSUME NEW r \in Requests, GetInstance(r) PROVE TypeOK'
  <2>1. CASE \E a \in Addresses : TestInstance(r, a)
    BY <2>1 DEF TestInstance, Points, GoTo
  <2>2. CASE CreateInstance(r)
    BY <2>2 DEF CreateInstance, Points, GoTo
  <2>3. CASE ReturnInstance(r)
    BY <2>3 DEF ReturnInstance, Points, GoTo
  <2> QED
    BY <1>2, <2>1, <2>2, <2>3 DEF GetInstance
<1>3. ASSUME NEW r \in Requests, GetFinds(r) PROVE TypeOK'
  <2>1. PICK s \in Found(r) : cs' = [cs EXCEPT ![r] = s]
    BY <1>3 DEF GetFinds
  <2>2. s \in Requests
    <3>1. mgr[r] \in Requests
      BY <1>3, HasManager DEF GetFinds, Early, At
    <3> QED
      BY <2>1, <3>1 DEF Found, Mapped, Cache, Range
  <2> QED
    BY <1>3, <2>1, <2>2 DEF GetFinds, Points, GoTo, At
<1>4. ASSUME NEW r \in Requests, GetMisses(r) PROVE TypeOK'
  BY <1>4 DEF GetMisses, Rivals, Points, GoTo, At
<1>5. ASSUME NEW r \in Requests, AppendHit(r) PROVE TypeOK'
  <2>1. AppendStep(r)
    BY <1>5, AppendSteps
  <2> QED
    BY <2>1 DEF AppendStep, Points
<1>6. ASSUME NEW r \in Requests, PutStream(r) PROVE TypeOK'
  <2>1. PutStep(r) /\ mgr[r] \in Requests
    BY <1>6, PutSteps, HasManager DEF PutStream, Early, At
  <2>2. Mapped(r) \in Seq(Requests)
    BY <2>1 DEF Cache, Mapped
  <2>3. cache'[mgr[r]].mapTorn \/ Len(cache'[mgr[r]].mapped) <= MAX_CLICKSTREAMS
    <3>1. CASE /\ ~cache[mgr[r]].mapTorn
               /\ cache'[mgr[r]].mapped = Put(Mapped(r), r)
      <4>1. Len(Mapped(r)) <= MAX_CLICKSTREAMS
        BY <2>1, <3>1 DEF Mapped
      <4>2. PICK p : p = Put(Mapped(r), r)
        OBVIOUS
      <4>3. Len(p) <= MAX_CLICKSTREAMS
        BY <2>2, <4>1, <4>2, PutProperties
      <4> QED
        BY <3>1, <4>2, <4>3
    <3>2. CASE cache'[mgr[r]].mapTorn
      BY <3>2
    <3> QED
      BY <2>1, <3>1, <3>2 DEF PutStep
  <2>4. \A m \in Requests : cache'[m].mapTorn \/ Len(cache'[m].mapped) <= MAX_CLICKSTREAMS
    BY <2>1, <2>3 DEF PutStep, OthersKept
  <2>5. raced' \subseteq Requests
    <3>1. PICK g : g = Entered(Mapped(r), r)
      OBVIOUS
    <3>2. g \in Seq(Requests)
      BY <2>2, <3>1, EnteredProperties
    <3>3. Range(g) \subseteq Requests
      BY <3>2 DEF Range
    <3> QED
      BY <2>1, <3>1, <3>3 DEF PutStep
  <2>6. pc' \in [Requests -> Points] /\ hits' \in [Requests -> SUBSET Requests]
    BY <2>1 DEF PutStep, Points
  <2> QED
    BY <2>1, <2>4, <2>5, <2>6 DEF PutStep
<1>7. ASSUME NEW r \in Requests, AddToList(r) PROVE TypeOK'
  <2>1. AddStep(r) /\ mgr[r] \in Requests
    BY <1>7, AddSteps, HasManager DEF AddToList, Early, At
  <2>2. \A m \in Requests : cache'[m].mapTorn \/ Len(cache'[m].mapped) <= MAX_CLICKSTREAMS
    BY <2>1 DEF AddStep, OthersKept, Mapped
  <2>3. raced' \subseteq Requests /\ pc' \in [Requests -> Points]
    BY <2>1 DEF AddStep, Points
  <2> QED
    BY <2>1, <2>2, <2>3 DEF AddStep
<1>8. ASSUME NEW r \in Requests, Quiet(r) PROVE TypeOK'
  <2>1. QuietStep(r)
    BY <1>8, QuietSteps
  <2>2. pc' \in [Requests -> Points]
    BY <2>1 DEF QuietStep, Moves, AfterAdd, Points
  <2> QED
    BY <2>1, <2>2 DEF QuietStep, SameStreams
<1>9. ASSUME NEW r \in Requests, Visit(r) PROVE TypeOK'
  <2>1. PICK s \in Requests : VisitStep(r, s)
    BY <1>9, VisitSteps
  <2>2. mgr[r] \in Requests
    BY <2>1, HasManager DEF VisitStep, Early
  <2>3. /\ Mapped(r) \in Seq(Requests) /\ Len(Mapped(r)) \in Nat
        /\ Range(Mapped(r)) \subseteq Requests
        /\ cache[mgr[r]].mapTorn \/ Len(Mapped(r)) <= MAX_CLICKSTREAMS
        /\ MAX_CLICKSTREAMS \in Nat
    BY <2>2 DEF Cache, Mapped, Range
  <2>4. cache'[mgr[r]].mapTorn \/ Len(cache'[mgr[r]].mapped) <= MAX_CLICKSTREAMS
    <3>1. PICK p : p = Without(Mapped(r), s)
      OBVIOUS
    <3>2. p \in Seq(Requests) /\ Len(p) <= Len(Mapped(r))
      BY <2>3, <3>1, WithoutProperties
    <3>3. cache[mgr[r]].mapTorn \/ Len(p) <= MAX_CLICKSTREAMS
      BY <2>3, <3>2
    <3>4. CASE /\ cache'[mgr[r]].mapped \in {p, Mapped(r)}
               /\ cache'[mgr[r]].mapTorn = cache[mgr[r]].mapTorn
      BY <2>3, <3>3, <3>4
    <3>5. CASE cache'[mgr[r]].mapTorn
      BY <3>5
    <3> QED
      BY <2>1, <3>1, <3>4, <3>5 DEF VisitStep
  <2>5. \A m \in Requests : cache'[m].mapTorn \/ Len(cache'[m].mapped) <= MAX_CLICKSTREAMS
    BY <2>1, <2>4 DEF VisitStep, OthersKept
  <2>6. old' \subseteq Requests /\ raced' \subseteq Requests
    BY <2>1, <2>3 DEF VisitStep
  <2> QED
    BY <2>1, <2>5, <2>6 DEF VisitStep
<1>10. ASSUME NEW r \in Requests, RemoveAll(r) PROVE TypeOK'
  <2>1. RemoveStep(r) /\ mgr[r] \in Requests
    BY <1>10, RemoveSteps, HasManager DEF RemoveAll, Early, At
  <2>2. \A m \in Requests : cache'[m].mapTorn \/ Len(cache'[m].mapped) <= MAX_CLICKSTREAMS
    BY <2>1 DEF RemoveStep, OthersKept, Mapped
  <2>3. Range(Listed(r)) \subseteq Requests
    BY <2>1 DEF Cache, Listed, Range
  <2>4. raced' \subseteq Requests /\ pc' \in [Requests -> Points]
    BY <2>1, <2>3 DEF RemoveStep, Points
  <2> QED
    BY <2>1, <2>2, <2>4 DEF RemoveStep
<1> QED
  BY <1>1, <1>2, <1>3, <1>4, <1>5, <1>6, <1>7, <1>8, <1>9, <1>10, StepCases

LEMMA FlowStep ==
  ASSUME TypeOK, Flow, InsideList, [Next]_vars
  PROVE  Flow'
<1> USE RequestAssumption DEF TypeOK, Flow, Early, threads, history
<1>1. CASE UNCHANGED vars
  BY <1>1 DEF vars
<1>2. ASSUME NEW r \in Requests, GetInstance(r) PROVE Flow'
  <2>1. CASE \E a \in Addresses : TestInstance(r, a)
    BY <2>1 DEF TestInstance, Begins, GoTo, At
  <2>2. CASE CreateInstance(r)
    BY <2>2 DEF CreateInstance, GoTo, At
  <2>3. CASE ReturnInstance(r)
    BY <2>3 DEF ReturnInstance, GoTo, At
  <2> QED
    BY <1>2, <2>1, <2>2, <2>3 DEF GetInstance
<1>3. ASSUME NEW r \in Requests, GetFinds(r) PROVE Flow'
  <2>1. PICK s \in Found(r) : cs' = [cs EXCEPT ![r] = s]
    BY <1>3 DEF GetFinds
  <2>2. s \in Requests
    <3>1. mgr[r] \in Requests
      BY <1>3, HasManager DEF GetFinds, At
    <3> QED
      BY <2>1, <3>1 DEF Found, Mapped, Cache, Range
  <2> QED
    BY <1>3, <2>1, <2>2 DEF GetFinds, GoTo, At
<1>4. ASSUME NEW r \in Requests, GetMisses(r) PROVE Flow'
  BY <1>4 DEF GetMisses, GoTo, At
<1>5. ASSUME NEW r \in Requests, AppendHit(r) PROVE Flow'
  <2>1. AppendStep(r)
    BY <1>5, AppendSteps
  <2> QED
    BY <2>1 DEF AppendStep, Disturbed
<1>6. ASSUME NEW r \in Requests, PutStream(r) PROVE Flow'
  <2>1. PutStep(r)
    BY <1>6, PutSteps
  <2> QED
    BY <2>1 DEF PutStep
<1>7. ASSUME NEW r \in Requests, AddToList(r) PROVE Flow'
  <2>1. AddStep(r)
    BY <1>7, AddSteps
  <2> QED
    BY <2>1 DEF AddStep, Disturbed
<1>8. ASSUME NEW r \in Requests, Quiet(r) PROVE Flow'
  <2>1. QuietStep(r)
    BY <1>8, QuietSteps
  <2>2. PICK p \in AfterAdd : pc[r] \in AfterAdd /\ pc' = [pc EXCEPT ![r] = p]
    BY <2>1 DEF QuietStep, Moves
  <2> QED
    BY <2>1, <2>2 DEF QuietStep, IterKept, RemovedLess, AfterAdd
<1>9. ASSUME NEW r \in Requests, Visit(r) PROVE Flow'
  <2>1. PICK s \in Requests : VisitStep(r, s)
    BY <1>9, VisitSteps
  <2> QED
    BY <2>1 DEF VisitStep, IterKept
<1>10. ASSUME NEW r \in Requests, RemoveAll(r) PROVE Flow'
  <2>1. RemoveStep(r)
    BY <1>10, RemoveSteps
  <2> QED
    BY <2>1 DEF RemoveStep, Disturbed
<1> QED
  BY <1>1, <1>2, <1>3, <1>4, <1>5, <1>6, <1>7, <1>8, <1>9, <1>10, StepCases

LEMMA InsideListStep ==
  ASSUME TypeOK, Flow, InsideList, [Next]_vars
  PROVE  InsideList'
<1> USE DEF InsideList, threads, history
<1>1. CASE UNCHANGED vars
  BY <1>1 DEF vars, Listed
<1>2. /\ pc \in [Requests -> Points] /\ mgr \in [Requests -> Requests \cup {None}]
      /\ \A q \in Requests : pc[q] \in {"serialise", "visit"} => mgr[q] \in Requests
  BY DEF TypeOK, Flow, Early
<1>3. ASSUME NEW r \in Requests, GetInstance(r) PROVE InsideList'
  BY <1>2, <1>3 DEF GetInstance, TestInstance, CreateInstance, ReturnInstance, Begins,
              GoTo, At, Listed
<1>4. ASSUME NEW r \in Requests, GetFinds(r) \/ GetMisses(r) PROVE InsideList'
  BY <1>2, <1>4 DEF GetFinds, GetMisses, GoTo, At, Listed
<1>5. ASSUME NEW r \in Requests, AppendHit(r) PROVE InsideList'
  <2>1. AppendStep(r)
    BY <1>5, AppendSteps
  <2> QED
    BY <1>2, <2>1 DEF AppendStep, Disturbed, Listed
<1>6. ASSUME NEW r \in Requests, PutStream(r) PROVE InsideList'
  <2>1. PutStep(r)
    BY <1>6, PutSteps
  <2> QED
    BY <1>2, <2>1 DEF PutStep, OthersKept, Listed
<1>7. ASSUME NEW r \in Requests, AddToList(r) PROVE InsideList'
  <2>1. AddStep(r)
    BY <1>7, AddSteps
  <2> QED
    BY <1>2, <2>1 DEF AddStep, OthersKept, Disturbed, Iterating, Listed
<1>8. ASSUME NEW r \in Requests, Quiet(r) PROVE InsideList'
  <2>1. QuietStep(r) /\ mgr[r] \in Requests
    BY <1>8, QuietSteps, HasManager DEF QuietStep, Moves, AfterAdd, Early
  <2>2. PICK p : pc' = [pc EXCEPT ![r] = p]
    BY <2>1 DEF QuietStep, Moves
  <2>3. \A q \in Requests : mgr[q] \in Requests => Listed(q)' = Listed(q)
    BY <2>1 DEF QuietStep, SameStreams, Listed
  <2> QED
    BY <1>2, <2>1, <2>2, <2>3 DEF QuietStep, IterKept, CursorSound
<1>9. ASSUME NEW r \in Requests, Visit(r) PROVE InsideList'
  <2>1. PICK s \in Requests : VisitStep(r, s)
    BY <1>9, VisitSteps
  <2>2. \A q \in Requests : mgr[q] \in Requests => Listed(q)' = Listed(q)
    BY <2>1 DEF VisitStep, OthersKept, Listed
  <2> QED
    BY <1>2, <2>1, <2>2 DEF VisitStep, IterKept, CursorSound
<1>10. ASSUME NEW r \in Requests, RemoveAll(r) PROVE InsideList'
  <2>1. RemoveStep(r) /\ mgr[r] \in Requests
    BY <1>10, RemoveSteps, HasManager DEF RemoveAll, Early, At
  <2>2. cache'[mgr[r]].listed \in Seq(Requests)
    BY <2>1 DEF RemoveStep, Cache
  <2>3. 0 <= Len(cache'[mgr[r]].listed)
    BY <2>2
  <2> QED
    BY <1>2, <2>1, <2>3 DEF RemoveStep, OthersKept, Disturbed, Iterating, Listed
<1> QED
  BY <1>1, <1>3, <1>4, <1>5, <1>6, <1>7, <1>8, <1>9, <1>10, StepCases

-----------------------------------------------------------------------------
(* What a step may change.                                                 *)

\* A request keeps its address, its manager and its stream, and gets on.
LEMMA Monotone ==
  ASSUME TypeOK, Flow, InsideList, [Next]_vars
  PROVE  /\ \A q \in Requests :
              /\ pc[q] \in AfterPut => pc'[q] \in AfterPut
              /\ pc[q] \in AfterAdd => pc'[q] \in AfterAdd
              /\ ip[q] # None => ip'[q] = ip[q]
              /\ mgr[q] # None => mgr'[q] = mgr[q]
              /\ cs[q] # None => cs'[q] = cs[q]
         /\ old \subseteq old' /\ raced \subseteq raced'
<1> DEFINE Goal == /\ \A q \in Requests :
                        /\ pc[q] \in AfterPut => pc'[q] \in AfterPut
                        /\ pc[q] \in AfterAdd => pc'[q] \in AfterAdd
                        /\ ip[q] # None => ip'[q] = ip[q]
                        /\ mgr[q] # None => mgr'[q] = mgr[q]
                        /\ cs[q] # None => cs'[q] = cs[q]
                   /\ old \subseteq old' /\ raced \subseteq raced'
<1> USE DEF TypeOK, Flow, Early, threads, history, AfterPut, AfterAdd
<1>1. CASE UNCHANGED vars
  BY <1>1 DEF vars
<1>2. ASSUME NEW r \in Requests, GetInstance(r) PROVE Goal
  BY <1>2 DEF GetInstance, TestInstance, CreateInstance, ReturnInstance, Begins, GoTo, At
<1>3. ASSUME NEW r \in Requests, GetFinds(r) \/ GetMisses(r) PROVE Goal
  BY <1>3 DEF GetFinds, GetMisses, GoTo, At
<1>4. ASSUME NEW r \in Requests, AppendHit(r) PROVE Goal
  <2>1. AppendStep(r)
    BY <1>4, AppendSteps
  <2> QED
    BY <2>1 DEF AppendStep
<1>5. ASSUME NEW r \in Requests, PutStream(r) PROVE Goal
  <2>1. PutStep(r)
    BY <1>5, PutSteps
  <2> QED
    BY <2>1 DEF PutStep
<1>6. ASSUME NEW r \in Requests, AddToList(r) PROVE Goal
  <2>1. AddStep(r)
    BY <1>6, AddSteps
  <2> QED
    BY <2>1 DEF AddStep
<1>7. ASSUME NEW r \in Requests, Quiet(r) PROVE Goal
  <2>1. QuietStep(r)
    BY <1>7, QuietSteps
  <2> QED
    BY <2>1 DEF QuietStep, Moves
<1>8. ASSUME NEW r \in Requests, Visit(r) PROVE Goal
  <2>1. PICK s \in Requests : VisitStep(r, s)
    BY <1>8, VisitSteps
  <2> QED
    BY <2>1 DEF VisitStep
<1>9. ASSUME NEW r \in Requests, RemoveAll(r) PROVE Goal
  <2>1. RemoveStep(r)
    BY <1>9, RemoveSteps
  <2> QED
    BY <2>1 DEF RemoveStep
<1> QED
  BY <1>1, <1>2, <1>3, <1>4, <1>5, <1>6, <1>7, <1>8, <1>9, StepCases

\* The streams that enter the map, enter the list and leave the list, and those
\* that a rotation is to remove.
Enters(m, s) == /\ pc[s] = "put" /\ pc'[s] = "add"
                /\ mgr[s] = m /\ cs[s] = s

MapChange ==
  \A m \in Requests : \A s \in Range(cache'[m].mapped) :
    s \in Range(cache[m].mapped) \/ (s \in Requests /\ Enters(m, s))

ListChange ==
  \A m \in Requests :
    /\ \A s \in Range(cache'[m].listed) :
         \/ s \in Range(cache[m].listed)
         \/ s \in Requests /\ pc[s] = "add" /\ pc'[s] \in AfterAdd /\ mgr[s] = m
    /\ \A s \in Range(cache[m].listed) :
         \/ s \in Range(cache'[m].listed)
         \/ \E r \in Requests : mgr[r] = m /\ s \in iter[r].toRemove
         \/ s \in raced' /\ \E r \in Requests : mgr[r] = m /\ Overlaps(r)

AddChange ==
  \A s \in Requests : pc[s] = "add" /\ pc'[s] # "add" =>
    s \in raced' \/ s \in Range(cache'[mgr[s]].listed)

RemoveChange ==
  \A q \in Requests : \A s \in iter'[q].toRemove :
    \/ s \in iter[q].toRemove
    \/ /\ mgr[q] \in Requests /\ s \in old' /\ s \in Range(Listed(q))
       /\ s \notin Range(cache'[mgr[q]].mapped) \/ s \in raced'

LEMMA Changes ==
  ASSUME TypeOK, Flow, InsideList, [Next]_vars
  PROVE  MapChange /\ ListChange /\ AddChange /\ RemoveChange
<1> DEFINE Goal == MapChange /\ ListChange /\ AddChange /\ RemoveChange
<1> USE DEF MapChange, ListChange, AddChange, RemoveChange, threads, history
<1>1. pc \in [Requests -> Points] /\ iter \in [Requests -> Iterator]
  BY DEF TypeOK
<1>2. CASE UNCHANGED vars
  BY <1>2 DEF vars
<1>3. ASSUME NEW r \in Requests, GetInstance(r) PROVE Goal
  BY <1>1, <1>3 DEF GetInstance, TestInstance, CreateInstance, ReturnInstance, Begins,
                    GoTo, At
<1>4. ASSUME NEW r \in Requests, GetFinds(r) \/ GetMisses(r) PROVE Goal
  BY <1>1, <1>4 DEF GetFinds, GetMisses, GoTo, At
<1>5. ASSUME NEW r \in Requests, AppendHit(r) PROVE Goal
  <2>1. AppendStep(r)
    BY <1>5, AppendSteps
  <2> QED
    BY <1>1, <2>1 DEF AppendStep, Disturbed
<1>6. ASSUME NEW r \in Requests, PutStream(r) PROVE Goal
  <2>1. PutStep(r) /\ mgr[r] \in Requests
    BY <1>6, PutSteps, HasManager DEF PutStep, Early
  <2>2. cs[r] = r
    BY <2>1 DEF PutStep, Flow
  <2>3. Range(cache'[mgr[r]].mapped) \subseteq Range(Mapped(r)) \cup {r}
    <3>1. Mapped(r) \in Seq(Requests)
      BY <2>1 DEF TypeOK, Cache, Mapped
    <3>2. PICK p : p = cache'[mgr[r]].mapped
      OBVIOUS
    <3>3. CASE ~cache[mgr[r]].mapTorn /\ p = Put(Mapped(r), r)
      <4>1. Len(Mapped(r)) <= MAX_CLICKSTREAMS
        BY <2>1, <3>3 DEF TypeOK, Mapped
      <4> QED
        BY <3>1, <3>2, <3>3, <4>1, PutProperties
    <3>4. ASSUME NEW before \in {Mapped(r), Entered(Mapped(r), r)}, Torn(r, before, p)
          PROVE  Range(p) \subseteq Range(Mapped(r)) \cup {r}
      <4>1. PICK g : g = Entered(Mapped(r), r)
        OBVIOUS
      <4>2. g \in Seq(Requests) /\ Range(g) \subseteq Range(Mapped(r)) \cup {r}
        BY <3>1, <4>1, EnteredProperties
      <4>3. PICK keep : before \in Seq(Requests) /\ p = Filter(before, keep)
        BY <3>4 DEF Torn
      <4>4. Range(p) \subseteq Range(before)
        BY <4>3, FilterProperties
      <4> QED
        BY <3>4, <4>1, <4>2, <4>4
    <3> QED
      BY <2>1, <3>2, <3>3, <3>4 DEF PutStep
  <2>4. MapChange
    <3> SUFFICES ASSUME NEW m \in Requests, NEW s \in Range(cache'[m].mapped)
                 PROVE  s \in Range(cache[m].mapped) \/ (s \in Requests /\ Enters(m, s))
      OBVIOUS
    <3>1. CASE m = mgr[r]
      BY <1>1, <2>1, <2>2, <2>3, <3>1 DEF PutStep, Mapped, Enters
    <3>2. CASE m # mgr[r]
      BY <2>1, <3>2 DEF PutStep, OthersKept
    <3> QED
      BY <3>1, <3>2
  <2>5. ListChange
    BY <2>1 DEF PutStep, OthersKept, Listed
  <2>6. AddChange /\ RemoveChange
    BY <1>1, <2>1 DEF PutStep
  <2> QED
    BY <2>4, <2>5, <2>6
<1>7. ASSUME NEW r \in Requests, AddToList(r) PROVE Goal
  <2>1. AddStep(r) /\ mgr[r] \in Requests
    BY <1>7, AddSteps, HasManager DEF AddStep, Early
  <2>2. MapChange
    BY <2>1 DEF AddStep, OthersKept, Mapped
  <2>3. ListChange
    BY <1>1, <2>1 DEF AddStep, OthersKept, Listed, AfterAdd
  <2>4. AddChange
    BY <1>1, <2>1 DEF AddStep
  <2>5. RemoveChange
    BY <2>1 DEF AddStep, Disturbed
  <2> QED
    BY <2>2, <2>3, <2>4, <2>5
<1>8. ASSUME NEW r \in Requests, Quiet(r) PROVE Goal
  <2>1. QuietStep(r)
    BY <1>8, QuietSteps
  <2>2. MapChange /\ ListChange
    BY <2>1 DEF QuietStep, SameStreams
  <2>3. AddChange /\ RemoveChange
    BY <1>1, <2>1 DEF QuietStep, Moves, AfterAdd, IterKept, RemovedLess
  <2> QED
    BY <2>2, <2>3
<1>9. ASSUME NEW r \in Requests, Visit(r) PROVE Goal
  <2>1. PICK s \in Requests : VisitStep(r, s)
    BY <1>9, VisitSteps
  <2>2. mgr[r] \in Requests
    BY <2>1, HasManager DEF VisitStep, Early
  <2>3. /\ Range(Without(Mapped(r), s)) \subseteq Range(Mapped(r))
        /\ s \notin Range(Without(Mapped(r), s))
        /\ \A p : Torn(r, Mapped(r), p) => Range(p) \subseteq Range(Mapped(r))
    <3>1. Mapped(r) \in Seq(Requests)
      BY <2>2 DEF TypeOK, Cache, Mapped
    <3>2. PICK p : p = Without(Mapped(r), s)
      OBVIOUS
    <3>3. Range(p) = {x \in Range(Mapped(r)) : ip[x] # ip[s]}
      BY <3>1, <3>2, WithoutProperties
    <3>4. ASSUME NEW q, Torn(r, Mapped(r), q) PROVE Range(q) \subseteq Range(Mapped(r))
      <4>1. PICK keep : q = Filter(Mapped(r), keep)
        BY <3>4 DEF Torn
      <4> QED
        BY <3>1, <4>1, FilterProperties
    <3> QED
      BY <3>2, <3>3, <3>4
  <2>4. MapChange
    <3>1. Range(cache'[mgr[r]].mapped) \subseteq Range(cache[mgr[r]].mapped)
      BY <2>1, <2>3 DEF VisitStep, Mapped
    <3> QED
      BY <2>1, <3>1 DEF VisitStep, OthersKept
  <2>5. ListChange
    BY <2>1 DEF VisitStep, OthersKept, Listed
  <2>6. AddChange
    BY <2>1 DEF VisitStep
  <2>7. RemoveChange
    BY <2>1, <2>2, <2>3 DEF VisitStep, IterKept
  <2> QED
    BY <2>4, <2>5, <2>6, <2>7
<1>10. ASSUME NEW r \in Requests, RemoveAll(r) PROVE Goal
  <2>1. RemoveStep(r) /\ mgr[r] \in Requests
    BY <1>10, RemoveSteps, HasManager DEF RemoveStep, Early
  <2>2. MapChange
    BY <2>1 DEF RemoveStep, OthersKept, Mapped
  <2>3. ListChange
    <3> SUFFICES ASSUME NEW m \in Requests
                 PROVE  /\ Range(cache'[m].listed) \subseteq Range(cache[m].listed)
                        /\ \A s \in Range(cache[m].listed) :
                             \/ s \in Range(cache'[m].listed)
                             \/ \E q \in Requests : mgr[q] = m /\ s \in iter[q].toRemove
                             \/ s \in raced' /\ \E q \in Requests : mgr[q] = m /\ Overlaps(q)
      OBVIOUS
    <3>1. CASE m # mgr[r]
      BY <2>1, <3>1 DEF RemoveStep, OthersKept
    <3>2. CASE m = mgr[r]
      BY <2>1, <3>2 DEF RemoveStep, Listed
    <3> QED
      BY <3>1, <3>2
  <2>4. AddChange
    BY <1>1, <2>1 DEF RemoveStep
  <2>5. RemoveChange
    BY <2>1 DEF RemoveStep, Disturbed
  <2> QED
    BY <2>2, <2>3, <2>4, <2>5
<1> QED
  BY <1>2, <1>3, <1>4, <1>5, <1>6, <1>7, <1>8, <1>9, <1>10, StepCases

-----------------------------------------------------------------------------
(* The map, the list and the rotations.                                    *)

Collections == FoundWasPut /\ Owned /\ Removed /\ EntriesAreSaved

\* The stream that a request finds.
LEMMA GetStep ==
  ASSUME TypeOK, Flow, Owned, NEW r \in Requests, GetFinds(r)
  PROVE  /\ pc[r] = "get" /\ pc' = [pc EXCEPT ![r] = "hit"]
         /\ mgr[r] \in Requests
         /\ \E s \in Range(Mapped(r)) :
              /\ cs' = [cs EXCEPT ![r] = s]
              /\ s \in Requests /\ pc[s] \in AfterPut /\ s # r
         /\ UNCHANGED <<ip, mgr, iter, instance, cache, hits, old, history>>
<1>1. /\ pc[r] = "get" /\ pc' = [pc EXCEPT ![r] = "hit"]
      /\ UNCHANGED <<ip, mgr, iter, instance, cache, hits, old, history>>
  BY DEF GetFinds, At, GoTo
<1>2. mgr[r] \in Requests
  BY <1>1, HasManager DEF Early
<1>3. PICK s \in Range(Mapped(r)) : cs' = [cs EXCEPT ![r] = s]
  BY DEF GetFinds, Found
<1>4. s \in Requests
  BY <1>2 DEF TypeOK, Cache, Mapped, Range
<1>5. pc[s] \in AfterPut
  BY <1>2 DEF Owned, Mapped
<1>6. s # r
  BY <1>1, <1>5 DEF AfterPut, AfterAdd
<1> QED
  BY <1>1, <1>2, <1>3, <1>4, <1>5, <1>6

LEMMA FoundWasPutStep ==
  ASSUME TypeOK, Flow, InsideList, FoundWasPut, Owned, [Next]_vars
  PROVE  FoundWasPut'
<1> USE DEF FoundWasPut, threads, history
<1>1. \A q \in Requests : /\ pc[q] \in AfterPut => pc'[q] \in AfterPut
                          /\ mgr[q] # None => mgr'[q] = mgr[q]
  BY Monotone
<1>2. /\ pc \in [Requests -> Points] /\ cs \in [Requests -> Requests \cup {None}]
      /\ None \notin Requests
  BY RequestAssumption DEF TypeOK
\* The managers of a request with a stream and of that stream last.
<1>3. \A q \in Requests : cs[q] # None => /\ cs[q] \in Requests /\ mgr[q] # None
                                          /\ mgr'[q] = mgr[q]
                                          /\ mgr'[cs[q]] = mgr'[q]
  BY <1>1, <1>2 DEF Flow, Early
<1>4. ASSUME cs' = cs, \A q \in Requests : pc'[q] = "hit" => pc[q] = "hit"
      PROVE  FoundWasPut'
  BY <1>1, <1>2, <1>3, <1>4
<1>5. CASE UNCHANGED vars
  BY <1>4, <1>5 DEF vars
<1>6. ASSUME NEW r \in Requests, GetInstance(r) PROVE FoundWasPut'
  BY <1>2, <1>4, <1>6 DEF GetInstance, TestInstance, CreateInstance, ReturnInstance, GoTo
<1>7. ASSUME NEW r \in Requests, GetFinds(r) PROVE FoundWasPut'
  <2>1. /\ pc' = [pc EXCEPT ![r] = "hit"] /\ mgr[r] \in Requests /\ mgr' = mgr
    BY <1>7, GetStep
  <2>2. PICK s \in Range(Mapped(r)) : /\ cs' = [cs EXCEPT ![r] = s]
                                      /\ s \in Requests /\ pc[s] \in AfterPut /\ s # r
    BY <1>7, GetStep
  <2>3. mgr[s] = mgr[r]
    BY <2>1, <2>2 DEF Owned, Mapped
  <2> QED
    BY <1>1, <1>2, <1>3, <2>1, <2>2, <2>3
<1>8. ASSUME NEW r \in Requests, GetMisses(r) PROVE FoundWasPut'
  <2>1. /\ pc' = [pc EXCEPT ![r] = "put"] /\ cs' = [cs EXCEPT ![r] = r]
    BY <1>8 DEF GetMisses, GoTo
  <2> QED
    BY <1>1, <1>2, <1>3, <2>1
<1>9. ASSUME NEW r \in Requests, AppendHit(r) \/ PutStream(r) \/ AddToList(r)
      PROVE  FoundWasPut'
  BY <1>2, <1>4, <1>9 DEF AppendHit, PutStream, AddToList, GoTo
<1>10. ASSUME NEW r \in Requests, Quiet(r) PROVE FoundWasPut'
  <2>1. QuietStep(r)
    BY <1>10, QuietSteps
  <2> QED
    BY <1>2, <1>4, <2>1 DEF QuietStep, Moves, AfterAdd
<1>11. ASSUME NEW r \in Requests, Visit(r) \/ RemoveAll(r) PROVE FoundWasPut'
  BY <1>2, <1>4, <1>11 DEF Visit, RemoveAll, GoTo
<1> QED
  BY <1>5, <1>6, <1>7, <1>8, <1>9, <1>10, <1>11, StepCases

\* The members of the collections are requests.
LEMMA Members ==
  ASSUME TypeOK, NEW m \in Requests
  PROVE  /\ Range(cache[m].mapped) \subseteq Requests
         /\ Range(cache[m].listed) \subseteq Requests
BY DEF TypeOK, Cache, Range

LEMMA CollectionsStep ==
  ASSUME TypeOK, Flow, InsideList, Collections, [Next]_vars
  PROVE  Collections'
<1>1. FoundWasPut /\ Owned /\ Removed /\ EntriesAreSaved
  BY DEF Collections
<1>2. /\ \A q \in Requests :
           /\ pc[q] \in AfterPut => pc'[q] \in AfterPut
           /\ pc[q] \in AfterAdd => pc'[q] \in AfterAdd
           /\ mgr[q] # None => mgr'[q] = mgr[q]
           /\ cs[q] # None => cs'[q] = cs[q]
      /\ old \subseteq old' /\ raced \subseteq raced'
  BY Monotone
<1>3. MapChange /\ ListChange /\ AddChange /\ RemoveChange
  BY Changes
<1>4. FoundWasPut'
  BY <1>1, FoundWasPutStep
<1>5. None \notin Requests /\ \A r \in Requests : iter[r].toRemove \subseteq Requests
  BY RequestAssumption DEF TypeOK, Iterator
<1>6. Owned'
  <2>1. ASSUME NEW m \in Requests, NEW s \in Range(cache'[m].mapped)
        PROVE  mgr'[s] = m /\ cs'[s] = s /\ pc'[s] \in AfterPut
    <3>1. CASE s \in Range(cache[m].mapped)
      BY <1>1, <1>2, <1>5, <3>1, Members DEF Owned
    <3>2. CASE s \in Requests /\ Enters(m, s)
      BY <1>2, <1>5, <3>2 DEF Enters, AfterPut
    <3> QED
      BY <1>3, <2>1, <3>1, <3>2 DEF MapChange
  <2>2. ASSUME NEW m \in Requests, NEW s \in Range(cache'[m].listed)
        PROVE  mgr'[s] = m /\ cs'[s] = s /\ pc'[s] \in AfterAdd
    <3>1. CASE s \in Range(cache[m].listed)
      BY <1>1, <1>2, <1>5, <3>1, Members DEF Owned
    <3>2. CASE s \in Requests /\ pc[s] = "add" /\ pc'[s] \in AfterAdd /\ mgr[s] = m
      BY <1>2, <1>5, <3>2 DEF Flow
    <3> QED
      BY <1>3, <2>2, <3>1, <3>2 DEF ListChange
  <2> QED
    BY <2>1, <2>2 DEF Owned
<1>7. Removed'
  <2> SUFFICES ASSUME NEW r \in Requests, NEW s \in iter'[r].toRemove
               PROVE  /\ s \in old' /\ pc'[s] \in AfterAdd
                      /\ s \notin Range(cache'[mgr'[r]].mapped) \/ s \in raced'
    BY DEF Removed, Mapped
  <2>1. CASE s \in iter[r].toRemove
    <3>1. /\ s \in Requests /\ s \in old /\ pc[s] \in AfterAdd
          /\ s \notin Range(cache[mgr[r]].mapped) \/ s \in raced
      BY <1>1, <1>5, <2>1 DEF Removed, Mapped
    <3>2. mgr[r] \in Requests /\ mgr'[r] = mgr[r]
      BY <1>2, <1>5, <2>1, HasManager DEF Flow, Early
    <3>3. s \notin Range(cache'[mgr[r]].mapped) \/ s \in raced'
      BY <1>2, <1>3, <3>1, <3>2 DEF MapChange, Enters, AfterAdd
    <3> QED
      BY <1>2, <3>1, <3>2, <3>3
  <2>2. CASE /\ mgr[r] \in Requests /\ s \in old' /\ s \in Range(Listed(r))
             /\ s \notin Range(cache'[mgr[r]].mapped) \/ s \in raced'
    <3>1. s \in Requests /\ pc[s] \in AfterAdd
      BY <1>1, <2>2, Members DEF Owned, Listed
    <3> QED
      BY <1>2, <1>5, <2>2, <3>1
  <2> QED
    BY <1>3, <2>1, <2>2 DEF RemoveChange
<1>8. EntriesAreSaved'
  <2> SUFFICES ASSUME NEW m \in Requests, NEW s \in Range(cache'[m].mapped)
               PROVE  s \in Range(cache'[m].listed) \/ pc'[s] = "add" \/ s \in raced'
    BY DEF EntriesAreSaved, At
  <2>1. CASE s \in Requests /\ Enters(m, s)
    BY <2>1 DEF Enters
  <2>2. CASE s \in Range(cache[m].mapped)
    <3>1. s \in Requests /\ mgr[s] = m
      BY <1>1, <2>2, Members DEF Owned
    <3>2. s \in Range(cache[m].listed) \/ pc[s] = "add" \/ s \in raced
      BY <1>1, <2>2 DEF EntriesAreSaved, At
    <3>3. CASE s \in Range(cache[m].listed)
      <4>1. CASE \E r \in Requests : mgr[r] = m /\ s \in iter[r].toRemove
        BY <1>1, <1>2, <2>2, <4>1 DEF Removed, Mapped
      <4> QED
        BY <1>3, <3>3, <4>1 DEF ListChange
    <3>4. CASE pc[s] = "add"
      BY <1>3, <3>1, <3>4 DEF AddChange
    <3> QED
      BY <1>2, <3>2, <3>3, <3>4
  <2> QED
    BY <1>3, <2>1, <2>2 DEF MapChange
<1> QED
  BY <1>4, <1>6, <1>7, <1>8 DEF Collections

-----------------------------------------------------------------------------
(* The hits.                                                               *)

HitChange ==
  /\ \A s \in Requests : hits[s] \subseteq hits'[s] \/ pc[s] = "put"
  /\ \A s \in Requests : pc'[s] \notin AfterPut => hits'[s] = hits[s]
  /\ \A r \in Requests : pc'[r] = "hit" =>
       \/ pc[r] = "hit" /\ cs'[r] = cs[r]
       \/ \E m \in Requests : cs'[r] \in Range(cache[m].mapped)
  /\ \A r \in Requests : pc'[r] \in AfterPut /\ pc[r] \notin AfterPut =>
       \/ r \in raced'
       \/ /\ cs[r] \in Requests /\ r \in hits'[cs[r]]
          /\ pc[r] = "hit" \/ pc'[cs[r]] = "add"

LEMMA HitChanges ==
  ASSUME TypeOK, Flow, InsideList, FoundWasPut, Owned, [Next]_vars
  PROVE  HitChange
<1> USE DEF HitChange, threads, history
<1>1. /\ pc \in [Requests -> Points] /\ cs \in [Requests -> Requests \cup {None}]
      /\ hits \in [Requests -> SUBSET Requests]
      /\ None \notin Requests
  BY RequestAssumption DEF TypeOK
<1>2. ASSUME hits' = hits,
             \A r \in Requests : pc'[r] \in AfterPut => pc[r] \in AfterPut,
             \A r \in Requests : pc'[r] = "hit" => pc[r] = "hit" /\ cs'[r] = cs[r]
      PROVE  HitChange
  BY <1>2
<1>3. CASE UNCHANGED vars
  BY <1>2, <1>3 DEF vars
<1>4. ASSUME NEW r \in Requests, GetInstance(r) PROVE HitChange
  BY <1>1, <1>2, <1>4 DEF GetInstance, TestInstance, CreateInstance, ReturnInstance, GoTo,
                          AfterPut, AfterAdd
<1>5. ASSUME NEW r \in Requests, GetFinds(r) PROVE HitChange
  <2>1. /\ pc' = [pc EXCEPT ![r] = "hit"] /\ mgr[r] \in Requests
        /\ hits' = hits /\ cache' = cache
    BY <1>5, GetStep
  <2>2. PICK s \in Range(Mapped(r)) : cs' = [cs EXCEPT ![r] = s]
    BY <1>5, GetStep
  <2> QED
    BY <1>1, <2>1, <2>2 DEF Mapped, AfterPut, AfterAdd
<1>6. ASSUME NEW r \in Requests, GetMisses(r) PROVE HitChange
  BY <1>1, <1>6 DEF GetMisses, GoTo, AfterPut, AfterAdd
<1>7. ASSUME NEW r \in Requests, AppendHit(r) PROVE HitChange
  <2>1. AppendStep(r)
    BY <1>7, AppendSteps
  <2>2. /\ pc[r] = "hit" /\ pc' = [pc EXCEPT ![r] = "checkFlush"] /\ cs' = cs
        /\ \/ hits' = [hits EXCEPT ![cs[r]] = @ \cup {r}]
           \/ hits' = hits /\ r \in raced'
    BY <2>1 DEF AppendStep
  <2>3. cs[r] \in Requests /\ cs[r] # r /\ pc[cs[r]] \in AfterPut
    BY <1>1, <2>2 DEF Flow, FoundWasPut, Early
  <2> QED
    BY <1>1, <2>2, <2>3 DEF AfterPut, AfterAdd
<1>8. ASSUME NEW r \in Requests, PutStream(r) PROVE HitChange
  <2>1. /\ pc[r] = "put" /\ pc' = [pc EXCEPT ![r] = "add"] /\ cs' = cs
        /\ hits' = [hits EXCEPT ![r] = {r}]
    BY <1>8, PutSteps DEF PutStep
  <2>2. cs[r] = r
    BY <2>1 DEF Flow
  <2> QED
    BY <1>1, <2>1, <2>2 DEF AfterPut, AfterAdd
<1>9. ASSUME NEW r \in Requests, AddToList(r) PROVE HitChange
  <2>1. AddStep(r)
    BY <1>9, AddSteps
  <2> QED
    BY <1>1, <1>2, <2>1 DEF AddStep, AfterPut, AfterAdd
<1>10. ASSUME NEW r \in Requests, Quiet(r) PROVE HitChange
  <2>1. QuietStep(r)
    BY <1>10, QuietSteps
  <2> QED
    BY <1>1, <1>2, <2>1 DEF QuietStep, Moves, AfterPut, AfterAdd
<1>11. ASSUME NEW r \in Requests, Visit(r) PROVE HitChange
  BY <1>2, <1>11 DEF Visit
<1>12. ASSUME NEW r \in Requests, RemoveAll(r) PROVE HitChange
  <2>1. RemoveStep(r)
    BY <1>12, RemoveSteps
  <2> QED
    BY <1>1, <1>2, <2>1 DEF RemoveStep, AfterPut, AfterAdd
<1> QED
  BY <1>3, <1>4, <1>5, <1>6, <1>7, <1>8, <1>9, <1>10, <1>11, <1>12, StepCases

\* A stream that is safe stays so.
LEMMA SafeStays ==
  ASSUME TypeOK, Flow, InsideList, Collections, [Next]_vars,
         NEW s \in Requests, Safe(s), mgr[s] # None
  PROVE  Safe(s)'
<1>1. ListChange /\ AddChange /\ old \subseteq old' /\ raced \subseteq raced'
  BY Monotone, Changes
<1>2. mgr[s] \in Requests /\ mgr'[s] = mgr[s]
  BY Monotone DEF TypeOK
<1>3. CASE s \in old \cup raced
  BY <1>1, <1>3 DEF Safe
<1>4. CASE pc[s] = "add"
  BY <1>1, <1>2, <1>4 DEF AddChange, Safe, At, Listed
<1>5. CASE s \in Range(Listed(s))
  <2>1. CASE s \in Range(cache'[mgr[s]].listed)
    BY <1>2, <2>1 DEF Safe, Listed
  <2>2. CASE \E r \in Requests : s \in iter[r].toRemove
    BY <1>1, <2>2 DEF Collections, Removed, Safe
  <2>3. CASE s \in raced'
    BY <2>3 DEF Safe
  <2> QED
    BY <1>1, <1>2, <1>5, <2>1, <2>2, <2>3 DEF ListChange, Listed
<1> QED
  BY <1>3, <1>4, <1>5 DEF Safe, At

LEMMA HitsStep ==
  ASSUME TypeOK, Flow, InsideList, Collections, HitsAreSafe, [Next]_vars
  PROVE  HitsAreSafe'
<1>1. HitChange
  BY HitChanges DEF Collections
<1>2. /\ \A q \in Requests : /\ pc[q] \in AfterPut => pc'[q] \in AfterPut
                             /\ cs[q] # None => cs'[q] = cs[q]
      /\ raced \subseteq raced'
  BY Monotone
<1>3. /\ cs \in [Requests -> Requests \cup {None}] /\ None \notin Requests
      /\ \A m \in Requests : Range(cache[m].mapped) \subseteq Requests
  BY RequestAssumption, Members DEF TypeOK
\* The stream of a request has the manager of the request.
<1>4. \A q \in Requests : pc[q] \notin Early \cup {"get"} =>
        /\ cs[q] \in Requests /\ mgr[cs[q]] = mgr[q] /\ mgr[q] # None
        /\ cs'[q] = cs[q]
  BY <1>2, <1>3 DEF Flow, Collections, FoundWasPut
<1>5. ASSUME NEW s \in Requests, pc'[s] \notin AfterPut PROVE hits'[s] = {}
  BY <1>1, <1>2, <1>5 DEF HitChange, HitsAreSafe
<1>6. ASSUME NEW r \in Requests, pc'[r] = "hit" PROVE Safe(cs[r])'
  <2>1. CASE pc[r] = "hit" /\ cs'[r] = cs[r]
    <3>1. PICK s \in Requests : s = cs[r] /\ mgr[s] # None
      BY <1>4, <2>1 DEF Early
    <3>2. Safe(s)
      BY <2>1, <3>1 DEF HitsAreSafe
    <3>3. Safe(s)'
      BY <3>1, <3>2, SafeStays
    <3> QED
      BY <2>1, <3>1, <3>3 DEF Safe, At, Listed
  <2>2. ASSUME NEW m \in Requests, cs'[r] \in Range(cache[m].mapped) PROVE Safe(cs[r])'
    <3>1. PICK s \in Requests : s = cs'[r]
      BY <1>3, <2>2
    <3>2. mgr[s] = m
      BY <2>2, <3>1 DEF Collections, Owned
    <3>3. Safe(s) /\ mgr[s] # None
      BY <1>3, <2>2, <3>1, <3>2 DEF Collections, EntriesAreSaved, Safe, Listed
    <3>4. Safe(s)'
      BY <3>3, SafeStays
    <3> QED
      BY <3>1, <3>4 DEF Safe, At, Listed
  <2> QED
    BY <1>1, <1>6, <2>1, <2>2 DEF HitChange
<1>7. ASSUME NEW r \in Requests, pc'[r] \in AfterPut, r \notin raced'
      PROVE  r \in hits'[cs'[r]] /\ Safe(cs[r])'
  <2>1. CASE pc[r] \in AfterPut
    <3>1. PICK s \in Requests : s = cs[r] /\ mgr[s] # None /\ cs'[r] = cs[r]
      BY <1>4, <2>1 DEF AfterPut, AfterAdd, Early
    <3>2. r \in hits[s] /\ Safe(s)
      BY <1>2, <1>7, <2>1, <3>1 DEF HitsAreSafe
    <3>3. pc[s] \in AfterPut
      BY <3>2 DEF HitsAreSafe
    <3>4. r \in hits'[s]
      BY <1>1, <3>2, <3>3 DEF HitChange, AfterPut, AfterAdd
    <3>5. Safe(s)'
      BY <3>1, <3>2, SafeStays
    <3> QED
      BY <3>1, <3>4, <3>5 DEF Safe, At, Listed
  <2>2. CASE pc[r] \notin AfterPut
    <3>1. /\ cs[r] \in Requests /\ r \in hits'[cs[r]]
          /\ pc[r] = "hit" \/ pc'[cs[r]] = "add"
      BY <1>1, <1>7, <2>2 DEF HitChange
    <3>2. PICK s \in Requests : s = cs[r] /\ cs'[r] = s
      BY <1>2, <1>3, <3>1
    <3>3. CASE pc[r] = "hit"
      <4>1. Safe(s) /\ mgr[s] # None
        BY <1>4, <3>2, <3>3 DEF HitsAreSafe, Early
      <4>2. Safe(s)'
        BY <4>1, SafeStays
      <4> QED
        BY <3>1, <3>2, <4>2 DEF Safe, At, Listed
    <3>4. CASE pc'[cs[r]] = "add"
      BY <3>1, <3>2, <3>4 DEF Safe, At
    <3> QED
      BY <3>1, <3>3, <3>4
  <2> QED
    BY <2>1, <2>2
<1> QED
  BY <1>5, <1>6, <1>7 DEF HitsAreSafe

-----------------------------------------------------------------------------
(* The requests that have begun.                                           *)

\* A step begins at most one request.
LEMMA StartedStep ==
  ASSUME TypeOK, StartedFinite, [Next]_vars
  PROVE  StartedFinite'
<1> DEFINE started == {q \in Requests : pc[q] # "idle"}
<1>1. \E r : \E p : pc' \in {pc, [pc EXCEPT ![r] = p]}
  BY DEF Next, GetInstance, Record, Flush, LogRotate, TestInstance, CreateInstance,
         ReturnInstance, GetFinds, GetMisses, AppendHit, PutStream, AddToList, Throws,
         CheckFlush, SerialiseNext, SerialiseEnd, StampFlush, CheckRotate, StartRotation,
         Visit, VisitEnd, RemoveAll, GoTo, vars
<1>2. PICK r : \A q \in Requests \ {r} : pc'[q] = pc[q]
  BY <1>1 DEF TypeOK
<1>3. started' \in SUBSET (started \cup {r})
  BY <1>2
<1>4. IsFiniteSet(started \cup {r})
  BY FS_AddElement DEF StartedFinite
<1>5. IsFiniteSet(started')
  BY <1>3, <1>4, FS_Subset
<1> QED
  BY <1>5 DEF StartedFinite

-----------------------------------------------------------------------------
(* The addresses.                                                          *)

\* Only a put and a rotation change a map.
LEMMA MapSteps ==
  ASSUME TypeOK, Flow, InsideList, [Next]_vars
  PROVE  \/ \A m \in Requests : cache'[m].mapped = cache[m].mapped
         \/ \E r \in Requests : PutStep(r) \/ \E s \in Requests : VisitStep(r, s)
<1>1. CASE UNCHANGED vars
  BY <1>1 DEF vars
<1>2. ASSUME NEW r \in Requests,
             GetInstance(r) \/ GetFinds(r) \/ GetMisses(r) \/ AppendHit(r)
      PROVE  cache' = cache
  BY <1>2 DEF GetInstance, TestInstance, CreateInstance, ReturnInstance, GetFinds,
              GetMisses, AppendHit
<1>3. ASSUME NEW r \in Requests, AddToList(r)
      PROVE  \A m \in Requests : cache'[m].mapped = cache[m].mapped
  <2>1. AddStep(r)
    BY <1>3, AddSteps
  <2> QED
    BY <2>1 DEF AddStep, OthersKept, Mapped
<1>4. ASSUME NEW r \in Requests, RemoveAll(r)
      PROVE  \A m \in Requests : cache'[m].mapped = cache[m].mapped
  <2>1. RemoveStep(r)
    BY <1>4, RemoveSteps
  <2> QED
    BY <2>1 DEF RemoveStep, OthersKept, Mapped
<1>5. ASSUME NEW r \in Requests, Quiet(r)
      PROVE  \A m \in Requests : cache'[m].mapped = cache[m].mapped
  BY <1>5, QuietSteps DEF QuietStep, SameStreams
<1> QED
  BY <1>1, <1>2, <1>3, <1>4, <1>5, StepCases, PutSteps, VisitSteps

\* The entries of a map have an address, and keep it.
LEMMA EntryAddress ==
  ASSUME TypeOK, Flow, InsideList, Owned, [Next]_vars,
         NEW m \in Requests, NEW s \in Range(cache[m].mapped)
  PROVE  s \in Requests /\ ip[s] # None /\ ip'[s] = ip[s]
<1>1. s \in Requests /\ pc[s] \in AfterPut
  BY Members DEF Owned
<1>2. ip[s] # None
  BY <1>1 DEF Flow, AfterPut, AfterAdd
<1> QED
  BY <1>1, <1>2, Monotone

\* What a race leaves of a map keeps one entry per address.
LEMMA TornDistinct ==
  ASSUME TypeOK, NEW r \in Requests, NEW e \in Seq(Requests), OnePerAddress(e),
         NEW before \in {e, Entered(e, r)}, NEW p, Torn(r, before, p)
  PROVE  OnePerAddress(p)
<1>1. PICK keep : before \in Seq(Requests) /\ p = Filter(before, keep)
  BY DEF Torn
<1>2. OnePerAddress(before)
  BY EnteredProperties
<1> QED
  BY <1>1, <1>2, FilterOnePerAddress

LEMMA DistinctStep ==
  ASSUME TypeOK, Flow, InsideList, Owned, Distinct, [Next]_vars
  PROVE  Distinct'
<1> SUFFICES ASSUME NEW m \in Requests
             PROVE  OnePerAddress(cache[m].mapped)'
  BY DEF Distinct
<1>1. PICK e : e = cache[m].mapped
  OBVIOUS
<1>2. PICK p : p = cache'[m].mapped
  OBVIOUS
<1>3. OnePerAddress(e) /\ e \in Seq(Requests)
  BY <1>1 DEF Distinct, TypeOK, Cache
<1>4. CASE p = e
  <2>1. \A i \in DOMAIN e : ip'[e[i]] = ip[e[i]]
    BY <1>1, EntryAddress DEF Range
  <2> QED
    BY <1>2, <1>3, <1>4, <2>1 DEF OnePerAddress
<1>5. ASSUME ip' = ip, OnePerAddress(p) PROVE OnePerAddress(cache[m].mapped)'
  BY <1>2, <1>5 DEF OnePerAddress
<1>6. ASSUME NEW r \in Requests, PutStep(r), m = mgr[r] PROVE OnePerAddress(p)
  <2>1. CASE ~cache[m].mapTorn /\ p = Put(e, r)
    <3>1. Len(e) <= MAX_CLICKSTREAMS
      BY <1>1, <2>1 DEF TypeOK
    <3> QED
      BY <1>3, <2>1, <3>1, PutProperties
  <2>2. ASSUME NEW before \in {e, Entered(e, r)}, Torn(r, before, p) PROVE OnePerAddress(p)
    BY <1>3, <2>2, TornDistinct
  <2> QED
    BY <1>1, <1>2, <1>6, <2>1, <2>2 DEF PutStep, Mapped
<1>7. ASSUME NEW r \in Requests, NEW s \in Requests, VisitStep(r, s), m = mgr[r], p # e
      PROVE  OnePerAddress(p)
  <2>1. CASE p = Without(e, s)
    BY <1>3, <2>1, WithoutProperties
  <2>2. CASE Torn(r, e, p)
    BY <1>3, <2>2, TornDistinct
  <2> QED
    BY <1>1, <1>2, <1>7, <2>1, <2>2 DEF VisitStep, Mapped
<1>8. ASSUME NEW r \in Requests, PutStep(r) PROVE OnePerAddress(cache[m].mapped)'
  BY <1>1, <1>2, <1>4, <1>5, <1>6, <1>8 DEF PutStep, OthersKept, threads
<1>9. ASSUME NEW r \in Requests, NEW s \in Requests, VisitStep(r, s)
      PROVE  OnePerAddress(cache[m].mapped)'
  BY <1>1, <1>2, <1>4, <1>5, <1>7, <1>9 DEF VisitStep, OthersKept, threads
<1> QED
  BY <1>1, <1>2, <1>4, <1>8, <1>9, MapSteps

\* Finitely many requests have finitely many addresses.
LEMMA AddressesFinite ==
  ASSUME NEW a, NEW S, IsFiniteSet(S), \A q : q \in S <=> q \in DOMAIN a /\ a[q] # None
  PROVE  IsFiniteSet(Range(a) \ {None})
<1> DEFINE f == [q \in S |-> a[q]]
<1>1. f \in Surjection(S, Range(a) \ {None})
  <2>1. \A q \in S : a[q] \in Range(a) \ {None}
    BY DEF Range
  <2>2. \A x \in Range(a) \ {None} : \E q \in S : a[q] = x
    BY DEF Range
  <2> QED
    BY <2>1, <2>2 DEF Surjection
<1> QED
  BY <1>1, FS_Surjection

\* An address that fits now has fitted before.
LEMMA FitBefore ==
  ASSUME TypeOK, Flow, InsideList, [Next]_vars, TypeOK', Flow', StartedFinite',
         AddressesFit'
  PROVE  AddressesFit
<1>1. DOMAIN ip = Requests /\ DOMAIN ip' = Requests
  BY DEF TypeOK
<1>2. PICK A : A = Range(ip) \ {None}
  OBVIOUS
<1>3. PICK B : B = Range(ip') \ {None}
  OBVIOUS
<1>4. A \subseteq B
  <2>1. \A q \in Requests : ip[q] # None => ip'[q] = ip[q]
    BY Monotone
  <2> QED
    BY <1>1, <1>2, <1>3, <2>1 DEF Range
<1>5. IsFiniteSet(B)
  <2>1. PICK S : S = {q \in Requests : pc'[q] # "idle"}
    OBVIOUS
  <2>2. IsFiniteSet(S)
    BY <2>1 DEF StartedFinite
  <2>3. \A q : q \in S <=> q \in DOMAIN ip' /\ ip'[q] # None
    BY <1>1, <2>1 DEF Flow
  <2> QED
    BY <1>3, <2>2, <2>3, AddressesFinite
<1>6. IsFiniteSet(A) /\ Cardinality(A) <= Cardinality(B)
  BY <1>4, <1>5, FS_Subset
<1>7. Cardinality(A) \in Nat /\ Cardinality(B) \in Nat /\ MAX_CLICKSTREAMS \in Nat
  BY <1>5, <1>6, FS_CardinalityType, RequestAssumption
<1>8. Cardinality(B) <= MAX_CLICKSTREAMS
  BY <1>3 DEF AddressesFit, Range
<1>9. Cardinality(A) <= MAX_CLICKSTREAMS
  BY <1>6, <1>7, <1>8
<1> QED
  BY <1>2, <1>9 DEF AddressesFit

\* As long as the addresses fit, the map has room for an address it does not have.
LEMMA FitsNew ==
  ASSUME TypeOK, Flow, Owned, Distinct, StartedFinite, AddressesFit,
         NEW m \in Requests, NEW r \in Requests, ip[r] # None
  PROVE  HasRoom(cache[m].mapped, r)
<1> SUFFICES ASSUME \A x \in Range(cache[m].mapped) : ip[x] # ip[r]
             PROVE  Len(cache[m].mapped) < MAX_CLICKSTREAMS
  BY DEF HasRoom
<1>1. PICK e : e = cache[m].mapped
  OBVIOUS
<1>2. PICK n \in Nat : n = Len(e) /\ DOMAIN e = 1..n
  BY <1>1 DEF TypeOK, Cache
<1>3. PICK A : A = Range(ip) \ {None}
  OBVIOUS
<1>4. DOMAIN ip = Requests
  BY DEF TypeOK
<1>5. IsFiniteSet(A)
  <2>1. PICK S : S = {q \in Requests : pc[q] # "idle"}
    OBVIOUS
  <2>2. IsFiniteSet(S)
    BY <2>1 DEF StartedFinite
  <2>3. \A q : q \in S <=> q \in DOMAIN ip /\ ip[q] # None
    BY <1>4, <2>1 DEF Flow
  <2> QED
    BY <1>3, <2>2, <2>3, AddressesFinite
<1>6. \A i \in 1..n : e[i] \in Range(cache[m].mapped)
  BY <1>1, <1>2 DEF Range
<1>7. \A i \in 1..n : ip[e[i]] \in A /\ ip[e[i]] # ip[r]
  <2> SUFFICES ASSUME NEW i \in 1..n
               PROVE  ip[e[i]] \in A /\ ip[e[i]] # ip[r]
    OBVIOUS
  <2>1. e[i] \in Requests /\ pc[e[i]] \in AfterPut
    BY <1>6, Members DEF Owned
  <2>2. ip[e[i]] # None
    BY <2>1 DEF Flow, AfterPut, AfterAdd
  <2> QED
    BY <1>3, <1>4, <1>6, <2>1, <2>2 DEF Range
<1>8. \A i, j \in 1..n : ip[e[i]] = ip[e[j]] => i = j
  BY <1>1, <1>2 DEF Distinct, OnePerAddress
<1> DEFINE f == [i \in 1..(n + 1) |-> IF i = n + 1 THEN ip[r] ELSE ip[e[i]]]
<1>9. f \in Injection(1..(n + 1), A)
  <2>1. \A i \in 1..(n + 1) : i = n + 1 \/ i \in 1..n
    OBVIOUS
  <2>2. ip[r] \in A
    BY <1>3, <1>4 DEF Range
  <2>3. f \in [1..(n + 1) -> A]
    BY <1>7, <2>1, <2>2
  <2>4. \A i, j \in 1..(n + 1) : f[i] = f[j] => i = j
    BY <1>7, <1>8, <2>1
  <2> QED
    BY <2>3, <2>4 DEF Injection, IsInjective
<1>10. IsFiniteSet(1..(n + 1)) /\ Cardinality(1..(n + 1)) = n + 1
  BY FS_Interval
<1>11. Cardinality(1..(n + 1)) <= Cardinality(A)
  BY <1>5, <1>9, FS_Injection
<1>12. Cardinality(A) <= MAX_CLICKSTREAMS /\ Cardinality(A) \in Nat /\ MAX_CLICKSTREAMS \in Nat
  BY <1>3, <1>5, FS_CardinalityType, RequestAssumption DEF AddressesFit
<1> QED
  BY <1>1, <1>2, <1>10, <1>11, <1>12

-----------------------------------------------------------------------------
(* Streams of one address.                                                 *)

AgedKept == \A a \in Addresses : Aged(a) => Aged(a)'

\* A stream that is in the map from now on has just been put.
LEMMA NewEntry ==
  ASSUME TypeOK, Flow, InsideList, FoundWasPut, [Next]_vars,
         NEW t \in Requests, pc[t] \notin AfterPut, pc'[t] \in AfterPut, cs'[t] = t
  PROVE  PutStep(t)
<1> USE DEF threads, history, AfterPut, AfterAdd
<1>1. pc \in [Requests -> Points]
  BY DEF TypeOK
<1>2. CASE UNCHANGED vars
  BY <1>2 DEF vars
<1>3. ASSUME NEW r \in Requests, GetInstance(r) PROVE FALSE
  BY <1>1, <1>3 DEF GetInstance, TestInstance, CreateInstance, ReturnInstance, GoTo
<1>4. ASSUME NEW r \in Requests, GetFinds(r) \/ GetMisses(r) PROVE FALSE
  BY <1>1, <1>4 DEF GetFinds, GetMisses, GoTo
<1>5. ASSUME NEW r \in Requests, AppendHit(r) PROVE FALSE
  <2>1. AppendStep(r)
    BY <1>5, AppendSteps
  <2> QED
    BY <1>1, <2>1 DEF AppendStep, FoundWasPut
<1>6. ASSUME NEW r \in Requests, PutStream(r) PROVE PutStep(t)
  <2>1. PutStep(r)
    BY <1>6, PutSteps
  <2>2. r = t
    BY <1>1, <2>1 DEF PutStep
  <2> QED
    BY <2>1, <2>2
<1>7. ASSUME NEW r \in Requests, AddToList(r) PROVE FALSE
  <2>1. AddStep(r)
    BY <1>7, AddSteps
  <2> QED
    BY <1>1, <2>1 DEF AddStep
<1>8. ASSUME NEW r \in Requests, Quiet(r) PROVE FALSE
  <2>1. QuietStep(r)
    BY <1>8, QuietSteps
  <2> QED
    BY <1>1, <2>1 DEF QuietStep, Moves
<1>9. ASSUME NEW r \in Requests, Visit(r) \/ RemoveAll(r) PROVE FALSE
  BY <1>1, <1>9 DEF Visit, RemoveAll, GoTo, At
<1> QED
  BY <1>2, <1>3, <1>4, <1>5, <1>6, <1>7, <1>8, <1>9, StepCases

LEMMA AgedStays ==
  ASSUME TypeOK, Flow, InsideList, [Next]_vars
  PROVE  AgedKept
<1>1. /\ \A q \in Requests : ip[q] # None => ip'[q] = ip[q]
      /\ old \subseteq old' /\ raced \subseteq raced'
  BY Monotone
<1>2. old \cup raced \subseteq Requests /\ None \notin Addresses
  BY RequestAssumption DEF TypeOK
<1> QED
  BY <1>1, <1>2 DEF AgedKept, Aged

\* While there is room, a put evicts no address.
LEMMA PutKeeps ==
  ASSUME TypeOK, NEW l \in Seq(Requests), NEW s \in Requests,
         Len(l) <= MAX_CLICKSTREAMS, HasRoom(l, s),
         NEW p, p = Put(l, s)
  PROVE  AddressesKept(l, s, p)
BY PutProperties

\* A put, also one in a race, keeps the addresses that have not aged.
LEMMA PutKeepsYoung ==
  ASSUME TypeOK, Flow, Owned, Distinct, StartedFinite, AddressesFit,
         NEW r \in Requests, PutStep(r),
         NEW x \in Range(Mapped(r)) \cup {r}, ~Aged(ip[x])'
  PROVE  \E y \in Range(cache'[mgr[r]].mapped) : ip'[y] = ip[x]
<1>1. pc[r] = "put" /\ ip' = ip
  BY DEF PutStep, threads
<1>2. mgr[r] \in Requests /\ ip[r] # None
  BY <1>1, HasManager DEF Early, Flow
<1>3. PICK l : l = Mapped(r)
  OBVIOUS
<1>4. PICK p : p = cache'[mgr[r]].mapped
  OBVIOUS
<1>5. l \in Seq(Requests)
  BY <1>2, <1>3 DEF TypeOK, Cache, Mapped
<1>6. CASE ~cache[mgr[r]].mapTorn /\ p = Put(l, r)
  <2>1. Len(l) <= MAX_CLICKSTREAMS
    BY <1>2, <1>3, <1>6 DEF TypeOK, Mapped
  <2>2. HasRoom(l, r)
    BY <1>2, <1>3, FitsNew DEF Mapped
  <2>3. AddressesKept(l, r, p)
    BY <1>5, <1>6, <2>1, <2>2, PutKeeps
  <2> QED
    BY <1>1, <1>3, <1>4, <2>3 DEF AddressesKept
<1>7. CASE raced' = raced \cup (Range(Entered(l, r)) \ Range(p))
  <2>1. PICK g : g = Entered(l, r)
    OBVIOUS
  <2>2. AddressesKept(l, r, g) /\ g \in Seq(Requests)
    BY <1>5, <2>1, EnteredProperties
  <2>3. PICK y \in Range(g) : ip[y] = ip[x]
    BY <1>3, <2>2 DEF AddressesKept
  <2>4. y \notin raced'
    BY <1>1, <2>3 DEF Aged
  <2>5. y \in Range(p)
    BY <1>7, <2>1, <2>3, <2>4
  <2> QED
    BY <1>1, <1>4, <2>3, <2>5
<1> QED
  BY <1>3, <1>4, <1>6, <1>7 DEF PutStep

\* A rotation, also one in a race, takes only addresses that have aged.
LEMMA VisitKeepsYoung ==
  ASSUME TypeOK, Flow, NEW r \in Requests, NEW s \in Requests, VisitStep(r, s),
         NEW x \in Range(Mapped(r)), ~Aged(ip[x])'
  PROVE  x \in Range(cache'[mgr[r]].mapped)
<1>1. pc[r] = "visit" /\ ip' = ip
  BY DEF VisitStep, threads
<1>2. mgr[r] \in Requests
  BY <1>1, HasManager DEF Early
<1>3. PICK l : l = Mapped(r)
  OBVIOUS
<1>4. PICK p : p = cache'[mgr[r]].mapped
  OBVIOUS
<1>5. l \in Seq(Requests)
  BY <1>2, <1>3 DEF TypeOK, Cache, Mapped
<1>6. CASE s \in old' /\ p = Without(l, s)
  <2>1. Range(p) = {e \in Range(l) : ip[e] # ip[s]}
    BY <1>5, <1>6, WithoutProperties
  <2>2. ip[s] # ip[x]
    BY <1>1, <1>6 DEF Aged
  <2> QED
    BY <1>3, <1>4, <2>1, <2>2
<1>7. CASE p = l
  BY <1>3, <1>4, <1>7
<1>8. CASE raced' = raced \cup {s} \cup (Range(l) \ Range(p))
  <2>1. x \notin raced'
    BY <1>1 DEF Aged
  <2> QED
    BY <1>3, <1>4, <1>8, <2>1
<1> QED
  BY <1>3, <1>4, <1>6, <1>7, <1>8 DEF VisitStep

LEMMA PutIsFoundStep ==
  ASSUME TypeOK, Flow, InsideList, FoundWasPut, Owned, Distinct, StartedFinite,
         PutIsFound, [Next]_vars, TypeOK', Flow', StartedFinite'
  PROVE  PutIsFound'
<1> SUFFICES ASSUME AddressesFit', NEW t \in Requests,
                    cs'[t] = t, pc'[t] \in AfterPut, ~Aged(ip[t])'
             PROVE  \E e \in Range(cache'[mgr'[t]].mapped) : ip'[e] = ip'[t]
  BY DEF PutIsFound, Mapped
<1>1. AddressesFit
  BY FitBefore
<1>2. /\ \A q \in Requests :
           /\ ip[q] # None => ip'[q] = ip[q]
           /\ mgr[q] # None => mgr'[q] = mgr[q]
           /\ cs[q] # None => cs'[q] = cs[q]
      /\ AgedKept
  BY Monotone, AgedStays
<1>3. \A a : Aged(a)' <=> \E u \in old' \cup raced' : ip'[u] = a
  BY DEF Aged
\* A stream that was there before.
<1>4. CASE pc[t] \in AfterPut
  <2>1. mgr[t] \in Requests /\ ip[t] # None /\ cs[t] # None
    BY <1>4, HasManager DEF Early, Flow, AfterPut, AfterAdd
  <2>2. /\ cs[t] = t
        /\ mgr'[t] = mgr[t] /\ ip'[t] = ip[t]
    BY <1>2, <2>1, RequestAssumption
  <2>3. ip[t] \in Addresses /\ ~(\E u \in old' \cup raced' : ip'[u] = ip[t])
    BY <1>3, <2>1, <2>2 DEF TypeOK, Aged
  <2>4. ~Aged(ip[t])
    BY <1>2, <1>3, <2>3 DEF AgedKept
  <2>5. PICK m \in Requests : m = mgr[t]
    BY <2>1
  <2>6. PICK e \in Range(cache[m].mapped) : ip[e] = ip[t]
    BY <1>1, <1>4, <2>2, <2>4, <2>5 DEF PutIsFound, Mapped
  <2>7. e \in Requests /\ ip'[e] = ip[e]
    BY EntryAddress
  <2>8. ~Aged(ip[e])'
    BY <2>3, <2>6, <2>7 DEF Aged
  <2>9. CASE cache'[m].mapped = cache[m].mapped
    BY <2>2, <2>5, <2>6, <2>7, <2>9
  <2>10. ASSUME NEW r \in Requests, PutStep(r), m = mgr[r]
         PROVE  \E y \in Range(cache'[m].mapped) : ip'[y] = ip[t]
    <3>1. e \in Range(Mapped(r)) \cup {r}
      BY <2>10 DEF Mapped
    <3>2. \E y \in Range(cache'[mgr[r]].mapped) : ip'[y] = ip[e]
      BY <1>1, <2>8, <2>10, <3>1, PutKeepsYoung
    <3> QED
      BY <2>6, <2>10, <3>2
  <2>11. ASSUME NEW r \in Requests, NEW s \in Requests, VisitStep(r, s), m = mgr[r]
         PROVE  e \in Range(cache'[m].mapped)
    <3>1. e \in Range(Mapped(r))
      BY <2>11 DEF Mapped
    <3>2. e \in Range(cache'[mgr[r]].mapped)
      BY <2>8, <2>11, <3>1, VisitKeepsYoung
    <3> QED
      BY <2>11, <3>2
  <2>12. ASSUME NEW r \in Requests, PutStep(r)
         PROVE  \E y \in Range(cache'[m].mapped) : ip'[y] = ip[t]
    BY <2>2, <2>5, <2>9, <2>10, <2>12 DEF PutStep, OthersKept
  <2>13. ASSUME NEW r \in Requests, NEW s \in Requests, VisitStep(r, s)
         PROVE  \E y \in Range(cache'[m].mapped) : ip'[y] = ip[t]
    BY <2>2, <2>5, <2>6, <2>7, <2>9, <2>11, <2>13 DEF VisitStep, OthersKept
  <2> QED
    BY <2>2, <2>5, <2>9, <2>12, <2>13, MapSteps
\* The stream that is put.
<1>5. CASE pc[t] \notin AfterPut
  <2>1. PutStep(t)
    BY <1>5, NewEntry
  <2>2. ip' = ip /\ mgr' = mgr
    BY <2>1 DEF PutStep, threads
  <2>3. t \in Range(Mapped(t)) \cup {t}
    OBVIOUS
  <2>4. \E y \in Range(cache'[mgr[t]].mapped) : ip'[y] = ip[t]
    BY <1>1, <2>1, <2>3, PutKeepsYoung
  <2> QED
    BY <2>2, <2>4
<1> QED
  BY <1>4, <1>5

\* Only a get that misses gives a request a stream of its own, and only then it
\* is noted which requests it could not see.
LEMMA NewStream ==
  ASSUME TypeOK, Flow, InsideList, Owned, [Next]_vars
  PROVE  \A s \in Requests : /\ cs'[s] = s /\ cs[s] # s => GetMisses(s)
                             /\ cs[s] # None => unseen'[s] = unseen[s]
<1> DEFINE Goal == \A s \in Requests : /\ cs'[s] = s /\ cs[s] # s => GetMisses(s)
                                       /\ cs[s] # None => unseen'[s] = unseen[s]
<1> USE DEF threads, history
<1>1. /\ cs \in [Requests -> Requests \cup {None}] /\ unseen \in [Requests -> SUBSET Requests]
  BY DEF TypeOK
<1>2. ASSUME cs' = cs, unseen' = unseen PROVE Goal
  BY <1>2
<1>3. CASE UNCHANGED vars
  BY <1>2, <1>3 DEF vars
<1>4. ASSUME NEW r \in Requests, GetInstance(r) PROVE Goal
  BY <1>2, <1>4 DEF GetInstance, TestInstance, CreateInstance, ReturnInstance
<1>5. ASSUME NEW r \in Requests, GetFinds(r) PROVE Goal
  BY <1>1, <1>5, GetStep
<1>6. ASSUME NEW r \in Requests, GetMisses(r) PROVE Goal
  BY <1>1, <1>6 DEF GetMisses, At, Flow
<1>7. ASSUME NEW r \in Requests, AppendHit(r) \/ PutStream(r) \/ AddToList(r) PROVE Goal
  BY <1>2, <1>7 DEF AppendHit, PutStream, AddToList
<1>8. ASSUME NEW r \in Requests, Quiet(r) PROVE Goal
  <2>1. QuietStep(r)
    BY <1>8, QuietSteps
  <2> QED
    BY <1>2, <2>1 DEF QuietStep
<1>9. ASSUME NEW r \in Requests, Visit(r) \/ RemoveAll(r) PROVE Goal
  BY <1>2, <1>9 DEF Visit, RemoveAll
<1> QED
  BY <1>3, <1>4, <1>5, <1>6, <1>7, <1>8, <1>9, StepCases

\* A request that makes a stream beside another of its address overlapped with it.
LEMMA SplitOverlaps ==
  ASSUME TypeOK, Flow, FoundWasPut, Owned, PutIsFound, AddressesFit,
         NEW s \in Requests, NEW t \in Requests, s # t,
         GetMisses(s), cs'[t] = t, mgr[s] = mgr[t], ip[s] = ip[t]
  PROVE  t \in unseen'[s] \/ Aged(ip[t])'
<1>1. pc[s] = "get" /\ mgr[s] \in Requests
  BY HasManager DEF GetMisses, At, Early
<1>2. cs[t] = t
  BY DEF GetMisses, TypeOK
<1>3. pc[t] \in {"put"} \cup AfterPut
  BY <1>2, RequestAssumption DEF TypeOK, Points, Flow, Early, FoundWasPut, AfterPut, AfterAdd
<1>4. CASE pc[t] = "put"
  <2>1. t \in {q \in Rivals(s, {"put"}) : ip[q] = ip[s]}
    BY <1>4 DEF Rivals
  <2>2. unseen'[s] = {q \in Rivals(s, {"put"}) : ip[q] = ip[s]}
    BY DEF GetMisses, TypeOK
  <2> QED
    BY <2>1, <2>2
<1>5. CASE pc[t] \in AfterPut
  <2>1. ip' = ip /\ old' = old
    BY DEF GetMisses
  <2>2. CASE Aged(ip[t])
    BY <2>1, <2>2 DEF Aged, GetMisses
  <2>3. CASE ~Aged(ip[t])
    <3>1. \E e \in Range(Mapped(t)) : ip[e] = ip[t]
      BY <1>2, <1>5, <2>3 DEF PutIsFound
    <3>2. Found(s) # {}
      BY <3>1 DEF Found, Mapped
    <3>3. s \in raced'
      BY <3>2 DEF GetMisses
    <3> QED
      BY <2>1, <3>3 DEF Aged
  <2> QED
    BY <2>2, <2>3
<1> QED
  BY <1>3, <1>4, <1>5

LEMMA SplitStep ==
  ASSUME TypeOK, Flow, InsideList, FoundWasPut, Owned, StartedFinite, PutIsFound,
         SplitByOverlap, [Next]_vars, TypeOK', Flow', StartedFinite'
  PROVE  SplitByOverlap'
<1> SUFFICES ASSUME AddressesFit', NEW s \in Requests, NEW t \in Requests, s # t,
                    cs'[s] = s, cs'[t] = t, mgr'[s] = mgr'[t], ip'[s] = ip'[t]
             PROVE  \/ s \in unseen'[t] \/ t \in unseen'[s]
                    \/ Aged(ip[s])'
  BY DEF SplitByOverlap
<1>1. AddressesFit
  BY FitBefore
<1>2. /\ \A q \in Requests : /\ ip[q] # None => ip'[q] = ip[q]
                             /\ mgr[q] # None => mgr'[q] = mgr[q]
      /\ AgedKept
  BY Monotone, AgedStays
<1>3. \A q \in Requests : /\ cs'[q] = q /\ cs[q] # q => GetMisses(q)
                          /\ cs[q] # None => unseen'[q] = unseen[q]
  BY NewStream
<1>4. None \notin Requests /\ ip \in [Requests -> Addresses \cup {None}]
  BY RequestAssumption DEF TypeOK
<1>5. \A q \in Requests : pc[q] # "idle" => ip[q] \in Addresses
  BY <1>4 DEF Flow
<1>6. CASE cs[s] = s /\ cs[t] = t
  <2>1. /\ ip[s] # None /\ ip[t] # None /\ mgr[s] # None /\ mgr[t] # None
        /\ pc[s] # "idle"
    BY <1>4, <1>6 DEF Flow, Early
  <2>2. /\ ip'[s] = ip[s] /\ ip[s] = ip[t] /\ mgr[s] = mgr[t]
        /\ unseen'[s] = unseen[s] /\ unseen'[t] = unseen[t]
    BY <1>2, <1>3, <1>4, <1>6, <2>1
  <2>3. \/ s \in unseen[t] \/ t \in unseen[s] \/ Aged(ip[s])
    BY <1>1, <1>6, <2>2 DEF SplitByOverlap
  <2>4. Aged(ip[s]) => Aged(ip[s])'
    BY <1>2, <1>5, <2>1, <2>2 DEF AgedKept, Aged
  <2> QED
    BY <1>2, <2>2, <2>3, <2>4
<1>7. ASSUME GetMisses(s) \/ GetMisses(t)
      PROVE  ip' = ip /\ mgr' = mgr
  BY <1>7 DEF GetMisses
<1>8. CASE GetMisses(s)
  BY <1>1, <1>7, <1>8, SplitOverlaps
<1>9. CASE GetMisses(t)
  BY <1>1, <1>7, <1>9, SplitOverlaps
<1> QED
  BY <1>3, <1>6, <1>8, <1>9

-----------------------------------------------------------------------------
(* The theorems.                                                           *)

LEMMA InitInvariant == Init => IInv
<1> SUFFICES ASSUME Init PROVE IInv
  OBVIOUS
<1>1. TypeOK /\ Flow /\ InsideList
  BY InitTyped
<1>2. /\ pc = [r \in Requests |-> "idle"] /\ cs = [r \in Requests |-> None]
      /\ mgr = [r \in Requests |-> None] /\ instance = None
      /\ \A m \in Requests : cache[m].mapped = <<>> /\ cache[m].listed = <<>>
      /\ \A r \in Requests : iter[r].toRemove = {} /\ hits[r] = {}
      /\ None \notin Requests
  BY RequestAssumption DEF Init, NewIter
<1>3. \A m \in Requests : Range(cache[m].mapped) = {} /\ Range(cache[m].listed) = {}
  BY <1>2 DEF Range
<1>4. FoundWasPut /\ Owned /\ Removed /\ EntriesAreSaved
  BY <1>2, <1>3 DEF FoundWasPut, Owned, Removed, EntriesAreSaved
<1>5. HitsAreSafe
  BY <1>2 DEF HitsAreSafe, AfterPut, AfterAdd
<1>6. Distinct
  BY <1>2 DEF Distinct, OnePerAddress
<1>7. PutIsFound /\ SplitByOverlap
  BY <1>2 DEF PutIsFound, SplitByOverlap
<1>8. StartedFinite
  <2>1. {q \in Requests : pc[q] # "idle"} = {}
    BY <1>2
  <2> QED
    BY <2>1, FS_EmptySet DEF StartedFinite
<1> QED
  BY <1>1, <1>4, <1>5, <1>6, <1>7, <1>8 DEF IInv

LEMMA NextInvariant == IInv /\ [Next]_vars => IInv'
<1> SUFFICES ASSUME IInv, [Next]_vars PROVE IInv'
  OBVIOUS
<1>1. /\ TypeOK /\ Flow /\ InsideList /\ Collections /\ HitsAreSafe /\ Distinct
      /\ PutIsFound /\ SplitByOverlap /\ StartedFinite
      /\ FoundWasPut /\ Owned
  BY DEF IInv, Collections
<1>2. TypeOK' /\ Flow' /\ InsideList'
  BY <1>1, TypeStep, FlowStep, InsideListStep
<1>3. Collections' /\ HitsAreSafe'
  BY <1>1, CollectionsStep, HitsStep
<1>4. Distinct' /\ StartedFinite'
  BY <1>1, DistinctStep, StartedStep
<1>5. PutIsFound'
  BY <1>1, <1>2, <1>4, PutIsFoundStep
<1>6. SplitByOverlap'
  BY <1>1, <1>2, <1>4, SplitStep
<1> QED
  BY <1>2, <1>3, <1>4, <1>5, <1>6 DEF IInv, Collections

LEMMA Invariant == Spec => []IInv
BY InitInvariant, NextInvariant, PTL DEF Spec

\* Every variable has its type, and a map holds no more streams than its capacity
\* until a data race tears it: put() evicts (ClickStreamManager, the LinkedHashMap).
THEOREM TypeCorrect == Spec => []TypeOK
<1>1. IInv => TypeOK
  BY DEF IInv
<1> QED
  BY <1>1, Invariant, PTL

\* A stream that addPageHit() may still find in the map is in the list that flush()
\* saves, or its request is about to add it, whatever rotations run and whichever
\* calls on the map overlap, unless a race lost that stream or undid its removal.
THEOREM OfferedIsSaved == Spec => []EntriesAreSaved
<1>1. IInv => EntriesAreSaved
  BY DEF IInv
<1> QED
  BY <1>1, Invariant, PTL

\* A visitor's hits are split over two streams of one log only when two requests
\* overlap between the get and the put of addPageHit(), a stream of the address has
\* aged or met a data race, or the map is too small.
THEOREM SplitsAreOverlaps == Spec => []SplitOnlyByOverlap
<1>1. IInv => SplitOnlyByOverlap
  <2> SUFFICES ASSUME IInv, AddressesFit, NEW m \in Requests,
                      NEW s \in Range(cache[m].listed), NEW t \in Range(cache[m].listed),
                      s # t, ip[s] = ip[t]
               PROVE  \/ s \in unseen[t] \/ t \in unseen[s]
                      \/ \E u \in old \cup raced : ip[u] = ip[s]
    BY DEF SplitOnlyByOverlap, AddressesFit
  <2>1. s \in Requests /\ t \in Requests
    BY Members DEF IInv
  <2>2. mgr[s] = m /\ mgr[t] = m /\ cs[s] = s /\ cs[t] = t
    BY DEF IInv, Owned
  <2> QED
    BY <2>1, <2>2 DEF IInv, SplitByOverlap, Aged
<1> QED
  BY <1>1, Invariant, PTL

\* The hit of a request that has ended, also of one that an exception of flush() or
\* logRotate() ended, is in a stream of the list of the manager in use, if that is
\* the request's, unless the stream has aged or a data race lost it or the hit.
THEOREM HitsOutliveRequests == Spec => []EndedHitsKept
<1>1. IInv => EndedHitsKept
  <2> SUFFICES ASSUME IInv, NEW r \in Requests, pc[r] \in {"done", "failed"},
                      mgr[r] = instance, r \notin raced
               PROVE  \E s \in Requests :
                        /\ r \in hits[s]
                        /\ s \in old \cup raced \/ At(s, "add")
                           \/ s \in Range(cache[instance].listed)
    BY DEF EndedHitsKept
  <2>1. r \in hits[cs[r]] /\ Safe(cs[r])
    BY DEF IInv, HitsAreSafe, AfterPut, AfterAdd
  <2>2. cs[r] \in Requests
    BY DEF IInv, Flow, TypeOK, Early
  <2>3. mgr[cs[r]] = instance
    BY <2>2, RequestAssumption DEF IInv, FoundWasPut
  <2> QED
    BY <2>1, <2>2, <2>3 DEF Safe, Listed
<1> QED
  BY <1>1, Invariant, PTL

\* A stream leaves the list only when a rotation found it older than the session
\* time, or when two calls of add() and removeAll() overlap on that list.
THEOREM DroppedWasOld == Spec => OnlyOldDropped
<1> DEFINE Step == \A m \in Requests :
                     \A s \in Range(cache[m].listed) \ Range(cache'[m].listed) :
                       s \in old \/ \E r \in Requests : mgr[r] = m /\ Overlaps(r)
<1>1. IInv /\ [Next]_vars => [Step]_vars
  <2> SUFFICES ASSUME IInv, [Next]_vars, NEW m \in Requests,
                      NEW s \in Range(cache[m].listed) \ Range(cache'[m].listed)
               PROVE  s \in old \/ \E r \in Requests : mgr[r] = m /\ Overlaps(r)
    OBVIOUS
  <2>1. ListChange
    BY Changes DEF IInv
  <2>2. \/ \E r \in Requests : s \in iter[r].toRemove
        \/ \E r \in Requests : mgr[r] = m /\ Overlaps(r)
    BY <2>1 DEF ListChange
  <2> QED
    BY <2>2 DEF IInv, Removed
<1>2. Spec => [][Step]_vars
  BY <1>1, Invariant, PTL DEF Spec
<1> QED
  BY <1>2 DEF OnlyOldDropped
=============================================================================
