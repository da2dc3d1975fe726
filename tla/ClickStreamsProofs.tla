-------------------------- MODULE ClickStreamsProofs --------------------------
(***************************************************************************)
(* Theorems about ClickStreams, for any addresses, capacity and periods:   *)
(* the map and the list stay one cache, a visitor has one stream, and the  *)
(* flush and the rotation bring the hits to disk.                          *)
(***************************************************************************)
EXTENDS ClickStreams, FiniteSetTheorems, SequenceTheorems, WellFoundedInduction,
        TLAPS

-----------------------------------------------------------------------------
(* The inductive invariant, of any streams ss, manager m and disk d.       *)

SeenIps(ss) == {ss[i].ip : i \in DOMAIN ss}

Content(ss, m) == UNION {ss[i].hits : i \in m.listed}

Manager(ss) ==
  [mapped : SUBSET DOMAIN ss, listed : SUBSET DOMAIN ss,
   lastFlush : 0..MaxTime, lastLogRotate : 0..MaxTime]

\* The map is a part of the list with one entry per address, within its capacity.
OneCache(ss, m) ==
  /\ m.mapped \subseteq m.listed
  /\ \A i, j \in m.mapped : ss[i].ip = ss[j].ip => i = j
  /\ Cardinality(m.mapped) <= MAX_CLICKSTREAMS

\* As long as the addresses fit into the map nothing is evicted.
NothingEvicted(ss, m) ==
  Cardinality(SeenIps(ss)) <= MAX_CLICKSTREAMS => m.mapped = m.listed

\* The file in use holds nothing but hits of the streams that the next save will
\* write, and no later file is used yet.
FileIsOwn(ss, m, d) ==
  ~ReuseMinute =>
    /\ d[JsonFile(m)] \subseteq Content(ss, m)
    /\ \A f \in Files : f > JsonFile(m) => d[f] = {}

\* The manager was not flushed or rotated in the future.
InTime(m) == m.lastFlush <= now /\ m.lastLogRotate <= now

\* All of these.
Sound(ss, m, d) ==
  /\ ss \in Seq(Stream) /\ m \in Manager(ss) /\ d \in [Files -> SUBSET Hit]
  /\ InTime(m) /\ OneCache(ss, m) /\ NothingEvicted(ss, m) /\ FileIsOwn(ss, m, d)

\* After a save that succeeded the file in use has what was there at the last flush.
FlushedIsSaved ==
  lastSave = "ok" =>
    \A h \in Content(streams, manager) :
      hits[h] < manager.lastFlush => h \in disk[JsonFile(manager)]

HitsHaveArrived == \A i \in DOMAIN streams : streams[i].hits \subseteq 1..Len(hits)

IInv == /\ TypeOK /\ HitsHaveArrived /\ Sound(streams, manager, disk)
        /\ FlushedIsSaved

-----------------------------------------------------------------------------
(* Numbers.                                                                *)

LEMMA LeastNatural ==
  ASSUME NEW T \in SUBSET Nat, T # {}
  PROVE  \E n \in T : \A m \in T : n <= m
<1>1. PICK n \in T : \A m \in T : <<m, n>> \notin OpToRel(<, Nat)
  BY NatLessThanWellFounded, WFMin
<1>2. \A m \in T : ~(m < n)
  BY <1>1 DEF OpToRel
<1> QED
  BY <1>2

LEMMA MinIsMember ==
  ASSUME NEW T \in SUBSET Nat, T # {}
  PROVE  Min(T) \in T
BY LeastNatural DEF Min

\* Times in the same minute or later share a file or have a later one.
LEMMA LaterFile ==
  ASSUME NEW a \in Nat, NEW b \in Nat, a <= b
  PROVE  /\ a \div Minute \in Nat
         /\ a \div Minute <= b \div Minute
         /\ b - a >= Minute => a \div Minute < b \div Minute
<1> DEFINE k == Minute
           p == a \div Minute
           q == b \div Minute
<1>1. k \in Nat \ {0}
  BY ClickAssumption
<1>2. p \in Nat /\ p * k <= a /\ a < p * k + k
  BY <1>1
<1>3. q \in Nat /\ q * k <= b /\ b < q * k + k
  BY <1>1
<1> HIDE DEF k, p, q
<1>4. p <= q
  <2>1. SUFFICES ASSUME q + 1 <= p PROVE FALSE
    BY <1>2, <1>3
  <2>2. (q + 1) * k <= p * k
    BY <1>1, <1>2, <1>3, <2>1
  <2> QED
    BY <1>1, <1>2, <1>3, <2>2
<1>5. b - a >= k => p # q
  BY <1>1, <1>2, <1>3
<1> QED
  BY <1>2, <1>3, <1>4, <1>5 DEF k, p, q

-----------------------------------------------------------------------------
(* The parts of a request.                                                 *)

LEMMA FileInUse ==
  ASSUME NEW ss, NEW m \in Manager(ss)
  PROVE  JsonFile(m) \in Files
<1>1. m.lastLogRotate \in Nat /\ MaxTime \in Nat /\ m.lastLogRotate <= MaxTime
  BY ClickAssumption DEF Manager
<1>2. /\ m.lastLogRotate \div Minute \in Nat
      /\ MaxTime \div Minute \in Nat
      /\ m.lastLogRotate \div Minute <= MaxTime \div Minute
  BY <1>1, LaterFile
<1> QED
  BY <1>2 DEF JsonFile, Files

\* A save keeps the file in use the manager's own.
LEMMA SaveIsSound ==
  ASSUME NEW ss, NEW m, NEW d, NEW o \in Outcomes, Sound(ss, m, d)
  PROVE  /\ Sound(ss, m, Save(ss, m, d, o))
         /\ o = "ok" => Save(ss, m, d, o)[JsonFile(m)] = Content(ss, m)
         /\ \A f \in Files \ {JsonFile(m)} : Save(ss, m, d, o)[f] = d[f]
         /\ ~ReuseMinute /\ o # "truncated" =>
              \A f \in Files : d[f] \subseteq Save(ss, m, d, o)[f]
<1> DEFINE s == Save(ss, m, d, o)
           c == Content(ss, m)
<1>1. JsonFile(m) \in Files
  BY FileInUse DEF Sound
<1>2. c \subseteq Hit
  <2>1. \A i \in m.listed : ss[i] \in Stream
    BY DEF Sound, Manager
  <2> QED
    BY <2>1 DEF Content, Stream
<1>3. \/ o = "ok" /\ s = [d EXCEPT ![JsonFile(m)] = c]
      \/ o = "truncated" /\ s = [d EXCEPT ![JsonFile(m)] = {}]
      \/ o = "unopened" /\ s = d
  BY DEF Save, Outcomes, Content
<1> HIDE DEF s, c
<1>4. s \in [Files -> SUBSET Hit]
  BY <1>2, <1>3 DEF Sound
<1>5. /\ o = "ok" => s[JsonFile(m)] = c
      /\ s[JsonFile(m)] \in {c, {}, d[JsonFile(m)]}
      /\ \A f \in Files \ {JsonFile(m)} : s[f] = d[f]
  BY <1>1, <1>3 DEF Sound
<1>6. JsonFile(m) \in Nat
  BY <1>1, ClickAssumption DEF Files
<1>7. FileIsOwn(ss, m, s)
  <2> SUFFICES ASSUME ~ReuseMinute
               PROVE  /\ s[JsonFile(m)] \subseteq c
                      /\ \A f \in Files : f > JsonFile(m) => s[f] = {}
    BY DEF FileIsOwn, c
  <2>1. /\ d[JsonFile(m)] \subseteq c
        /\ \A f \in Files : f > JsonFile(m) => d[f] = {}
    BY DEF Sound, FileIsOwn, c
  <2> QED
    BY <1>5, <1>6, <2>1
<1>8. ~ReuseMinute /\ o # "truncated" => \A f \in Files : d[f] \subseteq s[f]
  BY <1>1, <1>3, <1>5 DEF Sound, FileIsOwn, c
<1> QED
  BY <1>4, <1>5, <1>7, <1>8 DEF Sound, s, c

\* flush() only sets lastFlush.
LEMMA FlushedIsSound ==
  ASSUME NEW ss, NEW m, NEW d, Sound(ss, m, d), now \in 0..MaxTime
  PROVE  /\ Sound(ss, Flushed(m), d)
         /\ Flushed(m).listed = m.listed /\ Flushed(m).lastFlush = now
         /\ Flushed(m).lastLogRotate = m.lastLogRotate
         /\ JsonFile(Flushed(m)) = JsonFile(m)
         /\ Content(ss, Flushed(m)) = Content(ss, m)
<1> DEFINE f == Flushed(m)
<1>1. /\ f.mapped = m.mapped /\ f.listed = m.listed
      /\ f.lastFlush = now /\ f.lastLogRotate = m.lastLogRotate
      /\ f \in Manager(ss)
  BY DEF Sound, Manager, Flushed
<1> HIDE DEF f
<1>2. JsonFile(f) = JsonFile(m) /\ Content(ss, f) = Content(ss, m)
  BY <1>1 DEF JsonFile, Content
<1>3. InTime(f) /\ OneCache(ss, f) /\ NothingEvicted(ss, f)
  BY <1>1 DEF Sound, InTime, OneCache, NothingEvicted
<1>4. FileIsOwn(ss, f, d)
  BY <1>2 DEF Sound, FileIsOwn
<1> QED
  BY <1>1, <1>2, <1>3, <1>4 DEF Sound, f

\* logRotate() drops old streams from both collections; if it starts a new file
\* the state stays sound.
LEMMA RotatedIsSound ==
  ASSUME NEW ss, NEW m, NEW d, Sound(ss, m, d), now \in 0..MaxTime,
         ReuseMinute \/ JsonFile(m) # now \div Minute
  PROVE  /\ Sound(ss, Rotated(ss, m), d)
         /\ Rotated(ss, m).listed \subseteq m.listed
         /\ JsonFile(Rotated(ss, m)) = now \div Minute
<1> DEFINE r == Rotated(ss, m)
           old == Old(ss, m)
           ips == {ss[i].ip : i \in old}
<1>1. /\ r.lastLogRotate = now /\ r.lastFlush = m.lastFlush
      /\ r.mapped = {i \in m.mapped : ss[i].ip \notin ips}
      /\ r.listed = m.listed \ old
      /\ r \in Manager(ss)
  BY DEF Sound, Manager, Rotated
<1>2. JsonFile(r) = now \div Minute
  BY <1>1 DEF JsonFile
<1>3. old \subseteq m.listed
  BY DEF Old
<1> HIDE DEF r, old
<1>4. r.mapped \subseteq m.mapped /\ r.listed \subseteq m.listed
  BY <1>1
<1>5. InTime(r)
  <2>1. now \in Nat
    BY ClickAssumption
  <2> QED
    BY <1>1, <2>1 DEF Sound, InTime
<1>6. OneCache(ss, r)
  <2>1. r.mapped \subseteq r.listed
    BY <1>1, <1>3 DEF Sound, OneCache
  <2>2. \A i, j \in r.mapped : ss[i].ip = ss[j].ip => i = j
    BY <1>4 DEF Sound, OneCache
  <2>3. Cardinality(r.mapped) <= MAX_CLICKSTREAMS
    <3>1. IsFiniteSet(m.mapped)
      <4>1. IsFiniteSet(1..Len(ss))
        BY FS_Interval DEF Sound
      <4>2. m.mapped \subseteq 1..Len(ss)
        BY DEF Sound, Manager
      <4> QED
        BY <4>1, <4>2, FS_Subset
    <3>2. IsFiniteSet(r.mapped) /\ Cardinality(r.mapped) <= Cardinality(m.mapped)
      BY <1>4, <3>1, FS_Subset
    <3>3. /\ Cardinality(r.mapped) \in Nat /\ Cardinality(m.mapped) \in Nat
          /\ MAX_CLICKSTREAMS \in Nat
      BY <3>1, <3>2, FS_CardinalityType, ClickAssumption
    <3>4. Cardinality(m.mapped) <= MAX_CLICKSTREAMS
      BY DEF Sound, OneCache
    <3> QED
      BY <3>2, <3>3, <3>4
  <2> QED
    BY <2>1, <2>2, <2>3 DEF OneCache
<1>7. NothingEvicted(ss, r)
  <2> SUFFICES ASSUME m.mapped = m.listed
               PROVE  r.mapped = r.listed
    BY DEF Sound, NothingEvicted
  <2>1. \A i \in m.mapped : ss[i].ip \in ips => i \in old
    BY <1>3 DEF Sound, OneCache
  <2> QED
    BY <1>1, <2>1
<1>8. FileIsOwn(ss, r, d)
  <2> SUFFICES ASSUME ~ReuseMinute
               PROVE  /\ d[JsonFile(r)] \subseteq Content(ss, r)
                      /\ \A f \in Files : f > JsonFile(r) => d[f] = {}
    BY DEF FileIsOwn
  <2>1. \A f \in Files : f > JsonFile(m) => d[f] = {}
    BY DEF Sound, FileIsOwn
  <2>2. /\ JsonFile(r) \in Files /\ JsonFile(r) \in Nat
        /\ JsonFile(m) \in Files /\ JsonFile(m) \in Nat
        /\ \A f \in Files : f \in Nat
    BY <1>1, FileInUse, ClickAssumption DEF Sound, Files
  <2>3. JsonFile(m) < JsonFile(r)
    <3>1. m.lastLogRotate \in Nat /\ now \in Nat /\ m.lastLogRotate <= now
      BY ClickAssumption DEF Sound, Manager, InTime
    <3>2. JsonFile(m) <= JsonFile(r)
      BY <1>2, <3>1, LaterFile DEF JsonFile
    <3>3. JsonFile(m) # JsonFile(r)
      BY <1>2
    <3> QED
      BY <2>2, <3>2, <3>3
  <2>4. d[JsonFile(r)] = {}
    BY <2>1, <2>2, <2>3
  <2>5. ASSUME NEW f \in Files, f > JsonFile(r) PROVE d[f] = {}
    <3>1. f > JsonFile(m)
      BY <2>2, <2>3, <2>5
    <3> QED
      BY <2>1, <3>1
  <2> QED
    BY <2>4, <2>5
<1> QED
  BY <1>1, <1>2, <1>4, <1>5, <1>6, <1>7, <1>8 DEF Sound, r

\* A rotation that is due starts a new file.
LEMMA DueRotationStartsFile ==
  ASSUME NEW ss, NEW m \in Manager(ss), RotateDue(m), now \in 0..MaxTime
  PROVE  JsonFile(m) # now \div Minute
<1>1. m.lastLogRotate \in Nat /\ now \in Nat
  BY ClickAssumption DEF Manager
<1>2. now - m.lastLogRotate >= Minute /\ m.lastLogRotate <= now
  BY <1>1, ClickAssumption DEF RotateDue
<1> QED
  BY <1>1, <1>2, LaterFile DEF JsonFile

\* put() keeps the map within its capacity and evicts only when it must.
LEMMA PutIsBounded ==
  ASSUME NEW S \in SUBSET Nat, NEW id \in Nat, IsFiniteSet(S),
         Cardinality(S) <= MAX_CLICKSTREAMS
  PROVE  /\ Put(S, id) \subseteq S \cup {id}
         /\ Cardinality(Put(S, id)) <= MAX_CLICKSTREAMS
         /\ Cardinality(S \cup {id}) <= MAX_CLICKSTREAMS => Put(S, id) = S \cup {id}
<1> DEFINE grown == S \cup {id}
<1>1. IsFiniteSet(grown) /\ Cardinality(grown) <= Cardinality(S) + 1
  <2>1. Cardinality(S) \in Nat
    BY FS_CardinalityType
  <2>2. /\ IsFiniteSet(grown)
        /\ Cardinality(grown) = IF id \in S THEN Cardinality(S) ELSE Cardinality(S) + 1
    BY FS_AddElement
  <2> HIDE DEF grown
  <2> QED
    BY <2>1, <2>2
<1>2. /\ Cardinality(grown) \in Nat /\ Cardinality(S) \in Nat
      /\ MAX_CLICKSTREAMS \in Nat
  BY <1>1, FS_CardinalityType, ClickAssumption
<1>3. Min(grown) \in grown
  BY MinIsMember
<1>4. Cardinality(grown \ {Min(grown)}) = Cardinality(grown) - 1
  BY <1>1, <1>3, FS_RemoveElement
<1>5. Put(S, id) = IF Cardinality(grown) > MAX_CLICKSTREAMS
                   THEN grown \ {Min(grown)} ELSE grown
  BY DEF Put
<1> HIDE DEF grown
<1>6. CASE Cardinality(grown) > MAX_CLICKSTREAMS
  <2>1. Put(S, id) = grown \ {Min(grown)}
    BY <1>5, <1>6
  <2>2. Cardinality(Put(S, id)) = Cardinality(grown) - 1
    BY <1>4, <2>1
  <2> QED
    BY <1>1, <1>2, <1>6, <2>1, <2>2 DEF grown
<1>7. CASE ~(Cardinality(grown) > MAX_CLICKSTREAMS)
  <2>1. Put(S, id) = grown
    BY <1>5, <1>7
  <2> QED
    BY <1>2, <1>7, <2>1 DEF grown
<1> QED
  BY <1>6, <1>7

LEMMA IpsAreFinite ==
  ASSUME NEW ss \in Seq(Stream)
  PROVE  IsFiniteSet(SeenIps(ss))
<1> DEFINE f == [i \in 1..Len(ss) |-> ss[i].ip]
<1>1. f \in Surjection(1..Len(ss), SeenIps(ss))
  BY DEF Surjection, SeenIps
<1>2. IsFiniteSet(1..Len(ss))
  BY FS_Interval
<1> QED
  BY <1>1, <1>2, FS_Surjection

\* Streams of different addresses are no more than the addresses.
LEMMA StreamsCountedByIp ==
  ASSUME NEW ss \in Seq(Stream), NEW T \in SUBSET DOMAIN ss,
         \A i, j \in T : ss[i].ip = ss[j].ip => i = j
  PROVE  Cardinality(T) <= Cardinality(SeenIps(ss))
<1> DEFINE f == [i \in T |-> ss[i].ip]
<1>1. f \in Injection(T, SeenIps(ss))
  BY DEF Injection, IsInjective, SeenIps
<1> QED
  BY <1>1, IpsAreFinite, FS_Injection

\* The streams, and their addresses, only become more.
LEMMA MoreIps ==
  ASSUME NEW ss \in Seq(Stream), NEW tt \in Seq(Stream),
         DOMAIN ss \subseteq DOMAIN tt,
         \A i \in DOMAIN ss : tt[i].ip = ss[i].ip,
         Cardinality(SeenIps(tt)) <= MAX_CLICKSTREAMS
  PROVE  Cardinality(SeenIps(ss)) <= MAX_CLICKSTREAMS
<1>1. SeenIps(ss) \subseteq SeenIps(tt)
  BY DEF SeenIps
<1>2. IsFiniteSet(SeenIps(ss)) /\ IsFiniteSet(SeenIps(tt))
  BY IpsAreFinite
<1>3. Cardinality(SeenIps(ss)) <= Cardinality(SeenIps(tt))
  BY <1>1, <1>2, FS_Subset
<1>4. /\ Cardinality(SeenIps(ss)) \in Nat /\ Cardinality(SeenIps(tt)) \in Nat
      /\ MAX_CLICKSTREAMS \in Nat
  BY <1>2, FS_CardinalityType, ClickAssumption
<1> QED
  BY <1>3, <1>4

\* The new state of a request's hit, before the flush and the rotation.
LEMMA HitIsRecorded ==
  ASSUME TypeOK, HitsHaveArrived, Sound(streams, manager, disk),
         NEW ip \in Ips, Len(hits) + 1 \in Hit,
         NEW ss, ss = RecordStreams(streams, manager, ip, Len(hits) + 1),
         NEW m, m = RecordManager(streams, manager, ip)
  PROVE  /\ Sound(ss, m, disk)
         /\ manager.listed \subseteq m.listed
         /\ m.lastFlush = manager.lastFlush /\ m.lastLogRotate = manager.lastLogRotate
         /\ \A i \in DOMAIN streams :
              i \in DOMAIN ss /\ streams[i].hits \subseteq ss[i].hits
         /\ \A i \in DOMAIN ss : ss[i].hits \subseteq 1..(Len(hits) + 1)
         /\ Content(ss, m) \subseteq Content(streams, manager) \cup {Len(hits) + 1}
<1> DEFINE hit == Len(hits) + 1
           n == Len(streams)
           found == Found(streams, manager, ip)
<1>1. /\ streams \in Seq(Stream) /\ n \in Nat /\ DOMAIN streams = 1..n
      /\ manager \in Manager(streams)
      /\ disk \in [Files -> SUBSET Hit]
      /\ Len(hits) \in Nat /\ now \in 0..MaxTime /\ MaxTime \in Nat
  BY ClickAssumption DEF TypeOK, Sound
<1>2. InTime(manager) /\ OneCache(streams, manager) /\ NothingEvicted(streams, manager)
  BY DEF Sound
<1>3. \A i \in DOMAIN streams : streams[i] \in Stream /\ streams[i].hits \subseteq 1..Len(hits)
  BY <1>1 DEF HitsHaveArrived
<1>4. CASE found # {}
  <2>1. /\ m = manager
        /\ ss = [i \in DOMAIN streams |->
                   IF i \in found THEN [streams[i] EXCEPT !.hits = @ \cup {hit}]
                                  ELSE streams[i]]
    BY <1>4 DEF RecordStreams, RecordManager
  <2> HIDE DEF found
  <2>2. /\ DOMAIN ss = 1..n
        /\ \A i \in 1..n : /\ ss[i] \in Stream /\ ss[i].ip = streams[i].ip
                           /\ streams[i].hits \subseteq ss[i].hits
                           /\ ss[i].hits \subseteq streams[i].hits \cup {hit}
    <3>1. DOMAIN ss = 1..n
      BY <1>1, <2>1
    <3>2. ASSUME NEW i \in 1..n
          PROVE  /\ ss[i] \in Stream /\ ss[i].ip = streams[i].ip
                 /\ streams[i].hits \subseteq ss[i].hits
                 /\ ss[i].hits \subseteq streams[i].hits \cup {hit}
      <4>1. /\ streams[i] \in Stream
            /\ ss[i] = IF i \in found THEN [streams[i] EXCEPT !.hits = @ \cup {hit}]
                                      ELSE streams[i]
        BY <1>1, <1>3, <2>1
      <4> QED
        BY <4>1 DEF Stream
    <3> QED
      BY <3>1, <3>2
  <2>3. ss \in Seq(Stream)
    <3>1. ss = [i \in 1..n |-> ss[i]]
      BY <1>1, <2>1
    <3> QED
      BY <1>1, <2>2, <3>1
  <2>4. Content(streams, manager) \subseteq Content(ss, m)
    BY <1>1, <2>1, <2>2 DEF Content, Manager
  <2>5. Content(ss, m) \subseteq Content(streams, manager) \cup {hit}
    BY <1>1, <2>1, <2>2 DEF Content, Manager
  <2>6. m \in Manager(ss)
    BY <1>1, <2>1, <2>2 DEF Manager
  <2>7. OneCache(ss, m)
    BY <1>1, <1>2, <2>1, <2>2 DEF OneCache, Manager
  <2>8. NothingEvicted(ss, m)
    <3>1. SeenIps(ss) = SeenIps(streams)
      BY <1>1, <2>2 DEF SeenIps
    <3> QED
      BY <1>2, <2>1, <3>1 DEF NothingEvicted
  <2>9. FileIsOwn(ss, m, disk)
    BY <2>1, <2>4 DEF Sound, FileIsOwn
  <2>10. Sound(ss, m, disk)
    BY <1>1, <1>2, <2>1, <2>3, <2>6, <2>7, <2>8, <2>9 DEF Sound
  <2>11. \A i \in DOMAIN ss : ss[i].hits \subseteq 1..(Len(hits) + 1)
    <3>1. 1..Len(hits) \cup {hit} \subseteq 1..(Len(hits) + 1)
      BY <1>1
    <3> QED
      BY <1>1, <1>3, <2>2, <3>1
  <2> QED
    BY <1>1, <2>1, <2>2, <2>5, <2>10, <2>11
<1>5. CASE found = {}
  <2> DEFINE new == [ip |-> ip, timeStamp |-> now, hits |-> {hit}]
  <2>1. /\ ss = Append(streams, new)
        /\ m = [manager EXCEPT !.mapped = Put(manager.mapped, n + 1),
                               !.listed = manager.listed \cup {n + 1}]
    BY <1>5 DEF RecordStreams, RecordManager
  <2>2. new \in Stream
    BY <1>1 DEF Stream
  <2>3. /\ ss \in Seq(Stream) /\ DOMAIN ss = 1..(n + 1)
        /\ ss[n + 1] = new /\ \A i \in 1..n : ss[i] = streams[i]
    <3> HIDE DEF new
    <3>1. /\ ss \in Seq(Stream) /\ Len(ss) = n + 1
          /\ ss[n + 1] = new /\ \A i \in 1..n : ss[i] = streams[i]
      BY <1>1, <2>1, <2>2, AppendProperties
    <3> QED
      BY <1>1, <3>1
  <2>4. manager.mapped \in SUBSET 1..n /\ manager.listed \in SUBSET 1..n
    BY <1>1 DEF Manager
  <2> DEFINE grown == manager.mapped \cup {n + 1}
  <2>5. IsFiniteSet(manager.mapped) /\ IsFiniteSet(grown)
    <3>1. IsFiniteSet(1..n)
      BY <1>1, FS_Interval
    <3>2. IsFiniteSet(manager.mapped)
      BY <2>4, <3>1, FS_Subset
    <3> QED
      BY <3>2, FS_AddElement
  <2>6. /\ Put(manager.mapped, n + 1) \subseteq grown
        /\ Cardinality(Put(manager.mapped, n + 1)) <= MAX_CLICKSTREAMS
        /\ Cardinality(grown) <= MAX_CLICKSTREAMS => Put(manager.mapped, n + 1) = grown
    <3>1. manager.mapped \in SUBSET Nat /\ n + 1 \in Nat
      BY <1>1, <2>4
    <3> QED
      BY <1>2, <2>5, <3>1, PutIsBounded DEF OneCache
  <2>7. /\ m.mapped = Put(manager.mapped, n + 1)
        /\ m.listed = manager.listed \cup {n + 1}
        /\ m.lastFlush = manager.lastFlush /\ m.lastLogRotate = manager.lastLogRotate
    BY <1>1, <2>1 DEF Manager
  <2>8. m.mapped \in SUBSET 1..(n + 1) /\ m.listed \in SUBSET 1..(n + 1)
    BY <1>1, <2>4, <2>6, <2>7
  <2>9. m \in Manager(ss)
    BY <1>1, <2>1, <2>3, <2>7, <2>8 DEF Manager
  <2>10. \A i \in manager.mapped : streams[i].ip # ip
    BY <1>5 DEF Found
  <2>11. \A i, j \in grown : ss[i].ip = ss[j].ip => i = j
    <3>1. \A i \in manager.mapped : ss[i] = streams[i] /\ ss[i].ip # ss[n + 1].ip
      BY <2>3, <2>4, <2>10
    <3>2. \A i, j \in manager.mapped : ss[i].ip = ss[j].ip => i = j
      BY <1>2, <3>1 DEF OneCache
    <3> QED
      BY <3>1, <3>2
  <2>12. OneCache(ss, m)
    <3>1. m.mapped \subseteq m.listed
      BY <1>2, <2>6, <2>7 DEF OneCache
    <3> QED
      BY <2>6, <2>7, <2>11, <3>1 DEF OneCache
  <2>13. NothingEvicted(ss, m)
    <3> SUFFICES ASSUME Cardinality(SeenIps(ss)) <= MAX_CLICKSTREAMS
                 PROVE  m.mapped = m.listed
      BY DEF NothingEvicted
    <3>1. Cardinality(SeenIps(streams)) <= MAX_CLICKSTREAMS
      <4>1. DOMAIN streams \subseteq DOMAIN ss /\ \A i \in DOMAIN streams : ss[i].ip = streams[i].ip
        BY <1>1, <2>3
      <4> QED
        BY <1>1, <2>3, <4>1, MoreIps
    <3>2. manager.mapped = manager.listed
      BY <1>2, <3>1 DEF NothingEvicted
    <3>3. Cardinality(grown) <= Cardinality(SeenIps(ss))
      <4>1. grown \in SUBSET DOMAIN ss
        BY <1>1, <2>3, <2>4
      <4> HIDE DEF grown
      <4> QED
        BY <2>3, <2>11, <4>1, StreamsCountedByIp
    <3>4. Cardinality(grown) <= MAX_CLICKSTREAMS
      <4>1. /\ Cardinality(grown) \in Nat /\ Cardinality(SeenIps(ss)) \in Nat
            /\ MAX_CLICKSTREAMS \in Nat
        BY <2>3, <2>5, IpsAreFinite, FS_CardinalityType, ClickAssumption
      <4> HIDE DEF grown
      <4> QED
        BY <3>3, <4>1
    <3> QED
      BY <2>6, <2>7, <3>2, <3>4
  <2>14. Content(ss, m) = Content(streams, manager) \cup {hit}
    <3>1. \A i \in manager.listed : ss[i].hits = streams[i].hits
      BY <2>3, <2>4
    <3>2. ss[n + 1].hits = {hit}
      BY <2>3
    <3> QED
      BY <2>7, <3>1, <3>2 DEF Content
  <2>15. FileIsOwn(ss, m, disk)
    <3>1. JsonFile(m) = JsonFile(manager)
      BY <2>7 DEF JsonFile
    <3> QED
      BY <2>14, <3>1 DEF Sound, FileIsOwn
  <2>16. Sound(ss, m, disk)
    <3>1. InTime(m)
      BY <1>2, <2>7 DEF InTime
    <3> QED
      BY <1>1, <2>3, <2>9, <2>12, <2>13, <2>15, <3>1 DEF Sound
  <2>17. \A i \in DOMAIN ss : ss[i].hits \subseteq 1..(Len(hits) + 1)
    <3>1. 1..Len(hits) \subseteq 1..(Len(hits) + 1) /\ hit \in 1..(Len(hits) + 1)
      BY <1>1
    <3>2. \A i \in 1..n : ss[i].hits \subseteq 1..Len(hits)
      BY <1>1, <1>3, <2>3
    <3>3. \A i \in 1..(n + 1) : i \in 1..n \/ i = n + 1
      BY <1>1
    <3> QED
      BY <2>3, <3>1, <3>2, <3>3
  <2> QED
    BY <1>1, <2>3, <2>7, <2>14, <2>16, <2>17
<1> QED
  BY <1>4, <1>5

\* A rotation that starts a new file, with its save and flush.
LEMMA RotationIsSound ==
  ASSUME NEW ss, NEW m, NEW d, Sound(ss, m, d), now \in 0..MaxTime,
         ReuseMinute \/ JsonFile(m) # now \div Minute,
         NEW o \in Outcomes,
         NEW r, r = Flushed(Rotated(ss, m)),
         NEW s, s = Save(ss, Rotated(ss, m), d, o)
  PROVE  /\ Sound(ss, r, s)
         /\ r.listed \subseteq m.listed
         /\ o = "ok" => s[JsonFile(r)] = Content(ss, r)
         /\ \A f \in Files : f # now \div Minute => s[f] = d[f]
         /\ ~ReuseMinute /\ o # "truncated" => \A f \in Files : d[f] \subseteq s[f]
<1>1. PICK m2 : m2 = Rotated(ss, m)
  OBVIOUS
<1>2. /\ Sound(ss, m2, d) /\ m2.listed \subseteq m.listed
      /\ JsonFile(m2) = now \div Minute
  BY <1>1, RotatedIsSound
<1>3. /\ Sound(ss, m2, s)
      /\ o = "ok" => s[JsonFile(m2)] = Content(ss, m2)
      /\ \A f \in Files : f # now \div Minute => s[f] = d[f]
      /\ ~ReuseMinute /\ o # "truncated" => \A f \in Files : d[f] \subseteq s[f]
  BY <1>1, <1>2, SaveIsSound
<1>4. /\ Sound(ss, r, s) /\ r.listed = m2.listed
      /\ JsonFile(r) = JsonFile(m2) /\ Content(ss, r) = Content(ss, m2)
  BY <1>1, <1>3, FlushedIsSound
<1> QED
  BY <1>2, <1>3, <1>4

\* What the flush and the rotation of a request leave: a sound state; either
\* nothing was due, or a request that saved without failure has left the file in
\* use up to date; and the hits of the list reach some file.
Housekept(ss, m, d, end) ==
  /\ Sound(ss, end.manager, end.disk)
  /\ end.manager.listed \subseteq m.listed
  /\ Worst(end.outcomes) \in Outcomes
  /\ \/ /\ ~FlushDue(m) /\ Worst(end.outcomes) = lastSave
        /\ end.manager = m /\ end.disk = d
     \/ Worst(end.outcomes) = "ok" =>
          end.disk[JsonFile(end.manager)] = Content(ss, end.manager)
  /\ Worst(end.outcomes) = "ok" =>
       \A h \in Content(ss, m) :
         FlushDue(m) \/ h \in d[JsonFile(m)] =>
           \E f \in Files : h \in end.disk[f]
  /\ ~ReuseMinute /\ Worst(end.outcomes) # "truncated" =>
       \A f \in Files : d[f] \subseteq end.disk[f]

LEMMA HousekeepingIsSound ==
  ASSUME NEW ss, NEW m, NEW d, Sound(ss, m, d), now \in 0..MaxTime,
         lastSave \in Outcomes, NEW first \in Outcomes, NEW second \in Outcomes,
         NEW end, end = Housekeeping(ss, m, d, first, second)
  PROVE  Housekept(ss, m, d, end)
<1> DEFINE due == FlushDue(m)
<1>1. PICK m1 : m1 = IF due THEN Flushed(m) ELSE m
  OBVIOUS
<1>2. PICK d1 : d1 = IF due THEN Save(ss, m, d, first) ELSE d
  OBVIOUS
<1>3. PICK o1 : o1 = IF due THEN {first} ELSE {}
  OBVIOUS
<1>4. PICK m2 : m2 = Flushed(Rotated(ss, m1))
  OBVIOUS
<1>5. PICK d2 : d2 = Save(ss, Rotated(ss, m1), d1, second)
  OBVIOUS
<1>6. end = IF RotateDue(m1)
            THEN [manager |-> m2, disk |-> d2, outcomes |-> o1 \cup {second}]
            ELSE [manager |-> m1, disk |-> d1, outcomes |-> o1]
  BY <1>1, <1>2, <1>3, <1>4, <1>5 DEF Housekeeping
<1>7. JsonFile(m) \in Files
  BY FileInUse DEF Sound
\* After the flush.
<1>8. /\ Sound(ss, m1, d1) /\ m1.listed = m.listed
      /\ JsonFile(m1) = JsonFile(m) /\ Content(ss, m1) = Content(ss, m)
      /\ due /\ first = "ok" => d1[JsonFile(m)] = Content(ss, m)
      /\ ~due => d1 = d
      /\ ~ReuseMinute /\ first # "truncated" => \A f \in Files : d[f] \subseteq d1[f]
  <2>1. CASE due
    <3>1. /\ Sound(ss, m, d1)
          /\ first = "ok" => d1[JsonFile(m)] = Content(ss, m)
          /\ ~ReuseMinute /\ first # "truncated" => \A f \in Files : d[f] \subseteq d1[f]
      BY <1>2, <2>1, SaveIsSound
    <3>2. /\ Sound(ss, m1, d1) /\ m1.listed = m.listed
          /\ JsonFile(m1) = JsonFile(m) /\ Content(ss, m1) = Content(ss, m)
      BY <1>1, <2>1, <3>1, FlushedIsSound
    <3> QED
      BY <2>1, <3>1, <3>2
  <2>2. CASE ~due
    BY <1>1, <1>2, <2>2
  <2> QED
    BY <2>1, <2>2
<1> HIDE DEF due
\* The outcome of the request.
<1>9. /\ Worst(end.outcomes) \in Outcomes
      /\ end.outcomes = {} => Worst(end.outcomes) = lastSave
      /\ \A o \in end.outcomes : Worst(end.outcomes) = "ok" => o = "ok"
      /\ \A o \in end.outcomes :
           Worst(end.outcomes) # "truncated" => o # "truncated"
  <2>1. end.outcomes \subseteq Outcomes
    BY <1>3, <1>6
  <2> QED
    BY <2>1 DEF Worst, Outcomes
<1>10. CASE RotateDue(m1)
  <2>1. end.manager = m2 /\ end.disk = d2 /\ end.outcomes = o1 \cup {second}
    BY <1>6, <1>10
  <2>2. JsonFile(m1) # now \div Minute
    BY <1>8, <1>10, DueRotationStartsFile DEF Sound
  <2>3. /\ Sound(ss, m2, d2)
        /\ m2.listed \subseteq m1.listed
        /\ second = "ok" => d2[JsonFile(m2)] = Content(ss, m2)
        /\ \A f \in Files : f # now \div Minute => d2[f] = d1[f]
        /\ ~ReuseMinute /\ second # "truncated" =>
             \A f \in Files : d1[f] \subseteq d2[f]
    BY <1>4, <1>5, <1>8, <2>2, RotationIsSound
  <2>4. d2[JsonFile(m)] = d1[JsonFile(m)]
    BY <1>7, <1>8, <2>2, <2>3
  <2>5. /\ Worst(end.outcomes) = "ok" => second = "ok" /\ (due => first = "ok")
        /\ Worst(end.outcomes) # "truncated" =>
             second # "truncated" /\ (due => first # "truncated")
    BY <1>3, <1>9, <2>1
  <2>6. Worst(end.outcomes) = "ok" =>
          \A h \in Content(ss, m) : due \/ h \in d[JsonFile(m)] =>
            h \in d2[JsonFile(m)]
    BY <1>8, <2>4, <2>5
  <2>7. ~ReuseMinute /\ Worst(end.outcomes) # "truncated" =>
          \A f \in Files : d[f] \subseteq d2[f]
    <3> SUFFICES ASSUME ~ReuseMinute, Worst(end.outcomes) # "truncated"
                 PROVE  \A f \in Files : d[f] \subseteq d2[f]
      OBVIOUS
    <3>1. \A f \in Files : d[f] \subseteq d1[f]
      BY <1>8, <2>5
    <3>2. \A f \in Files : d1[f] \subseteq d2[f]
      BY <2>3, <2>5
    <3> QED
      BY <3>1, <3>2
  <2> QED
    BY <1>7, <1>8, <1>9, <2>1, <2>3, <2>5, <2>6, <2>7 DEF due, Housekept
<1>11. CASE ~RotateDue(m1)
  <2>1. end.manager = m1 /\ end.disk = d1 /\ end.outcomes = o1
    BY <1>6, <1>11
  <2>2. CASE due
    <3>1. /\ Worst(end.outcomes) = "ok" => first = "ok"
          /\ Worst(end.outcomes) # "truncated" => first # "truncated"
      BY <1>3, <1>9, <2>1, <2>2
    <3> QED
      BY <1>7, <1>8, <1>9, <2>1, <2>2, <3>1 DEF due, Housekept
  <2>3. CASE ~due
    <3>1. m1 = m /\ d1 = d /\ end.outcomes = {}
      BY <1>1, <1>2, <1>3, <2>1, <2>3
    <3> QED
      BY <1>7, <1>8, <1>9, <2>1, <2>3, <3>1 DEF due, Housekept
  <2> QED
    BY <2>2, <2>3
<1> QED
  BY <1>10, <1>11

-----------------------------------------------------------------------------
(* The steps.                                                              *)

LEMMA InitSound == Init => IInv
<1> SUFFICES ASSUME Init PROVE IInv
  OBVIOUS
<1> USE ClickAssumption
<1>1. /\ now = 0 /\ hits = <<>> /\ streams = <<>> /\ lastSave = "ok" /\ restarts = 0
      /\ disk = [f \in Files |-> {}]
      /\ manager.mapped = {} /\ manager.listed = {}
      /\ manager.lastFlush = 0 /\ manager.lastLogRotate = 0
      /\ manager \in Manager(streams)
  BY DEF Init, NewManager, Manager
<1>2. DOMAIN streams = {} /\ streams \in Seq(Stream) /\ Len(hits) = 0
  BY <1>1
<1>3. disk \in [Files -> SUBSET Hit]
  BY <1>1
<1>4. TypeOK
  BY <1>1, <1>2, <1>3 DEF TypeOK, Outcomes, Manager
<1>5. JsonFile(manager) \in Files /\ disk[JsonFile(manager)] = {}
  BY <1>1, FileInUse
<1>6. Content(streams, manager) = {}
  BY <1>1 DEF Content
<1>7. OneCache(streams, manager)
  BY <1>1, FS_EmptySet DEF OneCache
<1>8. FileIsOwn(streams, manager, disk) /\ NothingEvicted(streams, manager)
  BY <1>1, <1>5 DEF FileIsOwn, NothingEvicted
<1>9. Sound(streams, manager, disk)
  BY <1>1, <1>2, <1>3, <1>7, <1>8 DEF Sound, InTime
<1> QED
  BY <1>2, <1>4, <1>6, <1>9 DEF IInv, HitsHaveArrived, FlushedIsSaved

\* A request: the invariant, and what becomes of the hits it found.
LEMMA RequestSound ==
  ASSUME IInv,
         NEW remote \in Addresses \cup {Localhost}, NEW forwarded \in Ips,
         NEW first \in Outcomes, NEW second \in Outcomes,
         AddPageHit(remote, forwarded, first, second)
  PROVE  /\ IInv'
         /\ lastSave' = "ok" =>
              \A i \in manager.listed : \A h \in streams[i].hits :
                now - hits[h] >= FLUSH_PERIOD /\ (lastSave = "ok" \/ i \in manager'.listed) =>
                  h \in Saved'
         /\ ~ReuseMinute /\ lastSave' # "truncated" => Saved \subseteq Saved'
<1> DEFINE hit == Len(hits) + 1
<1>1. PICK ip : ip = ClientIp(remote, forwarded)
  OBVIOUS
<1>2. PICK ss : ss = RecordStreams(streams, manager, ip, hit)
  OBVIOUS
<1>3. PICK m : m = RecordManager(streams, manager, ip)
  OBVIOUS
<1>4. PICK end : end = Housekeeping(ss, m, disk, first, second)
  OBVIOUS
<1>5. /\ hit \in Hit
      /\ hits' = Append(hits, now) /\ streams' = ss
      /\ manager' = end.manager /\ disk' = end.disk
      /\ lastSave' = Worst(end.outcomes)
      /\ now' = now /\ restarts' = restarts
  BY <1>1, <1>2, <1>3, <1>4 DEF AddPageHit
<1>6. ip \in Ips
  BY <1>1 DEF ClientIp, Ips
<1>7. /\ TypeOK /\ HitsHaveArrived /\ Sound(streams, manager, disk) /\ FlushedIsSaved
      /\ now \in 0..MaxTime /\ now \in Nat /\ lastSave \in Outcomes
      /\ hits \in Seq(0..MaxTime) /\ Len(hits) \in Nat /\ Len(hits) <= MaxHits
      /\ restarts \in 0..MaxRestarts
      /\ manager \in Manager(streams)
  BY ClickAssumption DEF IInv, TypeOK, Sound
<1>8. /\ Sound(ss, m, disk)
      /\ manager.listed \subseteq m.listed
      /\ m.lastFlush = manager.lastFlush /\ m.lastLogRotate = manager.lastLogRotate
      /\ \A i \in DOMAIN streams :
           i \in DOMAIN ss /\ streams[i].hits \subseteq ss[i].hits
      /\ \A i \in DOMAIN ss : ss[i].hits \subseteq 1..hit
      /\ Content(ss, m) \subseteq Content(streams, manager) \cup {hit}
  BY <1>2, <1>3, <1>5, <1>6, <1>7, HitIsRecorded
<1>9. /\ Sound(ss, end.manager, end.disk)
      /\ end.manager.listed \subseteq m.listed
      /\ Worst(end.outcomes) \in Outcomes
      /\ \/ /\ ~FlushDue(m) /\ Worst(end.outcomes) = lastSave
            /\ end.manager = m /\ end.disk = disk
         \/ Worst(end.outcomes) = "ok" =>
              end.disk[JsonFile(end.manager)] = Content(ss, end.manager)
      /\ Worst(end.outcomes) = "ok" =>
           \A h \in Content(ss, m) :
             FlushDue(m) \/ h \in disk[JsonFile(m)] =>
               \E f \in Files : h \in end.disk[f]
      /\ ~ReuseMinute /\ Worst(end.outcomes) # "truncated" =>
           \A f \in Files : disk[f] \subseteq end.disk[f]
  <2>1. Sound(ss, m, disk)
    BY <1>8
  <2>2. now \in 0..MaxTime /\ lastSave \in Outcomes
    BY <1>7
  <2>3. Housekept(ss, m, disk, end)
    BY <1>4, <2>1, <2>2, HousekeepingIsSound
  <2> QED
    BY <2>3 DEF Housekept
<1>10. JsonFile(m) = JsonFile(manager)
  BY <1>8 DEF JsonFile
<1>11. /\ hits' \in Seq(0..MaxTime) /\ Len(hits') = hit
       /\ hits'[hit] = now /\ \A h \in 1..Len(hits) : hits'[h] = hits[h]
  BY <1>5, <1>7, AppendProperties
<1>12. Sound(streams, manager, disk)'
  <2>1. Sound(streams', manager', disk')
    BY <1>5, <1>9
  <2> QED
    BY <1>5, <2>1 DEF Sound, InTime
<1>13. TypeOK'
  <2>1. now' \in 0..MaxTime /\ restarts' \in 0..MaxRestarts /\ lastSave' \in Outcomes
    BY <1>5, <1>7, <1>9
  <2>2. hits' \in Seq(0..MaxTime) /\ Len(hits') <= MaxHits
    BY <1>5, <1>11, ClickAssumption DEF Hit
  <2>3. /\ streams' \in Seq(Stream) /\ manager' \in Manager(streams')
        /\ disk' \in [Files -> SUBSET Hit]
    BY <1>5, <1>9 DEF Sound
  <2> QED
    BY <2>1, <2>2, <2>3 DEF TypeOK, Manager
<1>14. HitsHaveArrived'
  BY <1>5, <1>8, <1>11 DEF HitsHaveArrived
<1>15. \A h \in Content(streams, manager) : h \in 1..Len(hits) /\ hits[h] \in Nat
  <2>1. \A h \in 1..Len(hits) : hits[h] \in Nat
    <3>1. \A t \in 0..MaxTime : t \in Nat
      BY ClickAssumption
    <3> QED
      BY <1>7, <3>1, ElementOfSeq
  <2>2. \A i \in manager.listed : streams[i].hits \subseteq 1..Len(hits)
    BY <1>7 DEF HitsHaveArrived, Manager
  <2> QED
    BY <2>1, <2>2 DEF Content
<1>16. \A h \in Content(ss, m) :
         hits'[h] < m.lastFlush /\ lastSave = "ok" => h \in disk[JsonFile(m)]
  <2>1. m.lastFlush <= now /\ m.lastFlush \in Nat
    BY <1>8, ClickAssumption DEF Sound, InTime, Manager
  <2>2. ~(hits'[hit] < m.lastFlush)
    BY <1>7, <1>11, <2>1
  <2> QED
    BY <1>7, <1>8, <1>10, <1>11, <1>15, <2>2 DEF FlushedIsSaved
<1>17. FlushedIsSaved'
  <2> SUFFICES ASSUME lastSave' = "ok",
                      NEW h \in Content(ss, end.manager), hits'[h] < end.manager.lastFlush
               PROVE  h \in end.disk[JsonFile(end.manager)]
    BY <1>5 DEF FlushedIsSaved
  <2> QED
    BY <1>5, <1>9, <1>16
<1>18. ASSUME lastSave' = "ok", NEW i \in manager.listed, NEW h \in streams[i].hits,
              now - hits[h] >= FLUSH_PERIOD, lastSave = "ok" \/ i \in manager'.listed
       PROVE  h \in Saved'
  <2>1. h \in Content(streams, manager) /\ h \in Content(ss, m)
    BY <1>7, <1>8 DEF Content, Manager
  <2>2. i \in end.manager.listed => h \in Content(ss, end.manager)
    BY <1>7, <1>8 DEF Content, Manager
  <2>3. JsonFile(end.manager) \in Files /\ JsonFile(m) \in Files
    BY <1>8, <1>9, FileInUse DEF Sound
  <2>4. SUFFICES \E f \in Files : h \in end.disk[f]
    BY <1>5 DEF Saved
  <2>5. ~FlushDue(m) => hits'[h] < m.lastFlush
    <3>1. /\ hits[h] \in Nat /\ hits'[h] = hits[h]
          /\ m.lastFlush \in Nat /\ FLUSH_PERIOD \in Nat
      <4>1. m.lastFlush \in Nat /\ FLUSH_PERIOD \in Nat
        BY <1>7, <1>8, ClickAssumption DEF Manager
      <4> QED
        BY <1>11, <1>15, <2>1, <4>1
    <3> QED
      BY <1>7, <1>18, <3>1 DEF FlushDue
  <2>6. CASE lastSave = "ok"
    BY <1>5, <1>9, <1>16, <1>18, <2>1, <2>5, <2>6
  <2>7. CASE lastSave # "ok"
    BY <1>5, <1>9, <1>18, <2>2, <2>3, <2>7
  <2> QED
    BY <2>6, <2>7
<1>19. ~ReuseMinute /\ lastSave' # "truncated" => Saved \subseteq Saved'
  BY <1>5, <1>9 DEF Saved
<1>20. IInv'
  BY <1>12, <1>13, <1>14, <1>17 DEF IInv
<1> QED
  BY <1>18, <1>19, <1>20

\* A rotation asked for by the owner of the manager.
LEMMA LogRotateSound ==
  ASSUME IInv, NEW o \in Outcomes, LogRotate(o)
  PROVE  /\ IInv'
         /\ ~ReuseMinute /\ lastSave' # "truncated" => Saved \subseteq Saved'
<1>1. PICK r : r = Flushed(Rotated(streams, manager))
  OBVIOUS
<1>2. PICK s : s = Save(streams, Rotated(streams, manager), disk, o)
  OBVIOUS
<1>3. /\ ReuseMinute \/ JsonFile(manager) # now \div Minute
      /\ manager' = r /\ disk' = s /\ lastSave' = o
      /\ now' = now /\ hits' = hits /\ streams' = streams /\ restarts' = restarts
  BY <1>1, <1>2 DEF LogRotate
<1>4. /\ TypeOK /\ HitsHaveArrived /\ Sound(streams, manager, disk)
      /\ now \in 0..MaxTime
  BY DEF IInv, TypeOK
<1>5. /\ Sound(streams, r, s)
      /\ o = "ok" => s[JsonFile(r)] = Content(streams, r)
      /\ ~ReuseMinute /\ o # "truncated" => \A f \in Files : disk[f] \subseteq s[f]
  BY <1>1, <1>2, <1>3, <1>4, RotationIsSound
<1>6. Sound(streams, manager, disk)'
  <2>1. Sound(streams', manager', disk')
    BY <1>3, <1>5
  <2> QED
    BY <1>3, <2>1 DEF Sound, InTime
<1>7. TypeOK'
  BY <1>3, <1>4, <1>6 DEF TypeOK, Sound, Manager
<1>8. HitsHaveArrived' /\ FlushedIsSaved'
  BY <1>3, <1>4, <1>5 DEF HitsHaveArrived, FlushedIsSaved
<1> QED
  BY <1>3, <1>5, <1>6, <1>7, <1>8 DEF IInv, Saved

LEMMA RestartSound ==
  ASSUME IInv, Restart
  PROVE  IInv' /\ Saved' = Saved
<1> USE ClickAssumption
<1>1. /\ ReuseMinute \/ JsonFile(manager) # now \div Minute
      /\ restarts < MaxRestarts /\ restarts' = restarts + 1
      /\ streams' = <<>> /\ lastSave' = "ok"
      /\ now' = now /\ hits' = hits /\ disk' = disk
      /\ manager'.mapped = {} /\ manager'.listed = {}
      /\ manager'.lastFlush = now /\ manager'.lastLogRotate = now
      /\ manager' = NewManager(now)
  BY DEF Restart, NewManager
<1>2. /\ TypeOK /\ Sound(streams, manager, disk)
      /\ now \in 0..MaxTime /\ now \in Nat
      /\ disk \in [Files -> SUBSET Hit]
      /\ manager \in Manager(streams)
  BY DEF IInv, TypeOK, Sound
<1>3. DOMAIN streams' = {} /\ streams' \in Seq(Stream)
  BY <1>1
<1>4. manager' \in Manager(streams')
  BY <1>1, <1>2 DEF NewManager, Manager
<1>5. Content(streams', manager') = {} /\ JsonFile(manager') = now \div Minute
  BY <1>1 DEF Content, JsonFile
<1>6. OneCache(streams', manager') /\ NothingEvicted(streams', manager')
  BY <1>1, FS_EmptySet DEF OneCache, NothingEvicted
<1>7. FileIsOwn(streams', manager', disk)
  <2> SUFFICES ASSUME ~ReuseMinute
               PROVE  /\ disk[JsonFile(manager')] \subseteq Content(streams', manager')
                      /\ \A f \in Files : f > JsonFile(manager') => disk[f] = {}
    BY DEF FileIsOwn
  <2>1. \A f \in Files : f > JsonFile(manager) => disk[f] = {}
    BY <1>2 DEF Sound, FileIsOwn
  <2>2. /\ JsonFile(manager) \in Nat
        /\ JsonFile(manager') \in Files /\ JsonFile(manager') \in Nat
        /\ \A f \in Files : f \in Nat
    BY <1>2, <1>4, FileInUse DEF Files
  <2>3. JsonFile(manager) < JsonFile(manager')
    <3>1. manager.lastLogRotate \in Nat /\ manager.lastLogRotate <= now
      BY <1>2 DEF Sound, InTime, Manager
    <3>2. JsonFile(manager) <= now \div Minute
      BY <1>2, <3>1, LaterFile DEF JsonFile
    <3>3. JsonFile(manager) # now \div Minute
      BY <1>1
    <3> QED
      BY <1>5, <2>2, <3>2, <3>3
  <2>4. disk[JsonFile(manager')] = {}
    BY <2>1, <2>2, <2>3
  <2>5. ASSUME NEW f \in Files, f > JsonFile(manager') PROVE disk[f] = {}
    <3>1. f > JsonFile(manager)
      BY <2>2, <2>3, <2>5
    <3> QED
      BY <2>1, <3>1
  <2> QED
    BY <2>4, <2>5
<1>8. Sound(streams, manager, disk)'
  BY <1>1, <1>2, <1>3, <1>4, <1>6, <1>7 DEF Sound, InTime
<1>9. TypeOK'
  BY <1>1, <1>2, <1>3, <1>8 DEF TypeOK, Sound, Manager, Outcomes
<1>10. HitsHaveArrived' /\ FlushedIsSaved'
  BY <1>3, <1>5 DEF HitsHaveArrived, FlushedIsSaved
<1> QED
  BY <1>1, <1>8, <1>9, <1>10 DEF IInv, Saved

LEMMA IdleSound ==
  ASSUME IInv, Tick \/ UNCHANGED vars
  PROVE  IInv' /\ Saved' = Saved
<1> USE ClickAssumption
<1>1. /\ now' \in {now, now + 1} /\ now' \in 0..MaxTime
      /\ hits' = hits /\ streams' = streams /\ manager' = manager
      /\ disk' = disk /\ lastSave' = lastSave /\ restarts' = restarts
  BY DEF IInv, TypeOK, Tick, vars
<1>2. TypeOK'
  BY <1>1 DEF IInv, TypeOK
<1>3. InTime(manager)'
  <2>1. manager.lastFlush \in Nat /\ manager.lastLogRotate \in Nat /\ now \in Nat
    BY DEF IInv, TypeOK
  <2> QED
    BY <1>1, <2>1 DEF IInv, Sound, InTime
<1>4. Sound(streams, manager, disk)'
  BY <1>1, <1>3 DEF IInv, Sound
<1>5. HitsHaveArrived' /\ FlushedIsSaved'
  BY <1>1 DEF IInv, HitsHaveArrived, FlushedIsSaved
<1> QED
  BY <1>1, <1>2, <1>4, <1>5 DEF IInv, Saved

LEMMA NextSound == IInv /\ [Next]_vars => IInv'
<1> SUFFICES ASSUME IInv, [Next]_vars PROVE IInv'
  OBVIOUS
<1>1. ASSUME NEW remote \in Addresses \cup {Localhost}, NEW forwarded \in Ips,
             NEW first \in Outcomes, NEW second \in Outcomes,
             AddPageHit(remote, forwarded, first, second)
      PROVE  IInv'
  BY <1>1, RequestSound
<1>2. ASSUME NEW o \in Outcomes, LogRotate(o) PROVE IInv'
  BY <1>2, LogRotateSound
<1>3. CASE Restart
  BY <1>3, RestartSound
<1>4. CASE Tick \/ UNCHANGED vars
  BY <1>4, IdleSound
<1> QED
  BY <1>1, <1>2, <1>3, <1>4 DEF Next

LEMMA Inductive == Spec => []IInv
BY InitSound, NextSound, PTL DEF Spec

-----------------------------------------------------------------------------
(* The theorems.                                                           *)

\* The map and the list of addPageHit() refer to streams of this process, also
\* after logRotate() and a restart, and its files hold hits that have arrived.
THEOREM TypeCorrect == Spec => []TypeOK
<1>1. IInv => TypeOK
  BY DEF IInv
<1> QED
  BY <1>1, Inductive, PTL

\* addPageHit() and logRotate() keep the map a part of the list that is saved,
\* with one entry per address and never more than its capacity.
THEOREM OneCachePerAddress == Spec => []MapAgreesWithList
<1>1. IInv => MapAgreesWithList
  BY DEF IInv, Sound, OneCache, MapAgreesWithList
<1> QED
  BY <1>1, Inductive, PTL

\* Without an eviction map and list are the same, so no rotation makes a second
\* stream of a visitor who is still listed.
THEOREM OneStreamEach == Spec => []OneStreamPerVisitor
<1>1. IInv => OneStreamPerVisitor
  BY DEF IInv, Sound, OneCache, NothingEvicted, SeenIps, OneStreamPerVisitor
<1> QED
  BY <1>1, Inductive, PTL

\* flush() before logRotate(), and a new file for each rotation, bring every hit
\* older than the flush period to disk, also when a restart reuses the file.
THEOREM OldHitsReachDisk == Spec => OldHitsSaved
<1>1. IInv /\ [Next]_vars =>
        (hits' # hits /\ lastSave' = "ok" =>
           \A i \in manager.listed : \A h \in streams[i].hits :
             now - hits[h] >= FLUSH_PERIOD /\ (lastSave = "ok" \/ i \in manager'.listed) =>
               h \in Saved')
  <2> SUFFICES ASSUME IInv, [Next]_vars, hits' # hits, lastSave' = "ok"
               PROVE  \A i \in manager.listed : \A h \in streams[i].hits :
                        now - hits[h] >= FLUSH_PERIOD
                        /\ (lastSave = "ok" \/ i \in manager'.listed) => h \in Saved'
    OBVIOUS
  <2>1. PICK remote \in Addresses \cup {Localhost}, forwarded \in Ips,
             first \in Outcomes, second \in Outcomes :
          AddPageHit(remote, forwarded, first, second)
    BY DEF Next, LogRotate, Restart, Tick, vars
  <2> QED
    BY <2>1, RequestSound
<1> QED
  BY <1>1, Inductive, PTL DEF Spec, OldHitsSaved

\* As long as no two managers share the name of a file, save() overwrites a file
\* only by more of the same streams.
THEOREM SavedHitsRemain == ~ReuseMinute => (Spec => SavedHitsStay)
<1> SUFFICES ASSUME ~ReuseMinute PROVE Spec => SavedHitsStay
  OBVIOUS
<1>1. IInv /\ [Next]_vars => (lastSave' # "truncated" => Saved \subseteq Saved')
  <2> SUFFICES ASSUME IInv, [Next]_vars, lastSave' # "truncated"
               PROVE  Saved \subseteq Saved'
    OBVIOUS
  <2>1. ASSUME NEW remote \in Addresses \cup {Localhost}, NEW forwarded \in Ips,
               NEW first \in Outcomes, NEW second \in Outcomes,
               AddPageHit(remote, forwarded, first, second)
        PROVE  Saved \subseteq Saved'
    BY <2>1, RequestSound
  <2>2. ASSUME NEW o \in Outcomes, LogRotate(o) PROVE Saved \subseteq Saved'
    BY <2>2, LogRotateSound
  <2>3. CASE Restart
    BY <2>3, RestartSound
  <2>4. CASE Tick \/ UNCHANGED vars
    BY <2>4, IdleSound
  <2> QED
    BY <2>1, <2>2, <2>3, <2>4 DEF Next
<1> QED
  BY <1>1, Inductive, PTL DEF Spec, SavedHitsStay
=============================================================================
