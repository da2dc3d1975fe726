---------------------------- MODULE ClickRequests ----------------------------
(***************************************************************************)
(* The click stream manager under concurrent requests: worker threads run  *)
(* addPageHit() on an unsynchronized map and an unsynchronized list, one   *)
(* shared access per action, while flushes and rotations iterate over the  *)
(* list.  The files are left to module ClickStreams; here time is whether  *)
(* a flush or a rotation is due and which streams are past their session;  *)
(* it may have passed whenever a request looks.                            *)
(*                                                                         *)
(* A request is one hit.  A stream and a manager bear the name of the      *)
(* request that makes them: a request makes at most one of each.           *)
(*                                                                         *)
(* Two calls that modify one collection at the same time are a data race.  *)
(* The first of them to end takes its effect: entries of the collection    *)
(* may be lost, a removal undone, the call may end in an exception.  After *)
(* it the collection is torn: a torn map miscounts, so that a put may lose *)
(* entries or exceed the capacity; a torn list may hold a null.  raced     *)
(* collects the requests whose call or whose stream a race befell.         *)
(***************************************************************************)
EXTENDS Integers, Sequences, FiniteSets, SequencesExt

CONSTANTS
  Requests,           \* the requests
  Addresses,          \* addresses of visitors
  Workers,            \* the size of the pool of worker threads
  None,               \* no manager, no stream, no address
  MAX_CLICKSTREAMS    \* the capacity of clickStreamsByIp

ASSUME RequestAssumption ==
  /\ None \notin Requests /\ None \notin Addresses
  /\ {MAX_CLICKSTREAMS, Workers} \subseteq Nat \ {0}

VARIABLES
  pc,        \* where the thread of a request is
  ip,        \* the address of a request, and of the stream it makes
  mgr,       \* the manager that getInstance() returned to a request
  cs,        \* the stream of a request: the one found, or its own
  iter,      \* the iteration of a request over the list of its manager
  instance,  \* ClickStreamManager.instance
  cache,     \* the fields of each manager
  hits,      \* the hits in each stream
  old,       \* streams that were seen to be past MAX_SESSION_TIME
  raced,     \* history: requests whose call or stream a data race lost
  unseen     \* history: requests that a request of the same address could
             \* not find because they were between get and put

vars == <<pc, ip, mgr, cs, iter, instance, cache, hits, old, raced, unseen>>
threads == <<ip, mgr, cs>>
history == <<raced, unseen>>

\* An iterator: its position, whether it is sound, the streams to remove, and
\* what follows the save.
NewIter(next) ==
  [cursor |-> 0, state |-> "fresh", toRemove |-> {}, next |-> next]

Init ==
  /\ pc = [r \in Requests |-> "idle"]
  /\ ip = [r \in Requests |-> None]
  /\ mgr = [r \in Requests |-> None]
  /\ cs = [r \in Requests |-> None]
  /\ iter = [r \in Requests |-> NewIter("done")]
  /\ instance = None
  /\ cache = [m \in Requests |-> [mapped |-> <<>>, listed |-> <<>>,
                                  mapTorn |-> FALSE, listTorn |-> FALSE,
                                  flushDue |-> FALSE, rotateDue |-> FALSE]]
  /\ hits = [s \in Requests |-> {}]
  /\ old = {} /\ raced = {}
  /\ unseen = [r \in Requests |-> {}]

\* The members of keep in a sequence, in their order.
Filter(s, keep) ==
  LET picks == {i \in DOMAIN s : s[i] \in keep}
      Rank(i) == Cardinality({j \in picks : j <= i})
  IN  [k \in 1..Cardinality(picks) |-> s[CHOOSE i \in picks : Rank(i) = k]]

At(r, point) == pc[r] = point
GoTo(r, point) == pc' = [pc EXCEPT ![r] = point]

Mapped(r) == cache[mgr[r]].mapped
Listed(r) == cache[mgr[r]].listed

\* Other requests at one of the points with the same manager.
Rivals(r, points) ==
  {q \in Requests \ {r} : pc[q] \in points /\ mgr[q] = mgr[r]}

Iterating(m) == {q \in Requests : pc[q] \in {"serialise", "visit"} /\ mgr[q] = m}

\* A change of the list of m by r invalidates the iterators of the others.
Invalidate(m, r) ==
  [q \in Requests |-> IF q \in Iterating(m) \ {r} /\ iter[q].state = "fresh"
                      THEN [iter[q] EXCEPT !.state = "changed"] ELSE iter[q]]

-----------------------------------------------------------------------------
(* getInstance(): the test, the assignment inside the lock, and the second *)
(* read of the field.                                                      *)

Begins(r) ==
  /\ At(r, "idle")
  /\ Cardinality({q \in Requests : pc[q] \notin {"idle", "done", "failed"}}) < Workers

TestInstance(r, a) ==
  /\ Begins(r)
  /\ ip' = [ip EXCEPT ![r] = a]
  /\ GoTo(r, IF instance = None THEN "create" ELSE "return")
  /\ UNCHANGED <<mgr, cs, iter, instance, cache, hits, old, history>>

CreateInstance(r) ==
  /\ At(r, "create")
  /\ instance' = r
  /\ GoTo(r, "return")
  /\ UNCHANGED <<threads, iter, cache, hits, old, history>>

ReturnInstance(r) ==
  /\ At(r, "return")
  /\ mgr' = [mgr EXCEPT ![r] = instance]
  /\ GoTo(r, "get")
  /\ UNCHANGED <<ip, cs, iter, instance, cache, hits, old, history>>

-----------------------------------------------------------------------------
(* addPageHit(): find or make the stream.                                  *)

Found(r) == {s \in Range(Mapped(r)) : ip[s] = ip[r]}

GetFinds(r) ==
  /\ At(r, "get")
  /\ \E s \in Found(r) : cs' = [cs EXCEPT ![r] = s]
  /\ GoTo(r, "hit")
  /\ UNCHANGED <<ip, mgr, iter, instance, cache, hits, old, history>>

\* A put that moves the table may hide an entry from a get.
GetMisses(r) ==
  /\ At(r, "get")
  /\ Found(r) = {} \/ Rivals(r, {"put"}) # {}
  /\ cs' = [cs EXCEPT ![r] = r]
  /\ raced' = IF Found(r) = {} THEN raced ELSE raced \cup {r}
  /\ unseen' = [unseen EXCEPT ![r] = {q \in Rivals(r, {"put"}) : ip[q] = ip[r]}]
  /\ GoTo(r, "put")
  /\ UNCHANGED <<ip, mgr, iter, instance, cache, hits, old>>

\* Serialising requests that are inside stream s.
Inside(s) ==
  {q \in Requests : /\ At(q, "serialise") /\ iter[q].state = "fresh"
                    /\ iter[q].cursor \in DOMAIN Listed(q)
                    /\ Listed(q)[iter[q].cursor] = s}

\* Fault: a hit is not added to a stream that is being saved.
AppendUnlessSaved(r) ==
  LET s == cs[r] IN
  /\ At(r, "hit")
  /\ hits' = IF Inside(s) # {} THEN hits ELSE [hits EXCEPT ![s] = @ \cup {r}]
  /\ GoTo(r, "checkFlush")
  /\ UNCHANGED <<threads, iter, instance, cache, old, history>>

\* The hit goes to the end of the hits of the stream, which breaks the iteration
\* of a save that is not yet past them.
AppendHit(r) ==
  LET s == cs[r] IN
  /\ At(r, "hit")
  /\ \/ hits' = [hits EXCEPT ![s] = @ \cup {r}] /\ UNCHANGED raced
     \/ /\ \E q \in Requests \ {r} : At(q, "hit") /\ cs[q] = s
        /\ raced' = raced \cup {r} /\ UNCHANGED hits
  /\ \E broken \in SUBSET Inside(s) :
       iter' = [q \in Requests |-> IF q \in broken
                  THEN [iter[q] EXCEPT !.state = "broken"] ELSE iter[q]]
  /\ GoTo(r, "checkFlush")
  /\ UNCHANGED <<threads, instance, cache, old, unseen>>

\* An entry of the address is replaced where it is; a new one goes to the end.
Entered(entries, s) ==
  LET same == {i \in DOMAIN entries : ip[entries[i]] = ip[s]}
  IN  IF same # {} THEN [i \in DOMAIN entries |-> IF i \in same THEN s ELSE entries[i]]
      ELSE Append(entries, s)

\* Fault: the eldest entry stays.
PutKeepsEldest(entries, s) == Entered(entries, s)

\* put() into the LinkedHashMap: the eldest entry goes when there are too many.
Put(entries, s) ==
  LET entered == Entered(entries, s)
  IN  IF Len(entered) > Len(entries) /\ Len(entered) > MAX_CLICKSTREAMS
      THEN Tail(entered) ELSE entered

\* The new stream, with its first hit, enters the map.
PutStream(r) ==
  /\ At(r, "put")
  /\ hits' = [hits EXCEPT ![r] = {r}]
  /\ \/ /\ ~cache[mgr[r]].mapTorn
        /\ cache' = [cache EXCEPT ![mgr[r]].mapped = Put(@, r)]
        /\ UNCHANGED raced
     \/ /\ cache[mgr[r]].mapTorn \/ Rivals(r, {"put", "visit"}) # {}
        /\ \E before \in {Mapped(r), Entered(Mapped(r), r)} : \E kept \in SUBSET Requests :
             LET after == Filter(before, kept) IN
             /\ cache' = [cache EXCEPT ![mgr[r]].mapped = after, ![mgr[r]].mapTorn = TRUE]
             /\ raced' = raced \cup (Range(Entered(Mapped(r), r)) \ Range(after))
  /\ GoTo(r, "add")
  /\ UNCHANGED <<threads, iter, instance, old, unseen>>

AddToList(r) ==
  /\ At(r, "add")
  /\ \/ /\ cache' = [cache EXCEPT ![mgr[r]].listed = Append(@, r)]
        /\ GoTo(r, "checkFlush")
        /\ UNCHANGED raced
     \/ /\ Rivals(r, {"add", "removeAll"}) # {}
        /\ \E after \in {Listed(r), Append(Listed(r), r)} :
             cache' = [cache EXCEPT ![mgr[r]].listed = after, ![mgr[r]].listTorn = TRUE]
        /\ raced' = raced \cup {r}
        /\ GoTo(r, "checkFlush") \/ GoTo(r, "failed")
  /\ iter' = Invalidate(mgr[r], r)
  /\ UNCHANGED <<threads, instance, hits, old, unseen>>

-----------------------------------------------------------------------------
(* Iterating over the list: hasNext() compares the position with the size, *)
(* next() throws a ConcurrentModificationException when the list has       *)
(* changed.                                                                *)
HasNext(r) == iter[r].cursor # Len(Listed(r))

\* The exception ends the request: only an IOException is caught.  A rotation also
\* ends with a NullPointerException when it reads a null.
Throws(r) ==
  /\ pc[r] \in {"serialise", "visit"}
  /\ \/ iter[r].state = "changed" /\ HasNext(r)
     \/ iter[r].state = "broken"
     \/ /\ At(r, "visit")
        /\ cache[mgr[r]].listTorn \/ Rivals(r, {"add", "removeAll"}) # {}
  /\ GoTo(r, "failed")
  /\ iter' = [iter EXCEPT ![r] = NewIter("done")]
  /\ UNCHANGED <<threads, instance, cache, hits, old, history>>

(* flush(): the list becomes JSON, the file is written, lastFlush is set.  *)
CheckFlush(r) ==
  /\ At(r, "checkFlush")
  /\ \E elapsed \in BOOLEAN :
       cache' = [cache EXCEPT ![mgr[r]].flushDue = @ \/ elapsed]
  /\ IF cache'[mgr[r]].flushDue
     THEN GoTo(r, "serialise") /\ iter' = [iter EXCEPT ![r] = NewIter("checkRotate")]
     ELSE GoTo(r, "checkRotate") /\ UNCHANGED iter
  /\ UNCHANGED <<threads, instance, hits, old, history>>

SerialiseNext(r) ==
  /\ At(r, "serialise") /\ iter[r].state = "fresh" /\ HasNext(r)
  /\ iter' = [iter EXCEPT ![r].cursor = @ + 1]
  /\ UNCHANGED <<pc, threads, instance, cache, hits, old, history>>

SerialiseEnd(r) ==
  /\ At(r, "serialise") /\ iter[r].state # "broken" /\ ~HasNext(r)
  /\ GoTo(r, "stamp")
  /\ UNCHANGED <<threads, iter, instance, cache, hits, old, history>>

StampFlush(r) ==
  /\ At(r, "stamp")
  /\ cache' = [cache EXCEPT ![mgr[r]].flushDue = FALSE]
  /\ GoTo(r, iter[r].next)
  /\ iter' = [iter EXCEPT ![r] = NewIter("done")]
  /\ UNCHANGED <<threads, instance, hits, old, history>>

-----------------------------------------------------------------------------
(* logRotate(): lastLogRotate is set, the list is gone through, the old    *)
(* streams are removed, and what is left is flushed.                       *)
CheckRotate(r) ==
  /\ At(r, "checkRotate")
  /\ \E elapsed \in BOOLEAN :
       cache' = [cache EXCEPT ![mgr[r]].rotateDue = @ \/ elapsed]
  /\ GoTo(r, IF cache'[mgr[r]].rotateDue THEN "rotate" ELSE "done")
  /\ UNCHANGED <<threads, iter, instance, hits, old, history>>

StartRotation(r) ==
  /\ At(r, "rotate")
  /\ cache' = [cache EXCEPT ![mgr[r]].rotateDue = FALSE]
  /\ iter' = [iter EXCEPT ![r] = NewIter("done")]
  /\ GoTo(r, "visit")
  /\ UNCHANGED <<threads, instance, hits, old, history>>

Without(entries, s) == Filter(entries, {e \in Requests : ip[e] # ip[s]})

Look(r) == /\ At(r, "visit") /\ iter[r].state = "fresh" /\ HasNext(r)

\* Fault: the entry stays in the map.
VisitKeepsEntry(r) ==
  LET s == Listed(r)[iter[r].cursor + 1] IN
  /\ Look(r)
  /\ old' \in {old, old \cup {s}}
  /\ iter' = [iter EXCEPT ![r].cursor = @ + 1, ![r].toRemove = @ \cup ({s} \cap old')]
  /\ UNCHANGED <<pc, threads, instance, cache, hits, history>>

\* Fault: the entries of young streams are removed too.
VisitForgetsYoung(r) ==
  LET s == Listed(r)[iter[r].cursor + 1] IN
  /\ Look(r)
  /\ old' \in {old, old \cup {s}}
  /\ iter' = [iter EXCEPT ![r].cursor = @ + 1, ![r].toRemove = @ \cup ({s} \cap old')]
  /\ cache' = [cache EXCEPT ![mgr[r]].mapped = Without(@, s)]
  /\ UNCHANGED <<pc, threads, instance, hits, history>>

\* An old stream is noted, and the entry of its address leaves the map.
Visit(r) ==
  LET s == Listed(r)[iter[r].cursor + 1] IN
  /\ Look(r)
  /\ old' \in {old, old \cup {s}}
  /\ iter' = [iter EXCEPT ![r].cursor = @ + 1, ![r].toRemove = @ \cup ({s} \cap old')]
  /\ \/ /\ cache' = [cache EXCEPT ![mgr[r]].mapped =
                       IF s \in old' THEN Without(@, s) ELSE @]
        /\ UNCHANGED raced
     \/ /\ s \in old' /\ Rivals(r, {"put", "visit"}) # {}
        /\ \E kept \in SUBSET Requests :
             LET after == Filter(Mapped(r), kept) IN
             /\ cache' = [cache EXCEPT ![mgr[r]].mapped = after, ![mgr[r]].mapTorn = TRUE]
             /\ raced' = raced \cup {s} \cup (Range(Mapped(r)) \ Range(after))
  /\ UNCHANGED <<pc, threads, instance, hits, unseen>>

VisitEnd(r) ==
  /\ At(r, "visit") /\ ~HasNext(r)
  /\ GoTo(r, "removeAll")
  /\ UNCHANGED <<threads, iter, instance, cache, hits, old, history>>

\* Fault: the streams seen in the iteration are removed, whatever their age.
KeptUnseen(r) == SubSeq(Listed(r), iter[r].cursor + 1, Len(Listed(r)))

Kept(r) == Filter(Listed(r), Requests \ iter[r].toRemove)

\* removeAll() moves the streams it keeps to the front of the array, one by one.
RemoveAll(r) ==
  LET after == cache'[mgr[r]].listed IN
  /\ At(r, "removeAll")
  /\ \/ /\ cache' = [cache EXCEPT ![mgr[r]].listed = Kept(r)]
        /\ GoTo(r, "serialise")
        /\ UNCHANGED raced
     \/ /\ Rivals(r, {"add", "removeAll"}) # {}
        /\ \E kept \in SUBSET Requests :
             cache' = [cache EXCEPT ![mgr[r]].listed = Filter(@, kept),
                                    ![mgr[r]].listTorn = TRUE]
        /\ raced' = raced \cup (Range(Kept(r)) \ Range(after))
        /\ GoTo(r, "serialise") \/ GoTo(r, "failed")
  /\ iter' = [(IF after = Listed(r) THEN iter ELSE Invalidate(mgr[r], r))
                EXCEPT ![r] = NewIter("done")]
  /\ UNCHANGED <<threads, instance, hits, old, unseen>>

-----------------------------------------------------------------------------
GetInstance(r) == \/ \E a \in Addresses : TestInstance(r, a)
                  \/ CreateInstance(r) \/ ReturnInstance(r)

Record(r) == \/ GetFinds(r) \/ GetMisses(r)
             \/ AppendHit(r) \/ PutStream(r) \/ AddToList(r)

Flush(r) == CheckFlush(r) \/ SerialiseNext(r) \/ SerialiseEnd(r) \/ StampFlush(r)

LogRotate(r) == \/ CheckRotate(r) \/ StartRotation(r)
                \/ Visit(r) \/ VisitEnd(r) \/ RemoveAll(r)

Next == \E r \in Requests :
          GetInstance(r) \/ Record(r) \/ Flush(r) \/ LogRotate(r) \/ Throws(r)

Spec == Init /\ [][Next]_vars

-----------------------------------------------------------------------------
(* Properties.                                                             *)
Points == {"idle", "create", "return", "get", "hit", "put", "add", "checkFlush",
           "serialise", "stamp", "checkRotate", "rotate", "visit", "removeAll",
           "done", "failed"}

Iterator == [cursor : Nat, state : {"fresh", "changed", "broken"},
             toRemove : SUBSET Requests, next : {"checkRotate", "done"}]

Cache == [mapped : Seq(Requests), listed : Seq(Requests),
          mapTorn : BOOLEAN, listTorn : BOOLEAN,
          flushDue : BOOLEAN, rotateDue : BOOLEAN]

\* Every variable has its type, and the map keeps its capacity until a race tears it.
TypeOK ==
  /\ pc \in [Requests -> Points]
  /\ ip \in [Requests -> Addresses \cup {None}]
  /\ mgr \in [Requests -> Requests \cup {None}]
  /\ cs \in [Requests -> Requests \cup {None}]
  /\ iter \in [Requests -> Iterator]
  /\ instance \in Requests \cup {None}
  /\ cache \in [Requests -> Cache]
  /\ \A m \in Requests :
       cache[m].mapTorn \/ Len(cache[m].mapped) <= MAX_CLICKSTREAMS
  /\ hits \in [Requests -> SUBSET Requests]
  /\ old \subseteq Requests /\ raced \subseteq Requests
  /\ unseen \in [Requests -> SUBSET Requests]

\* A stream that the map still offers to requests is in the list that is saved,
\* or about to get there: no rotation, also none that fails half way or runs
\* twice, leaves an entry whose hits would never be written.  Only a stream that a
\* data race took from the list, or whose removal from the map it undid, may be
\* offered and not saved.
EntriesAreSaved ==
  \A m \in Requests : \A s \in Range(cache[m].mapped) :
    s \in Range(cache[m].listed) \/ At(s, "add") \/ s \in raced

\* As long as the addresses fit into the map and no stream of the address has
\* grown old or met a data race, two streams of one address in one log come from
\* requests of which one looked for a stream while the other was about to put its
\* own.
SplitOnlyByOverlap ==
  Cardinality(Range(ip) \ {None}) <= MAX_CLICKSTREAMS =>
    \A m \in Requests : \A s, t \in Range(cache[m].listed) :
      s # t /\ ip[s] = ip[t] =>
        \/ s \in unseen[t] \/ t \in unseen[s]
        \/ \E u \in old \cup raced : ip[u] = ip[s]

\* The hit of a request that has ended, also of one that an exception of an
\* iteration ended, is in a stream of the list that the manager in use saves,
\* unless the stream is old and may have been rotated out, or a data race lost it.
\* A request that was given a manager which another one replaced loses its hit:
\* such requests are left out.
EndedHitsKept ==
  \A r \in Requests : pc[r] \in {"done", "failed"} /\ mgr[r] = instance =>
    \/ r \in raced
    \/ \E s \in Requests :
         /\ r \in hits[s]
         /\ s \in old \cup raced \/ At(s, "add") \/ s \in Range(cache[instance].listed)

\* A call on the list of a manager overlaps with one that another request makes.
Overlaps(r) ==
  pc[r] \in {"add", "removeAll"} /\ Rivals(r, {"add", "removeAll"}) # {}

\* A step takes a stream from the list only when a rotation has found it old, or
\* when two calls of add() and removeAll() overlap on that list.
OnlyOldDropped ==
  [][\A m \in Requests : \A s \in Range(cache[m].listed) \ Range(cache'[m].listed) :
       s \in old \/ \E r \in Requests : mgr[r] = m /\ Overlaps(r)]_vars

\* getInstance() gets a singleton: all requests are given the same manager.
OneManager == Cardinality(Range(mgr) \ {None}) <= 1

\* No request is in a rotation whose next step throws a
\* ConcurrentModificationException: its iteration is never disturbed.
NoConcurrentModification ==
  \A r \in Requests :
    ~(At(r, "visit") /\ iter[r].state = "changed" /\ HasNext(r))
=============================================================================
