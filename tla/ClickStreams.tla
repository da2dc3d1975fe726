----------------------------- MODULE ClickStreams -----------------------------
(***************************************************************************)
(* The click stream manager fed by one request at a time: the streams it   *)
(* keeps per visitor address, the size-limited map that finds them, the    *)
(* list that is saved, the periodic flush to the log file and the rotation *)
(* of that file.                                                           *)
(*                                                                         *)
(* Time is a number of ticks; a tick is longer than the handling of one    *)
(* request.  A stream is identified by its position in the order of        *)
(* creation, a page hit by its position in the order of arrival.           *)
(***************************************************************************)
EXTENDS Integers, Sequences, FiniteSets, FiniteSetsExt

CONSTANTS
  Addresses,            \* remote addresses of visitors
  Localhost,            \* the address of this host
  NoAddress,            \* a missing X-Forwarded-For header
  MAX_CLICKSTREAMS,     \* the capacity of clickStreamsByIp
  LOGGING_TIME_PERIOD,  \* ticks between two rotations
  MAX_SESSION_TIME,     \* age in ticks from which a rotation drops a stream
  FLUSH_PERIOD,         \* ticks between two flushes
  Minute,               \* ticks that share the name of a log file
  ReuseMinute,          \* whether a restart, or a rotation asked for from
                        \* outside, may come in the minute that names the file
  MaxTime, MaxHits, MaxRestarts   \* bounds

ASSUME ClickAssumption ==
  /\ Localhost \notin Addresses /\ NoAddress \notin Addresses
  /\ {MAX_CLICKSTREAMS, LOGGING_TIME_PERIOD, MAX_SESSION_TIME, FLUSH_PERIOD,
      Minute} \subseteq Nat \ {0}
  /\ Minute <= LOGGING_TIME_PERIOD /\ FLUSH_PERIOD <= MAX_SESSION_TIME
  /\ ReuseMinute \in BOOLEAN
  /\ {MaxTime, MaxHits, MaxRestarts} \subseteq Nat

VARIABLES
  now,       \* the clock
  hits,      \* the time of every page hit, in order of arrival
  streams,   \* every ClickStream of this process, in order of creation
  manager,   \* the fields of the ClickStreamManager
  disk,      \* the hits each log file holds
  lastSave,  \* history: how the saves of the last request that saved ended
  restarts   \* number of restarts

vars == <<now, hits, streams, manager, disk, lastSave, restarts>>

Ips == Addresses \cup {NoAddress}
Files == 0..(MaxTime \div Minute)
Hit == 1..MaxHits
Outcomes == {"ok", "unopened", "truncated"}

\* mapped is clickStreamsByIp, listed is clickStreams.  The map keeps insertion
\* order, which is the order of creation, and no stream is inserted twice.
NewManager(t) ==
  [mapped |-> {}, listed |-> {}, lastFlush |-> t, lastLogRotate |-> t]

Init == /\ now = 0 /\ hits = <<>> /\ streams = <<>>
        /\ manager = NewManager(0)
        /\ disk = [f \in Files |-> {}]
        /\ lastSave = "ok" /\ restarts = 0

-----------------------------------------------------------------------------
(* The parts of addPageHit(), each a function of the state it finds.       *)

\* Behind a proxy on this host the visitor's address is the forwarded one.
ClientIp(remote, forwarded) == IF remote = Localhost THEN forwarded ELSE remote

\* put(): the eldest entry goes when the map grows over its capacity.
Put(mapped, id) ==
  LET grown == mapped \cup {id} IN
  IF Cardinality(grown) > MAX_CLICKSTREAMS THEN grown \ {Min(grown)} ELSE grown

Found(ss, m, ip) == {i \in m.mapped : ss[i].ip = ip}

\* The stream of the address gets the hit; a new stream is made if none is found.
RecordStreams(ss, m, ip, hit) ==
  IF Found(ss, m, ip) # {}
  THEN [i \in DOMAIN ss |-> IF i \in Found(ss, m, ip)
                            THEN [ss[i] EXCEPT !.hits = @ \cup {hit}] ELSE ss[i]]
  ELSE Append(ss, [ip |-> ip, timeStamp |-> now, hits |-> {hit}])

RecordManager(ss, m, ip) ==
  IF Found(ss, m, ip) # {} THEN m
  ELSE [m EXCEPT !.mapped = Put(@, Len(ss) + 1),
                 !.listed = @ \cup {Len(ss) + 1}]

\* The name of the log file has the minute of the last rotation.
JsonFile(m) == m.lastLogRotate \div Minute

\* save() writes all listed streams over the file, or fails before or after
\* the file has been truncated.
Save(ss, m, d, outcome) ==
  LET content == UNION {ss[i].hits : i \in m.listed} IN
  CASE outcome = "ok"        -> [d EXCEPT ![JsonFile(m)] = content]
    [] outcome = "truncated" -> [d EXCEPT ![JsonFile(m)] = {}]
    [] OTHER                 -> d

\* Fault: lastFlush holds the time of the next flush.
FlushedAhead(m) == [m EXCEPT !.lastFlush = now + FLUSH_PERIOD]

\* flush() ignores that save() failed.
Flushed(m) == [m EXCEPT !.lastFlush = now]

\* logRotate() drops the old streams from the list and every entry of the map
\* that has the address of an old stream.
Old(ss, m) == {i \in m.listed : now - ss[i].timeStamp >= MAX_SESSION_TIME}

\* Fault: the old streams stay in the map.
RotatedListOnly(ss, m) ==
  [m EXCEPT !.lastLogRotate = now, !.listed = @ \ Old(ss, m)]

\* Fault: the map is emptied.
RotatedClearsMap(ss, m) ==
  [m EXCEPT !.lastLogRotate = now, !.mapped = {}, !.listed = @ \ Old(ss, m)]

\* Fault: no new json file is started.
RotatedSameFile(ss, m) ==
  LET ips == {ss[i].ip : i \in Old(ss, m)} IN
  [m EXCEPT !.mapped = {i \in @ : ss[i].ip \notin ips},
            !.listed = @ \ Old(ss, m)]

Rotated(ss, m) ==
  LET ips == {ss[i].ip : i \in Old(ss, m)} IN
  [m EXCEPT !.lastLogRotate = now,
            !.mapped = {i \in @ : ss[i].ip \notin ips},
            !.listed = @ \ Old(ss, m)]

FlushDue(m) == now - m.lastFlush >= FLUSH_PERIOD
RotateDue(m) == now - m.lastLogRotate >= LOGGING_TIME_PERIOD

\* The outcome of a request: the worst of its saves, if it saved at all.
Worst(outcomes) ==
  IF outcomes = {} THEN lastSave
  ELSE IF "truncated" \in outcomes THEN "truncated"
  ELSE IF "unopened" \in outcomes THEN "unopened" ELSE "ok"

\* Fault: the rotation comes before the flush.
HousekeepingRotatesFirst(ss, m, d, first, second) ==
  LET m1 == Rotated(ss, m) IN
  IF RotateDue(m)
  THEN [manager |-> Flushed(m1), disk |-> Save(ss, m1, d, first), outcomes |-> {first}]
  ELSE IF FlushDue(m)
  THEN [manager |-> Flushed(m), disk |-> Save(ss, m, d, second), outcomes |-> {second}]
  ELSE [manager |-> m, disk |-> d, outcomes |-> {}]

\* What a request leaves of manager m and disk d, once the hit is recorded.
Housekeeping(ss, m, d, first, second) ==
  LET m1 == IF FlushDue(m) THEN Flushed(m) ELSE m
      d1 == IF FlushDue(m) THEN Save(ss, m, d, first) ELSE d
      o1 == IF FlushDue(m) THEN {first} ELSE {}
      m2 == Rotated(ss, m1)
  IN  IF RotateDue(m1)
      THEN [manager |-> Flushed(m2), disk |-> Save(ss, m2, d1, second),
            outcomes |-> o1 \cup {second}]
      ELSE [manager |-> m1, disk |-> d1, outcomes |-> o1]

-----------------------------------------------------------------------------
AddPageHit(remote, forwarded, first, second) ==
  LET ip  == ClientIp(remote, forwarded)
      hit == Len(hits) + 1
      ss  == RecordStreams(streams, manager, ip, hit)
      m   == RecordManager(streams, manager, ip)
      end == Housekeeping(ss, m, disk, first, second)
  IN  /\ hit \in Hit
      /\ hits' = Append(hits, now)
      /\ streams' = ss
      /\ manager' = end.manager
      /\ disk' = end.disk
      /\ lastSave' = Worst(end.outcomes)
      /\ UNCHANGED <<now, restarts>>

\* logRotate() called by the owner of the manager.
LogRotate(outcome) ==
  LET m == Rotated(streams, manager) IN
  /\ ReuseMinute \/ JsonFile(manager) # now \div Minute
  /\ manager' = Flushed(m)
  /\ disk' = Save(streams, m, disk, outcome)
  /\ lastSave' = outcome
  /\ UNCHANGED <<now, hits, streams, restarts>>

\* The process ends and a new one makes its manager; nothing is read back.
Restart ==
  /\ restarts < MaxRestarts
  /\ ReuseMinute \/ JsonFile(manager) # now \div Minute
  /\ restarts' = restarts + 1
  /\ streams' = <<>>
  /\ manager' = NewManager(now)
  /\ lastSave' = "ok"
  /\ UNCHANGED <<now, hits, disk>>

Tick == /\ now < MaxTime
        /\ now' = now + 1
        /\ UNCHANGED <<hits, streams, manager, disk, lastSave, restarts>>

Next ==
  \/ \E remote \in Addresses \cup {Localhost}, forwarded \in Ips,
        first, second \in Outcomes :
       AddPageHit(remote, forwarded, first, second)
  \/ \E outcome \in Outcomes : LogRotate(outcome)
  \/ Restart
  \/ Tick

Spec == Init /\ [][Next]_vars

-----------------------------------------------------------------------------
(* Properties.                                                             *)
Saved == UNION {disk[f] : f \in Files}

Stream == [ip : Ips, timeStamp : 0..MaxTime, hits : SUBSET Hit]

\* Every variable has its type.
TypeOK ==
  /\ now \in 0..MaxTime
  /\ hits \in Seq(0..MaxTime) /\ Len(hits) <= MaxHits
  /\ streams \in Seq(Stream)
  /\ manager \in [mapped : SUBSET DOMAIN streams, listed : SUBSET DOMAIN streams,
                  lastFlush : 0..MaxTime, lastLogRotate : 0..MaxTime]
  /\ disk \in [Files -> SUBSET Hit]
  /\ lastSave \in Outcomes
  /\ restarts \in 0..MaxRestarts

\* The map and the list stay one cache: an entry that can still collect hits is
\* in the list that is saved, an address has one entry, and the capacity holds.
MapAgreesWithList ==
  /\ manager.mapped \subseteq manager.listed
  /\ \A i, j \in manager.mapped : streams[i].ip = streams[j].ip => i = j
  /\ Cardinality(manager.mapped) <= MAX_CLICKSTREAMS

\* As long as the addresses seen fit into the map, the log has one stream per
\* visitor, however often it is rotated.
OneStreamPerVisitor ==
  Cardinality({streams[i].ip : i \in DOMAIN streams}) <= MAX_CLICKSTREAMS =>
    \A i, j \in manager.listed : streams[i].ip = streams[j].ip => i = j

\* When a request whose saves succeeded has been handled, every hit it found in
\* the list that is older than the flush period is on disk: a rotation loses only
\* hits younger than that.  A save makes up for one that failed before, but not
\* for the streams that its own request has just rotated out.
OldHitsSaved ==
  [][hits' # hits /\ lastSave' = "ok" =>
       \A i \in manager.listed : \A h \in streams[i].hits :
         now - hits[h] >= FLUSH_PERIOD /\ (lastSave = "ok" \/ i \in manager'.listed) =>
           h \in Saved']_vars

\* What was written to a log file is not lost from disk, except by a save that
\* fails half way: a file is only overwritten by more of the same streams.
SavedHitsStay == [][lastSave' # "truncated" => Saved \subseteq Saved']_vars

\* A rotation removes old entries only: a stream that stays in the list stays
\* in the map.
RotationKeepsYoung ==
  [][manager'.lastLogRotate # manager.lastLogRotate /\ restarts' = restarts =>
       \A i \in manager.mapped \cap manager'.listed :
         i \in manager'.mapped \/ i = Min(manager.mapped)]_vars
=============================================================================
