------------------------------ MODULE AuditLog ------------------------------
(***************************************************************************)
(* The file backend of the audit log (abi/src/audit.rs): appends by any    *)
(* thread, one maintenance operation at a time (purge, log rotation,       *)
(* encryption at rest, key rotation), replication tasks with a checkpoint  *)
(* file each, and crashes.  The operating system lets appends fall between *)
(* any two file operations of a maintenance or replication task.           *)
(*                                                                         *)
(* An event is its number, which is also its timestamp.  A line of the log *)
(* is an event in plain JSON or under a key; Garbage stands for a line     *)
(* that is neither (overlapping writes, encryption of encrypted text).     *)
(***************************************************************************)
EXTENDS Sequences, FiniteSets, SequencesExt, Integers

CONSTANTS Keys, Replicas, MaxEvent, MaxLines, BatchSize, MaxRetries,
          MaxUpsets, MaxMemoryLines, Plain, Garbage

VARIABLES file,       \* lines of the log file
          exists,     \* whether the log file exists
          enc,        \* keys of the EncryptionConfig, the current one first
          job,        \* the maintenance operation under way
          rep,        \* the replication tasks
          checkpoint, \* content of the checkpoint files; Torn when unreadable
          uploaded,   \* history: events each remote store received
          moved,      \* history: lines have left their places in the log
          upsets,     \* maintenance operations begun, new configurations and crashes
          appends     \* lines written

vars == <<file, exists, enc, job, rep, checkpoint, uploaded, moved, upsets, appends>>
logVars == <<file, exists, appends>>
repVars == <<rep, checkpoint, uploaded>>

Events == 1..MaxEvent
Torn   == MaxLines + 1

Line(e, k) == [ev |-> e, key |-> k]
Idle  == [op |-> "idle"]
Off   == [pc |-> "off"]

Init == /\ file = <<>> /\ exists = TRUE
        /\ enc \in {<<>>} \cup {<<k>> : k \in Keys}
        /\ job = Idle
        /\ rep = [r \in Replicas |-> Off]
        /\ checkpoint = [r \in Replicas |-> Torn]
        /\ uploaded = [r \in Replicas |-> {}]
        /\ moved = FALSE /\ upsets = 0 /\ appends = 0

-----------------------------------------------------------------------------
(* The AuditLogBackend of the file: queries are operators on its lines.    *)

\* FileAuditLog::write appends JSON whatever the encryption configuration
\* says, and creates the file when it is not there.
write(e) == /\ appends < MaxLines /\ appends' = appends + 1
            /\ file' = (IF exists THEN file ELSE <<>>) \o <<Line(e, Plain)>>
            /\ exists' = TRUE
            /\ UNCHANGED <<enc, job, repVars, moved, upsets>>

Absent == MaxLines + 1

Matching(lines, start) ==
  SelectSeq([i \in 1..Len(lines) |-> lines[i].ev], LAMBDA e : e >= start)

Parses(lines) == \A i \in 1..Len(lines) : lines[i].key = Plain

\* InMemoryAuditLog::read: skip the offset, then truncate to the limit.
Page(m, offset, limit) ==
  LET o == IF offset = Absent THEN 0 ELSE offset
      n == IF limit = Absent \/ o + limit > Len(m) THEN Len(m) ELSE o + limit
  IN  SubSeq(m, o + 1, n)

\* The results the loop of FileAuditLog::read has when it stops: matches up to
\* the offset are taken unchecked, a later one ends the loop at the limit.
Collected(m, offset, limit) ==
  LET o == IF offset = Absent THEN 0 ELSE offset
      n == IF limit = Absent THEN Len(m) + 1 ELSE IF limit = 0 THEN o + 1 ELSE o + limit
  IN  [taken |-> IF n > Len(m) THEN Len(m) ELSE n, full |-> n <= Len(m), skip |-> o]

\* Whether some checked match of the loop exceeds max_memory_lines.
TooMany(c) == LET last == IF c.full THEN c.taken - 1 ELSE c.taken
              IN  last > c.skip /\ last > MaxMemoryLines

\* The lines the loop counts: not those it takes for the offset, nor its last.
Scanned(lines, start, c) ==
  LET hits(i) == Cardinality({j \in 1..i : lines[j].ev >= start})
      seen    == IF c.full THEN {i \in 1..Len(lines) : hits(i) < c.taken} ELSE 1..Len(lines)
  IN  {i \in seen : lines[i].ev < start \/ hits(i) > c.skip}

Failed == <<0>>

read(lines, start, offset, limit) ==
  LET m == Matching(lines, start)
      c == Collected(m, offset, limit)
  IN  IF \/ ~Parses(lines) \/ TooMany(c)
         \/ Cardinality(Scanned(lines, start, c)) > 2 * MaxMemoryLines
      THEN Failed
      ELSE Page(SubSeq(m, 1, c.taken), offset, limit)

-----------------------------------------------------------------------------
(* Maintenance.                                                            *)

Upset == upsets < MaxUpsets /\ upsets' = upsets + 1

Kept(lines, t) == SelectSeq(lines, LAMBDA l : l.ev >= t)

\* purge_before reads the whole file and stops at a line that is not JSON.
PurgeRead == /\ Upset /\ job = Idle /\ exists /\ Parses(file)
             /\ \E t \in 1..MaxEvent + 1 :
                  job' = [op |-> "purge", at |-> "truncate", rest |-> Kept(file, t)]
             /\ UNCHANGED <<logVars, enc, repVars, moved>>

PurgeTruncate == /\ job.op = "purge" /\ job.at = "truncate"
                 /\ file' = <<>> /\ exists' = TRUE
                 /\ job' = [job EXCEPT !.at = "write"]
                 /\ moved' = TRUE
                 /\ UNCHANGED <<enc, appends, repVars, upsets>>

\* The remaining lines go to the start of the file, over what was appended
\* since the truncation: of that a tail is left, its first line perhaps cut.
PurgeWrite ==
  /\ job.op = "purge" /\ job.at = "write"
  /\ \E k \in 0..Len(file), cut \in BOOLEAN :
       /\ job.rest = <<>> => k = 0 /\ ~cut
       /\ job.rest # <<>> => (k = 0 <=> file = <<>>)
       /\ cut => k > 0
       /\ file' = job.rest \o (IF cut THEN <<Line(file[k].ev, Garbage)>> ELSE <<>>)
                           \o SubSeq(file, k + 1, Len(file))
  /\ job' = Idle
  /\ UNCHANGED <<exists, appends, enc, repVars, moved, upsets>>

Encrypted(lines, k) ==
  [i \in 1..Len(lines) |-> Line(lines[i].ev, IF lines[i].key = Plain THEN k ELSE Garbage)]

\* encrypt_at_rest: refused when the configuration is set; otherwise reads the
\* lines and encrypts each into <log>.jsonl.tmp.
EncryptRead == /\ Upset /\ job = Idle /\ exists /\ enc = <<>>
               /\ \E k \in Keys : job' = [op |-> "encrypt", keys |-> <<k>>, rest |-> Encrypted(file, k)]
               /\ UNCHANGED <<logVars, enc, repVars, moved>>

\* decrypt_on_read succeeds when every line opens with one of the keys.
Decrypts(lines, keys) == \A i \in 1..Len(lines) : lines[i].key \in ToSet(keys)

\* rotate_encryption_key decrypts everything and encrypts it under a new key.
RotateKeyRead ==
  /\ Upset /\ job = Idle /\ exists /\ enc # <<>> /\ Decrypts(file, enc)
  /\ \E k \in Keys \ ToSet(enc) :
       job' = [op |-> "encrypt", keys |-> <<k>> \o enc,
               rest |-> [i \in 1..Len(file) |-> Line(file[i].ev, k)]]
  /\ UNCHANGED <<logVars, enc, repVars, moved>>

\* The temporary file replaces the log, then the configuration is updated.
Replace == /\ job.op = "encrypt"
           /\ file' = job.rest /\ exists' = TRUE
           /\ moved' = (moved \/ Len(job.rest) < Len(file))
           /\ enc' = job.keys /\ job' = Idle
           /\ UNCHANGED <<appends, repVars, upsets>>

\* rotate: remove the .old file, rename the log to it, create an empty log.
RotateRemove == /\ Upset /\ job = Idle
                /\ job' = [op |-> "rotate", at |-> "rename"]
                /\ UNCHANGED <<logVars, enc, repVars, moved>>

RotateRename == /\ job.op = "rotate" /\ job.at = "rename"
                /\ IF exists THEN file' = <<>> /\ exists' = FALSE /\ moved' = TRUE
                             ELSE UNCHANGED <<file, exists, moved>>
                /\ job' = [job EXCEPT !.at = "create"]
                /\ UNCHANGED <<enc, appends, repVars, upsets>>

RotateCreate == /\ job.op = "rotate" /\ job.at = "create"
                /\ file' = <<>> /\ exists' = TRUE /\ moved' = TRUE /\ job' = Idle
                /\ UNCHANGED <<enc, appends, repVars, upsets>>

\* enable_encryption and disable_encryption only change the configuration.
Configure == /\ Upset /\ job = Idle
             /\ \E keys \in {<<>>} \cup {<<k>> : k \in Keys} : enc' = keys
             /\ UNCHANGED <<logVars, job, repVars, moved>>

-----------------------------------------------------------------------------
(* Replication: s3_replication_task and postgres_replication_task.         *)

\* The lines after the first n that are JSON, each event once, BATCH_SIZE of
\* them at most.
Batch(n) ==
  LET fresh == {i \in n + 1..Len(file) :
                  /\ file[i].key = Plain
                  /\ \A j \in n + 1..i - 1 : file[j] # file[i]}
  IN  {file[i].ev : i \in {i \in fresh : Cardinality({j \in fresh : j <= i}) <= BatchSize}}

\* An unreadable checkpoint counts as 0.
Start(r) == /\ rep[r].pc = "off"
            /\ rep' = [rep EXCEPT ![r] = [pc |-> "read",
                         offset |-> IF checkpoint[r] = Torn THEN 0 ELSE checkpoint[r]]]
            /\ UNCHANGED <<logVars, enc, job, checkpoint, uploaded, moved, upsets>>

ReadBatch(r) ==
  /\ rep[r].pc = "read" /\ exists /\ Batch(rep[r].offset) # {}
  /\ rep' = [rep EXCEPT ![r] = [pc |-> "send", offset |-> @.offset,
                                batch |-> Batch(@.offset), retries |-> 0]]
  /\ UNCHANGED <<logVars, enc, job, checkpoint, uploaded, moved, upsets>>

Upload(r) == /\ rep[r].pc = "send"
             /\ uploaded' = [uploaded EXCEPT ![r] = @ \cup rep[r].batch]
             /\ rep' = [rep EXCEPT ![r] = [pc |-> "save", offset |-> @.offset + Cardinality(@.batch)]]
             /\ UNCHANGED <<logVars, enc, job, checkpoint, moved, upsets>>

UploadGivesUp(r) ==
  /\ rep[r].pc = "send"
  /\ rep' = [rep EXCEPT ![r] = IF @.retries < MaxRetries
                                 THEN [@ EXCEPT !.retries = rep[r].retries + 1]
                                 ELSE [pc |-> "save", offset |-> @.offset + Cardinality(@.batch)]]
  /\ UNCHANGED <<logVars, enc, job, checkpoint, uploaded, moved, upsets>>

\* A failed upload is repeated MAX_RETRIES times, then read again from the log.
UploadFails(r) ==
  /\ rep[r].pc = "send"
  /\ rep' = [rep EXCEPT ![r] = IF @.retries < MaxRetries
                                 THEN [@ EXCEPT !.retries = rep[r].retries + 1]
                                 ELSE [pc |-> "read", offset |-> @.offset]]
  /\ UNCHANGED <<logVars, enc, job, checkpoint, uploaded, moved, upsets>>

\* fs::write truncates the checkpoint and then writes it; its error is ignored.
SaveTruncate(r) == /\ rep[r].pc = "save"
                   /\ checkpoint' = [checkpoint EXCEPT ![r] = Torn]
                   /\ rep' = [rep EXCEPT ![r].pc = "saving"]
                   /\ UNCHANGED <<logVars, enc, job, uploaded, moved, upsets>>

SaveFails(r) == /\ rep[r].pc \in {"save", "saving"}
                /\ rep' = [rep EXCEPT ![r] = [pc |-> "read", offset |-> @.offset]]
                /\ UNCHANGED <<logVars, enc, job, checkpoint, uploaded, moved, upsets>>

Save(r) == /\ rep[r].pc = "saving"
           /\ checkpoint' = [checkpoint EXCEPT ![r] = rep[r].offset]
           /\ rep' = [rep EXCEPT ![r] = [pc |-> "read", offset |-> @.offset]]
           /\ UNCHANGED <<logVars, enc, job, uploaded, moved, upsets>>

\* The next process opens the log with or without a key.
Crash == /\ Upset
         /\ job' = Idle
         /\ rep' = [r \in Replicas |-> Off]
         /\ exists' = TRUE
         /\ \E keys \in {<<>>} \cup {<<k>> : k \in Keys} : enc' = keys
         /\ UNCHANGED <<file, appends, checkpoint, uploaded, moved>>

-----------------------------------------------------------------------------
Maintain == \/ PurgeRead \/ PurgeTruncate \/ PurgeWrite
            \/ EncryptRead \/ RotateKeyRead \/ Replace
            \/ RotateRemove \/ RotateRename \/ RotateCreate \/ Configure

Replicate(r) == \/ Start(r) \/ ReadBatch(r) \/ Upload(r) \/ UploadFails(r)
                \/ SaveTruncate(r) \/ SaveFails(r) \/ Save(r)

Next == \/ \E e \in Events : write(e)
        \/ Maintain
        \/ \E r \in Replicas : Replicate(r)
        \/ Crash

Spec == Init /\ [][Next]_vars

-----------------------------------------------------------------------------
TypeOK == /\ file \in Seq([ev : Events, key : Keys \cup {Plain, Garbage}])
          /\ exists \in BOOLEAN /\ moved \in BOOLEAN
          /\ ToSet(enc) \subseteq Keys
          /\ \A r \in Replicas : checkpoint[r] \in 0..Torn /\ uploaded[r] \subseteq Events

\* As long as no line has moved, a JSON line that a replication task counts as
\* done (below its offset or its checkpoint) is in the remote store: retries,
\* lost checkpoints, repeated events and crashes never skip one
\* (s3_replication_task, postgres_replication_task).
CheckpointSound ==
  ~moved => \A r \in Replicas, i \in 1..Len(file) :
    file[i].key = Plain =>
      /\ checkpoint[r] # Torn /\ i <= checkpoint[r] => file[i].ev \in uploaded[r]
      /\ rep[r].pc # "off" /\ i <= rep[r].offset => file[i].ev \in uploaded[r]

\* A query of the file answers as the in-memory log would on the same events,
\* or fails; it fails on JSON lines only when more than max_memory_lines match
\* or twice as many lines are in the file (FileAuditLog::read against InMemoryAuditLog::read).
QueriesAgree ==
  Parses(file) => \A start \in Events, o, l \in 0..Absent :
    LET m == Matching(file, start) IN
      /\ read(file, start, o, l) \in {Page(m, o, l), Failed}
      /\ read(file, start, o, l) = Failed =>
           Len(m) > MaxMemoryLines \/ Len(file) > 2 * MaxMemoryLines

-----------------------------------------------------------------------------
(***************************************************************************)
(* The in-memory audit log (abi/src/audit.rs) and the queries every        *)
(* backend inherits from AuditLogBackend: pages, counts, text search,      *)
(* statistics, time buckets and combined filters.                          *)
(*                                                                         *)
(* A text (plugin name, message, metadata) is the set of words in it, so   *)
(* that one text contains another when it is a superset; an odd word is    *)
(* the upper-case form of the even word below it.                          *)
(***************************************************************************)

CONSTANTS Names, Texts, Kinds, Severities, MaxTime, MaxEvents, MaxPage, MaxWritten, None

VARIABLES events,  \* the events of the log, oldest first
          written  \* history: what was written and neither purged nor cleared

memory_vars == <<events, written>>

Event == [plugin : Names, kind : Kinds, severity : Severities, time : 1..MaxTime, message : Texts]

MemoryInit == events = <<>> /\ written = <<>>

memory_write(e) == /\ Len(written) < MaxWritten
                   /\ written' = Append(written, e)
                   /\ LET all == Append(events, e)
                      IN  events' = SubSeq(all, 1 + (IF Len(all) > MaxEvents THEN Len(all) - MaxEvents ELSE 0), Len(all))

purge_before(t) == /\ events' = SelectSeq(events, LAMBDA e : e.time >= t)
                   /\ written' = SelectSeq(written, LAMBDA e : e.time >= t)

clear == events' = <<>> /\ written' = <<>>

-----------------------------------------------------------------------------
Filters == [plugin : Names \cup {None}, kind : Kinds \cup {None}, severity : Severities \cup {None},
            start : 1..MaxTime \cup {None}, end : 1..MaxTime \cup {None}]

Everything == [plugin |-> None, kind |-> None, severity |-> None, start |-> None, end |-> None]

\* AuditLogFilter::matches; kind stands for the type, stage and recovery
\* action, which are all compared for equality.
matches(f, e) == /\ f.plugin # None => f.plugin \subseteq e.plugin
                 /\ f.kind # None => e.kind = f.kind
                 /\ f.severity # None => e.severity >= f.severity
                 /\ f.start # None => e.time >= f.start
                 /\ f.end # None => e.time <= f.end

MemoryPage(s, limit, offset) ==
  LET rest == IF offset = None THEN s ELSE SubSeq(s, offset + 1, Len(s))
  IN  IF limit = None \/ limit >= Len(rest) THEN rest ELSE SubSeq(rest, 1, limit)

memory_read(f, limit, offset) == MemoryPage(SelectSeq(events, LAMBDA e : matches(f, e)), limit, offset)

count(f) == Len(memory_read(f, None, None))

Lower(text) == {w - (w % 2) : w \in text}

\* FullTextSearchQuery::matches, on the message; the metadata is a second text.
TextMatches(term, sensitive, e) ==
  IF sensitive THEN term \subseteq e.message ELSE Lower(term) \subseteq Lower(e.message)

search(term, sensitive, f) == SelectSeq(memory_read(f, None, None), LAMBDA e : TextMatches(term, sensitive, e))

\* EventStatistics::from_events; the "most common" type is the first event's.
Statistics(s) ==
  [total |-> Len(s),
   at    |-> [v \in Severities |-> Cardinality({i \in 1..Len(s) : s[i].severity = v})],
   times |-> {s[i].time : i \in 1..Len(s)},
   plugins |-> Cardinality({s[i].plugin : i \in 1..Len(s)}),
   common |-> IF s = <<>> THEN None ELSE s[1].kind]

RoundedBucketTime(t, size) == ((t + size \div 2) \div size) * size

get_bucket_time(t, size) == (t \div size) * size

\* aggregate_events: a bucket per period in which something happened.
Aggregate(s, size) ==
  [b \in {get_bucket_time(s[i].time, size) : i \in 1..Len(s)} |->
     Statistics(SelectSeq(s, LAMBDA e : get_bucket_time(e.time, size) = b)).at]

\* FilterLogic: fs are filters with the operator that joins each to the ones
\* before it; equal operators throughout make a plain And or Or.
Combined(fs, e) ==
  LET n == Len(fs)
      all_and == \A i \in 1..n : fs[i].is_and
      all_or  == \A i \in 1..n : ~fs[i].is_and
      hit(i)  == matches(fs[i].filter, e)
      upto[i \in 0..n] == IF i = 0 THEN FALSE ELSE IF i = 1 THEN hit(1)
                          ELSE IF fs[i].is_and THEN upto[i - 1] /\ hit(i) ELSE upto[i - 1] \/ hit(i)
  IN  IF all_and THEN \A i \in 1..n : hit(i)
      ELSE IF all_or THEN \E i \in 1..n : hit(i) ELSE upto[n]

\* query_complex reads limit events (1000 without one) before it filters them.
query_complex(fs, limit, offset) ==
  MemoryPage(SelectSeq(memory_read(Everything, IF limit = None THEN 1000 ELSE limit, None),
                 LAMBDA e : Combined(fs, e)), limit, offset)

-----------------------------------------------------------------------------
MemoryNext == \/ \E e \in Event : memory_write(e)
              \/ \E t \in 1..MaxTime + 1 : purge_before(t)
              \/ clear

MemorySpec == MemoryInit /\ [][MemoryNext]_memory_vars

-----------------------------------------------------------------------------
\* The log holds the newest events written, in order, and the queries agree on
\* them: a bucket counts what a filter on its period finds, the statistics
\* and the severities of the buckets add up, a case-insensitive search finds
\* what the exact one does, and query_complex answers a part of what the
\* combined filter selects, all of it when the limit is not below the size of
\* the log (InMemoryAuditLog, AuditLogBackend, TimeSeriesAggregation, FilterLogic).
AnswersAgree ==
  LET size == 2
      buckets == Aggregate(events, size)
      \* filters that differ in one field, enough to join
      some == {[Everything EXCEPT !.severity = v] : v \in Severities}
                \cup {[Everything EXCEPT !.plugin = p] : p \in Names}
      is_part(s, t) == \A i \in 1..Len(s) :
        Cardinality({j \in 1..Len(s) : s[j] = s[i]}) <= Cardinality({j \in 1..Len(t) : t[j] = s[i]})
  IN
  /\ IsSuffix(events, written) /\ Len(events) <= MaxEvents
  /\ \A v \in Severities, b \in DOMAIN buckets :
       LET in_period == [Everything EXCEPT !.start = b, !.end = b + size - 1]
       IN  buckets[b][v] = Len(SelectSeq(memory_read(in_period, None, None), LAMBDA e : e.severity = v))
  /\ \A v \in Severities :
       count([Everything EXCEPT !.severity = v])
         = Cardinality({i \in 1..Len(events) : events[i].severity \in {u \in Severities : u >= v}})
  /\ \A term \in Texts :
       is_part(search(term, TRUE, Everything), search(term, FALSE, Everything))
  /\ \A f, g \in some, op \in BOOLEAN, l \in 0..MaxPage \cup {None}, o \in 0..MaxPage \cup {None} :
       LET fs == <<[filter |-> f, is_and |-> op], [filter |-> g, is_and |-> op]>>
           exact == SelectSeq(events, LAMBDA e : IF op THEN matches(f, e) /\ matches(g, e)
                                                 ELSE matches(f, e) \/ matches(g, e))
       IN  /\ is_part(query_complex(fs, l, o), exact)
           /\ l = None \/ l >= Len(events) => query_complex(fs, l, o) = MemoryPage(exact, l, o)
=============================================================================
