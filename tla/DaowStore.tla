----------------------------- MODULE DaowStore -----------------------------
(***************************************************************************)
(* The SQLite journal store (journal_daow.rs): an in-memory journal per    *)
(* path in front of a database, a writer that flushes what is pending, the *)
(* cold read of a path, its passivation and its purge.                     *)
(*                                                                         *)
(* Appends take only the lock of the buffers; flush, load, passivation,    *)
(* scan and purge hold the drain lock from start to end and interleave     *)
(* with appends at their awaits.  The callers are one loop task per path,  *)
(* which loads before it appends, and the projectors' catch-up.            *)
(***************************************************************************)
EXTENDS Integers, Sequences, FiniteSets, Functions

CONSTANTS
  Paths,       \* the actors' paths
  Projectors,  \* those that record catch-ups
  Recorded,    \* the origin of a decision
  Nobody,      \* no path: the writer holds the drain lock, nothing is asked
  MaxFacts,    \* MODEL BOUND: facts recorded
  MaxBatch,    \* MODEL BOUND: facts of one append
  Budgets      \* MODEL BOUND: how often each of Rare may happen, one choice per run

Rare ==
  {"scan",     \* a projector scans the store
   "write",    \* a transaction fails
   "read",     \* a cold read fails
   "purge",    \* a journal is purged
   "half",     \* a purge fails between its two deletes
   "abort",    \* the task of a loop is aborted inside the store
   "death",    \* the process dies
   "memo"}     \* a snapshot is appended

ASSUME DaowAssumption ==
  /\ Projectors \subseteq Paths
  /\ Nobody \notin Paths
  /\ Recorded \notin [source : Paths, seq : Nat]
  /\ {MaxFacts, MaxBatch} \subseteq Nat
  /\ Budgets \subseteq [Rare -> Nat]

VARIABLES
  bufs,     \* Shared.journals: the buffers there are, by path
  db,       \* the tables, by path: the event rows, the highest snapshot
  drain,    \* who holds the drain lock and how far it is
  ingest,   \* the next ingest_seq
  client,   \* each path's loop task: "down", "live" or "leaving"
  asked,    \* the catch-up a loop is checking in the database, or Nobody
  minted,   \* facts recorded so far
  left,     \* how often each of Rare may still happen
  sliced,   \* a passivation has flushed its path alone since the last flush
  halved    \* the paths whose last purge failed halfway

vars == <<bufs, db, drain, ingest, client, asked, minted, left, sliced, halved>>

NoMemo == -1

Free == [op |-> "free"]

Spend(what) ==
  /\ left[what] > 0
  /\ left' = [left EXCEPT ![what] = @ - 1]

(***************************************************************************)
(* Journals.  An entry is an event or a snapshot, anchored at the last     *)
(* event it folded.                                                        *)
(***************************************************************************)
Event(seq, fact, origin, arrival) ==
  [seq |-> seq, fact |-> fact, origin |-> origin, ingest |-> arrival]

Memo(seq) == [memo |-> seq]

IsEvent(entry) == "fact" \in DOMAIN entry

Rows(entries) == {e \in Range(entries) : IsEvent(e)}

NextSeq(entries) == Cardinality(Rows(entries))

LastMemo(entries) ==
  LET memos == {i \in DOMAIN entries : ~IsEvent(entries[i])}
  IN  IF memos = {} THEN NoMemo
      ELSE entries[CHOOSE i \in memos : \A k \in memos : k <= i].memo

HoldsOrigin(rows, origin) == \E r \in rows : r.origin = origin

(* rebuild_journal: the rows in order, numbered afresh, then the snapshot. *)
Rebuild(stored) ==
  LET rank(r) == Cardinality({s \in stored.rows : s.seq < r.seq})
      entry(i) == [(CHOOSE r \in stored.rows : rank(r) = i - 1) EXCEPT !.seq = i - 1]
  IN  [i \in 1 .. Cardinality(stored.rows) |-> entry(i)]
        \o (IF stored.memo = NoMemo THEN <<>> ELSE <<Memo(stored.memo)>>)

(***************************************************************************)
(* Buffers.                                                                *)
(***************************************************************************)
Buffer(entries, flushed) ==
  [journal |-> entries, flushed |-> flushed, drop |-> FALSE, activating |-> FALSE]

NewBuffer == Buffer(<<>>, 0)
Placeholder == [NewBuffer EXCEPT !.activating = TRUE]
Durable(entries) == Buffer(entries, Len(entries))

Buffered(p) == p \in DOMAIN bufs
Ready(p) == Buffered(p) /\ ~bufs[p].activating

(* mutable_buffer: the placeholder of a cold read refuses.                 *)
Writable(p) == Buffered(p) => Ready(p)
BufferOf(p) == IF Buffered(p) THEN bufs[p] ELSE NewBuffer

Install(p, b) == bufs' = [x \in DOMAIN bufs \cup {p} |-> IF x = p THEN b ELSE bufs[x]]
Remove(p) == bufs' = Restrict(bufs, DOMAIN bufs \ {p})

Pending(p) == Buffered(p) /\ bufs[p].flushed # Len(bufs[p].journal)

(* What one path contributes to collect_pending.                           *)
Batch(b) ==
  LET fresh == SubSeq(b.journal, b.flushed + 1, Len(b.journal))
  IN  [rows |-> Rows(fresh), memo |-> LastMemo(fresh),
       end  |-> Len(b.journal), drop |-> b.drop]

(* Mutant of Collect: a transaction for one path at a time.                *)
CollectOne(targets) ==
  LET pending == {q \in targets : Pending(q)}
      one == CHOOSE p \in pending : TRUE
  IN  [p \in {one} \cap pending |-> Batch(bufs[p])]

Collect(targets) == [p \in {q \in targets : Pending(q)} |-> Batch(bufs[p])]

(* What a load of the path answers, or would once the database is read.    *)
Answer(p) == IF Ready(p) THEN bufs[p].journal ELSE Rebuild(db[p])

AnswerRows(p) == Rows(Answer(p))

TypeOK ==
  LET row == [seq : Nat, fact : 1 .. MaxFacts, ingest : Nat,
              origin : {Recorded} \cup [source : Paths, seq : Nat]]
  IN  /\ DOMAIN bufs \subseteq Paths
      /\ \A p \in DOMAIN bufs :
           /\ Rows(bufs[p].journal) \subseteq row
           /\ \A i \in DOMAIN bufs[p].journal :
                ~IsEvent(bufs[p].journal[i]) => bufs[p].journal[i].memo \in Nat
           /\ bufs[p].flushed \in 0 .. Len(bufs[p].journal)
           /\ {bufs[p].drop, bufs[p].activating} \subseteq BOOLEAN
      /\ \A p \in Paths : db[p].rows \subseteq row /\ db[p].memo \in Nat \cup {NoMemo}
      /\ drain.op \in {"free", "flush", "passivated", "load", "scan"}
      /\ client \in [Paths -> {"down", "live", "leaving"}]
      /\ \A p \in Paths :
           asked[p] = Nobody \/ asked[p] \in [source : Paths, seq : Nat, fact : 1 .. MaxFacts]
      /\ ingest \in Nat /\ minted \in 0 .. MaxFacts
      /\ left \in [Rare -> Nat]
      /\ sliced \in BOOLEAN /\ halved \subseteq Paths

(* Shared::build over an empty database.                                   *)
Init ==
  /\ bufs = [p \in {} |-> NewBuffer]
  /\ db = [p \in Paths |-> [rows |-> {}, memo |-> NoMemo]]
  /\ drain = Free
  /\ ingest = 1
  /\ client = [p \in Paths |-> "down"]
  /\ asked = [p \in Paths |-> Nobody]
  /\ minted = 0
  /\ left \in Budgets
  /\ sliced = FALSE /\ halved = {}

(***************************************************************************)
(* The loop task of a path, between its loads.                             *)
(***************************************************************************)
(* buffer_append: a batch of decisions, acknowledged from memory.          *)
AppendFacts(p) ==
  /\ client[p] = "live" /\ asked[p] = Nobody
  /\ Writable(p)
  /\ \E n \in 1 .. MaxBatch :
       LET entries == BufferOf(p).journal
           fresh == [i \in 1 .. n |->
                      Event(NextSeq(entries) + i - 1, minted + i, Recorded, ingest + i - 1)]
       IN  /\ minted + n <= MaxFacts
           /\ Install(p, [BufferOf(p) EXCEPT !.journal = @ \o fresh])
           /\ minted' = minted + n
           /\ ingest' = ingest + n
  /\ UNCHANGED <<db, drain, client, asked, left, sliced, halved>>

(* append_catchup, first phase: the fact of another path, live or scanned, *)
(* that the buffer does not hold.                                          *)
AskOrigin(p) ==
  /\ p \in Projectors
  /\ client[p] = "live" /\ asked[p] = Nobody
  /\ Writable(p)
  /\ \E source \in Paths \ {p} : \E r \in AnswerRows(source) :
       /\ r.origin = Recorded
       /\ ~HoldsOrigin(Rows(BufferOf(p).journal), [source |-> source, seq |-> r.seq])
       /\ asked' = [asked EXCEPT ![p] = [source |-> source, seq |-> r.seq, fact |-> r.fact]]
  /\ Install(p, BufferOf(p))
  /\ UNCHANGED <<db, drain, ingest, client, minted, left, sliced, halved>>

(* append_catchup after the database has answered whether it has the       *)
(* origin.                                                                 *)
RecordOrigin(p) ==
  LET origin == [source |-> asked[p].source, seq |-> asked[p].seq]
      entries == BufferOf(p).journal
  IN  /\ asked[p] # Nobody
      /\ asked' = [asked EXCEPT ![p] = Nobody]
      /\ \/ /\ HoldsOrigin(db[p].rows, origin)
            /\ UNCHANGED <<bufs, ingest>>
         \/ /\ ~HoldsOrigin(db[p].rows, origin)
            /\ Writable(p)
            /\ Install(p, [BufferOf(p) EXCEPT !.journal =
                 Append(@, Event(NextSeq(entries), asked[p].fact, origin, ingest))])
            /\ ingest' = ingest + 1
      /\ UNCHANGED <<db, drain, client, minted, left, sliced, halved>>

(* append_snapshot at the last fact; a projector's anchors are not         *)
(* modelled.                                                               *)
AppendSnapshot(p) ==
  LET last == NextSeq(BufferOf(p).journal) - 1
  IN  /\ p \notin Projectors
      /\ client[p] = "live"
      /\ Writable(p)
      /\ last >= 0
      /\ Install(p, [BufferOf(p) EXCEPT !.journal = Append(@, Memo(last))])
      /\ Spend("memo")
      /\ UNCHANGED <<db, drain, ingest, client, asked, minted, sliced, halved>>

(* The loop crashes, is stopped, or gives up on a refused append.          *)
Leave(p) ==
  /\ client[p] = "live"
  /\ client' = [client EXCEPT ![p] = "down"]
  /\ asked' = [asked EXCEPT ![p] = Nobody]
  /\ UNCHANGED <<bufs, db, drain, ingest, minted, left, sliced, halved>>

(***************************************************************************)
(* load, by the path's loop task or, of a path known to hold facts, by a   *)
(* projector's catch-up (`qualifying').                                    *)
(***************************************************************************)
MayLoad(p, by) ==
  /\ drain = Free
  /\ IF by = "loop" THEN client[p] = "down"
     ELSE Projectors \ {p} # {} /\ AnswerRows(p) # {}

Loaded(p, by) ==
  client' = IF by = "loop" THEN [client EXCEPT ![p] = "live"] ELSE client

(* Mutant of Keep: the mark stays.                                         *)
KeepMarked(b) == b

(* A retained buffer answers and is kept: the mark of a failed passivation *)
(* is taken off.                                                           *)
Keep(b) == [b EXCEPT !.drop = FALSE]

LoadRetained(p, by) ==
  /\ MayLoad(p, by)
  /\ Ready(p)
  /\ Install(p, Keep(bufs[p]))
  /\ Loaded(p, by)
  /\ UNCHANGED <<db, drain, ingest, asked, minted, left, sliced, halved>>

(* seed_buffer up to its await.                                            *)
LoadCold(p, by) ==
  /\ MayLoad(p, by)
  /\ ~Ready(p)
  /\ Install(p, Placeholder)
  /\ drain' = [op |-> "load", path |-> p, by |-> by]
  /\ UNCHANGED <<db, ingest, client, asked, minted, left, sliced, halved>>

FinishLoad ==
  /\ drain.op = "load"
  /\ LET p == drain.path
     IN  /\ IF db[p].rows = {} /\ db[p].memo = NoMemo
            THEN Remove(p)
            ELSE Install(p, Durable(Rebuild(db[p])))
         /\ Loaded(p, drain.by)
  /\ drain' = Free
  /\ UNCHANGED <<db, ingest, asked, minted, left, sliced, halved>>

(* The read fails and the placeholder stays.  recover_at_boot serves all   *)
(* the same, restart_es does not.                                          *)
FailLoad ==
  /\ drain.op = "load"
  /\ Spend("read")
  /\ \/ Loaded(drain.path, drain.by)
     \/ UNCHANGED client
  /\ drain' = Free
  /\ UNCHANGED <<bufs, db, ingest, asked, minted, sliced, halved>>

(***************************************************************************)
(* Flush and passivation: capture under the buffers' lock, one transaction *)
(* for every captured path, then the frontiers.                            *)
(***************************************************************************)
(* flush_cycle and flush.                                                  *)
BeginFlush ==
  /\ drain = Free
  /\ \E p \in Paths : Pending(p)
  /\ drain' = [op |-> "flush", path |-> Nobody, batches |-> Collect(Paths), written |-> FALSE]
  /\ UNCHANGED <<bufs, db, ingest, client, asked, minted, left, sliced, halved>>

(* passivated with something to flush: the batch is captured before the    *)
(* mark is set, so its own commit does not release the buffer.             *)
Passivate(p) ==
  /\ client[p] = "live" /\ asked[p] = Nobody
  /\ drain = Free
  /\ Pending(p)
  /\ drain' = [op |-> "passivated", path |-> p, batches |-> Collect({p}), written |-> FALSE]
  /\ Install(p, [bufs[p] EXCEPT !.drop = TRUE])
  /\ client' = [client EXCEPT ![p] = "leaving"]
  /\ UNCHANGED <<db, ingest, asked, minted, left, sliced, halved>>

(* passivated with nothing to flush: the buffer goes, whatever it is.      *)
PassivateDurable(p) ==
  /\ client[p] = "live" /\ asked[p] = Nobody
  /\ drain = Free
  /\ ~Pending(p)
  /\ Remove(p)
  /\ client' = [client EXCEPT ![p] = "down"]
  /\ UNCHANGED <<db, drain, ingest, asked, minted, left, sliced, halved>>

Writing == drain.op \in {"flush", "passivated"} /\ ~drain.written

(* Mutant of Clash: a row that is there already is an error.               *)
ClashAnyway(stored, batch) == \E r \in batch.rows, s \in stored.rows : r.seq = s.seq

(* verify_existing_event: the sequence number is taken by another row.     *)
Clash(stored, batch) == \E r \in batch.rows, s \in stored.rows : r.seq = s.seq /\ r # s

Conflict == \E p \in DOMAIN drain.batches : Clash(db[p], drain.batches[p])

(* The transaction commits: rows that are there already are left alone.    *)
Store ==
  /\ ~Conflict
  /\ db' = [p \in Paths |->
       IF p \in DOMAIN drain.batches
       THEN LET batch == drain.batches[p]
            IN  [rows |-> db[p].rows \cup batch.rows,
                 memo |-> IF batch.memo > db[p].memo THEN batch.memo ELSE db[p].memo]
       ELSE db[p]]
  /\ sliced' = (drain.op = "passivated")

(* The task that ran the store's call is gone or goes on without it.       *)
Released == client' = [p \in Paths |-> IF p = drain.path THEN "down" ELSE client[p]]

WriteTx ==
  /\ Writing
  /\ Store
  /\ drain' = [drain EXCEPT !.written = TRUE]
  /\ UNCHANGED <<bufs, ingest, client, asked, minted, left, halved>>

TxFails ==
  /\ Writing
  /\ IF Conflict THEN UNCHANGED left ELSE Spend("write")
  /\ drain' = Free
  /\ Released
  /\ UNCHANGED <<bufs, db, ingest, asked, minted, sliced, halved>>

(* Mutant of Advance: the frontier moves to the present end.               *)
AdvanceToPresent(b, batch) ==
  [b EXCEPT !.flushed = Len(b.journal), !.drop = @ /\ ~batch.drop]

(* commit_flush for one buffer: the frontier moves to the end of what was  *)
(* captured; a buffer marked when captured goes if nothing has come since. *)
Advance(b, batch) ==
  LET marked == b.drop /\ batch.drop
  IN  [b EXCEPT !.flushed = batch.end, !.drop = @ /\ ~marked]

Goes(b, batch) == b.drop /\ batch.drop /\ Len(b.journal) = batch.end

CommitFlush ==
  /\ drain.op \in {"flush", "passivated"} /\ drain.written
  /\ LET flushed == DOMAIN drain.batches \cap DOMAIN bufs
         gone == {p \in flushed : Goes(bufs[p], drain.batches[p])}
     IN  bufs' = [p \in DOMAIN bufs \ gone |->
           IF p \in flushed THEN Advance(bufs[p], drain.batches[p]) ELSE bufs[p]]
  /\ drain' = Free
  /\ Released
  /\ UNCHANGED <<db, ingest, asked, minted, left, sliced, halved>>

(***************************************************************************)
(* The rest of the drain lock's holders.                                   *)
(***************************************************************************)
(* purge, of a path whose loop has been stopped.                           *)
Purge(p) ==
  /\ client[p] = "down"
  /\ drain = Free
  /\ Spend("purge")
  /\ db' = [db EXCEPT ![p] = [rows |-> {}, memo |-> NoMemo]]
  /\ Remove(p)
  /\ halved' = halved \ {p}
  /\ UNCHANGED <<drain, ingest, client, asked, minted, sliced>>

(* The two deletes are no transaction: the second may fail after the first *)
(* and the buffer stays.                                                   *)
PurgeHalf(p) ==
  /\ client[p] = "down"
  /\ drain = Free
  /\ Spend("half")
  /\ db' = [db EXCEPT ![p].rows = {}]
  /\ halved' = halved \cup {p}
  /\ UNCHANGED <<bufs, drain, ingest, client, asked, minted, sliced>>

Recordings(p, rows) == {<<p, r>> : r \in {x \in rows : x.origin = Recorded}}

(* scan: the rows of the database, then what the buffers have besides.     *)
BeginScan ==
  /\ drain = Free
  /\ Spend("scan")
  /\ drain' = [op |-> "scan", rows |-> UNION {Recordings(p, db[p].rows) : p \in Paths}]
  /\ UNCHANGED <<bufs, db, ingest, client, asked, minted, sliced, halved>>

(* Mutant of Unseen: buffers marked for release are passed over.           *)
UnseenUnmarked(p, rows) ==
  {f \in Recordings(p, Rows(bufs[p].journal)) :
     ~bufs[p].drop /\ ~\E seen \in rows : seen[1] = p /\ seen[2].seq = f[2].seq}

Unseen(p, rows) ==
  {f \in Recordings(p, Rows(bufs[p].journal)) :
     ~\E seen \in rows : seen[1] = p /\ seen[2].seq = f[2].seq}

ScanAnswer(rows) == rows \cup UNION {Unseen(p, rows) : p \in DOMAIN bufs}

EndScan ==
  /\ drain.op = "scan"
  /\ drain' = Free
  /\ UNCHANGED <<bufs, db, ingest, client, asked, minted, left, sliced, halved>>

(* The loop's task is aborted (stop_bounded) while the store works for it: *)
(* the lock is released, the transaction may have committed or not.        *)
Abort ==
  /\ \/ drain.op = "load" /\ drain.by = "loop" /\ UNCHANGED <<db, sliced>>
     \/ /\ drain.op = "passivated"
        /\ \/ UNCHANGED <<db, sliced>>
           \/ Writing /\ Store
  /\ Spend("abort")
  /\ Released
  /\ drain' = Free
  /\ UNCHANGED <<bufs, ingest, asked, minted, halved>>

(* Mutant of NextIngest: the highest ingest_seq is given again.            *)
IngestAgain ==
  LET stored == {r.ingest : r \in UNION {db[p].rows : p \in Paths}}
  IN  IF stored = {} THEN 1 ELSE CHOOSE n \in stored : \A m \in stored : m <= n

(* Shared::build: above the highest ingest_seq in the database.            *)
NextIngest ==
  LET stored == {r.ingest : r \in UNION {db[p].rows : p \in Paths}}
      highest == IF stored = {} THEN 0 ELSE CHOOSE n \in stored : \A m \in stored : m <= n
  IN  highest + 1

(* The process dies and a fresh one opens the database.                    *)
Die ==
  /\ Spend("death")
  /\ bufs' = [p \in {} |-> NewBuffer]
  /\ drain' = Free
  /\ ingest' = NextIngest
  /\ client' = [p \in Paths |-> "down"]
  /\ asked' = [p \in Paths |-> Nobody]
  /\ sliced' = FALSE
  /\ UNCHANGED <<db, minted, halved>>

Finish == WriteTx \/ TxFails \/ CommitFlush \/ FinishLoad \/ FailLoad \/ EndScan

Next ==
  \/ \E p \in Paths :
       \/ AppendFacts(p) \/ AskOrigin(p) \/ RecordOrigin(p) \/ AppendSnapshot(p) \/ Leave(p)
       \/ \E by \in {"loop", "catchUp"} : LoadRetained(p, by) \/ LoadCold(p, by)
       \/ Passivate(p) \/ PassivateDurable(p)
       \/ Purge(p) \/ PurgeHalf(p)
  \/ BeginFlush \/ BeginScan \/ Finish \/ Abort \/ Die

Spec == Init /\ [][Next]_vars

(* The drain lock is a fair one and the writer asks for it at every tick;  *)
(* who holds it goes on.                                                   *)
FairSpec == Spec /\ SF_vars(BeginFlush) /\ WF_vars(Finish)

(***************************************************************************)
(* Properties.                                                             *)
(***************************************************************************)
Sound == Paths \ halved

Facts(p) ==
  [i \in 1 .. NextSeq(Answer(p)) |->
     LET r == CHOOSE r \in AnswerRows(p) : r.seq = i - 1
     IN  [fact |-> r.fact, origin |-> r.origin]]

(* What the callers see.  A path whose purge failed halfway promises       *)
(* nothing until it is purged again.                                       *)
Journals == [p \in Paths |-> IF p \in halved THEN <<>> ELSE Facts(p)]
Anchors == [p \in Paths |-> IF p \in halved THEN NoMemo ELSE LastMemo(Answer(p))]

(* The store is a journal per path that only grows at its end: whatever    *)
(* flushes, failed transactions, aborted calls, passivations, cold loads   *)
(* and restarts of the process happen in between, load answers exactly the *)
(* facts acknowledged since the last purge, each seed once, or after a     *)
(* death of the process a beginning of them.                               *)
Abstract == INSTANCE JournalStore WITH
  events <- Journals, anchor <- Anchors, lives <- left["death"]

ImplementsJournalStore == Abstract!Spec

(* PathBuffer: "journal.entries()[..flushed_entry_count] is durable in     *)
(* SQLite", and the table holds nothing of the path that its journal does  *)
(* not, so that no later flush meets a row it did not write.               *)
FrontierDurable ==
  \A p \in Sound : Ready(p) =>
    LET b == bufs[p]
        behind == SubSeq(b.journal, 1, b.flushed)
    IN  /\ Rows(behind) \subseteq db[p].rows
        /\ LastMemo(behind) <= db[p].memo
        /\ db[p].rows \subseteq Rows(b.journal)

(* The arrival order is total over all paths and restarts, runs along each *)
(* journal, and the next append comes after all of it.                     *)
ArrivalOrder ==
  LET held == UNION {{<<p, r>> : r \in AnswerRows(p)} : p \in Sound}
  IN  \A f \in held :
        /\ f[2].ingest < ingest
        /\ \A g \in held \ {f} :
             /\ f[2].ingest # g[2].ingest
             /\ f[1] = g[1] => (f[2].seq < g[2].seq <=> f[2].ingest < g[2].ingest)

(* A death of the process loses the end of the arrival order and nothing   *)
(* before it: no fact outlives one that arrived earlier, on any path,      *)
(* unless a passivation has flushed its path ahead of the others.          *)
CutUnlessSliced ==
  ~sliced =>
    \A p, q \in Sound : \A r \in db[p].rows, s \in AnswerRows(q) :
      s.ingest < r.ingest => s \in db[q].rows

(* scan: wherever a path lives when the scan is made, in a buffer, in the  *)
(* table, or in both while it is marked for release, its decisions are     *)
(* found, and each once.                                                   *)
ScanExact ==
  drain.op = "scan" =>
    LET of(p, found) == {f \in found : f[1] = p}
    IN  \A p \in Sound :
          of(p, ScanAnswer(drain.rows)) = Recordings(p, AnswerRows(p))

(* Every acknowledged fact is flushed in the end, or purged, or lost to a  *)
(* death: transactions that fail, and calls aborted between the commit in  *)
(* the database and the frontier, are made good by a later flush.  After a *)
(* purge that failed halfway a path may block the flush of all.            *)
EventuallyFlushed ==
  (<>(halved # {})) \/ (\A p \in Paths : Pending(p) ~> ~Pending(p))

(* append_catchup skips an origin the journal holds as "the projector      *)
(* folded it live or seeded it earlier": the fact it holds under the       *)
(* origin is the one its source has there.                                 *)
CheckpointNamesItsFact ==
  \A p, q \in Sound : \A r \in AnswerRows(p), s \in AnswerRows(q) :
    r.origin = [source |-> q, seq |-> s.seq] => r.fact = s.fact
============================================================================
