------------------------------ MODULE EventBus ------------------------------
(***************************************************************************)
(* The durable event bus: the SQLite event store (events/store.py) and one *)
(* consumer of it, the poll loops that EventBus.subscribe starts under one *)
(* consumer name (events/bus.py), while other processes publish and the    *)
(* nightly sweep prunes old events.                                        *)
(*                                                                         *)
(* Granularity.  A method of EventStore runs under the store's lock and    *)
(* ends with a commit, so it is one step; several stores write the same    *)
(* file, one at a time.  The poll loop calls get_offset, read_since, the   *)
(* handler and commit_offset one by one, so these are steps of their own.  *)
(* A transaction that a raising append_many leaves open is modelled: its   *)
(* rows are in `tx` until the store commits anything else or is closed.    *)
(***************************************************************************)
EXTENDS Integers, FiniteSets

CONSTANTS
    Pub,           \* callers of publish and append_many
    Sub,           \* the poll loops of the consumer, one per subscribe() call
    Store,         \* EventStore objects: a connection and its process
    StoreOf,       \* the store each of them uses
    BatchSize,     \* subscribe(batch_size=...)
    MaxFailures,   \* _MAX_HANDLER_FAILURES
    MaxEvents,     \* BOUND on the events ever inserted
    MaxFaults      \* BOUND on faults: see Fault

ASSUME BusAssumption ==
    /\ StoreOf \in [Pub \cup Sub -> Store]
    /\ BatchSize \in Nat \ {0}
    /\ MaxFailures \in Nat \ {0}
    /\ MaxEvents \in Nat
    /\ MaxFaults \in Nat

VARIABLES
    rows,      \* the committed rows of events
    last,      \* sqlite_sequence: the largest seq ever committed
    tx,        \* of each store, the rows inserted and not committed
    offset,    \* consumer_offsets.last_seq of the consumer
    pc,        \* of each poll loop, what it does next
    stop,      \* of each poll loop, its stop flag
    off,       \* the offset get_offset returned
    batch,     \* the seqs of the batch still to be handled
    bad,       \* failures_at_seq: <<seq, count>>
    prune,     \* prune_before: "idle", or "delete" between archive and DELETE
    archived,  \* the seqs written to the archive file
    handled,   \* history: the handler returned for these seqs
    again,     \* history: ... more than once
    failures,  \* history: failed attempts at each seq, up to MaxFailures
    skipped,   \* history: given up as poison
    deleted,   \* history: deleted by prune_before
    late,      \* history: appended between archive and DELETE, past their cutoff
    faults     \* how many of the MaxFaults faults have happened

logVars  == <<rows, last, tx>>
loopVars == <<pc, stop, off, batch, bad>>
sweepVars == <<prune, archived, deleted>>
readVars == <<handled, again, failures, skipped>>
vars == <<logVars, offset, loopVars, sweepVars, readVars, late, faults>>

-----------------------------------------------------------------------------
Seqs(R) == { r.seq : r \in R }
Seq1    == 1..MaxEvents

\* `old`: created_at is before the prune cutoff.  `wanted`: the consumer
\* subscribed to this type.
Event == [seq : Nat \ {0}, old : BOOLEAN, wanted : BOOLEAN]

Init ==
    /\ rows = {} /\ last = 0 /\ tx = [s \in Store |-> {}]
    /\ offset = 0
    /\ pc = [t \in Sub |-> "off"]
    /\ stop = [t \in Sub |-> FALSE]
    /\ off = [t \in Sub |-> 0]
    /\ batch = [t \in Sub |-> {}]
    /\ bad = [t \in Sub |-> <<0, 0>>]
    /\ prune = "idle" /\ archived = {}
    /\ handled = {} /\ again = {} /\ skipped = {} /\ deleted = {}
    /\ failures = [n \in Seq1 |-> 0]
    /\ late = {} /\ faults = 0

\* A crash, a stop, a second loop under the same name, a raising call of the
\* database or of append_many, a caller-made created_at: each counts as one.
Fault == faults < MaxFaults /\ faults' = faults + 1

-----------------------------------------------------------------------------
(* The store.                                                              *)

\* One writer at a time: another store's open transaction holds the lock.
Locked(s) == \E r \in Store \ {s} : tx[r] # {}

\* Bug: INTEGER PRIMARY KEY without AUTOINCREMENT: one more than the largest.
NextSeqReused(s) ==
    LET all == Seqs(rows \cup tx[s])
    IN  IF all = {} THEN 1 ELSE 1 + (CHOOSE m \in all : \A n \in all : n <= m)

\* Bug: off by one, the numbering starts at 0.
NextSeqFromZero(s) == last + Cardinality(tx[s])

\* AUTOINCREMENT: a seq is never used again, whatever has been pruned.
NextSeq(s) == last + Cardinality(tx[s]) + 1

\* COMMIT on store s, with `new` inserted: what was left open goes with it.
Commit(s, new) ==
    /\ ~Locked(s)
    /\ rows' = rows \cup tx[s] \cup new
    /\ tx' = [tx EXCEPT ![s] = {}]
    /\ last' = last + Cardinality(tx[s]) + Cardinality(new)

\* append: one row, committed.  Its created_at was stamped with the envelope,
\* by the publisher (now) or by the caller (any time).
Append(p) ==
    LET s == StoreOf[p] IN
    /\ NextSeq(s) <= MaxEvents
    /\ \E w, o \in BOOLEAN :
         /\ Commit(s, {[seq |-> NextSeq(s), old |-> o, wanted |-> w]})
         /\ IF o THEN Fault ELSE UNCHANGED faults
         /\ late' = late \cup IF o /\ prune = "delete" THEN {NextSeq(s)} ELSE {}
    /\ UNCHANGED <<offset, loopVars, sweepVars, readVars>>

\* append_many raises after its first row went in (the next one is no
\* EventEnvelope, or repeats an id): nothing is committed or rolled back.
AppendManyRaises(p) ==
    LET s == StoreOf[p] IN
    /\ Fault
    /\ ~Locked(s)
    /\ NextSeq(s) <= MaxEvents
    /\ \E w \in BOOLEAN :
         tx' = [tx EXCEPT ![s] = @ \cup {[seq |-> NextSeq(s), old |-> FALSE, wanted |-> w]}]
    /\ UNCHANGED <<rows, last, offset, loopVars, sweepVars, readVars, late>>

\* The process of store s ends: SQLite rolls back, its loops are gone.  The
\* seqs are free again, so nothing that was said of them counts any more.
Ends(s) ==
    /\ tx' = [tx EXCEPT ![s] = {}]
    /\ pc' = [t \in Sub |-> IF StoreOf[t] = s THEN "off" ELSE pc[t]]
    /\ batch' = [t \in Sub |-> IF StoreOf[t] = s THEN {} ELSE batch[t]]
    /\ handled' = handled \ Seqs(tx[s])
    /\ again' = again \ Seqs(tx[s])
    /\ failures' = [n \in Seq1 |-> IF n \in Seqs(tx[s]) THEN 0 ELSE failures[n]]
    /\ UNCHANGED <<rows, last, offset, stop, off, bad, sweepVars, skipped, late>>

Crash(s) == Fault /\ Ends(s)

\* The caller of a raising append_many lets the exception end its process.
Unwinds(s) == tx[s] # {} /\ Ends(s) /\ UNCHANGED faults

-----------------------------------------------------------------------------
(* subscribe: the poll loop.                                               *)

Goto(t, label) == pc' = [pc EXCEPT ![t] = label]

\* The next event of the batch.
Current(t) == CHOOSE n \in batch[t] : \A m \in batch[t] : n <= m

\* A second loop under the name of a live one, say because stop() timed out
\* in join, is a fault.
Subscribe(t) ==
    /\ pc[t] = "off"
    /\ IF \A u \in Sub : pc[u] = "off" THEN UNCHANGED faults ELSE Fault
    /\ Goto(t, "poll")
    /\ stop' = [stop EXCEPT ![t] = FALSE]
    /\ bad' = [bad EXCEPT ![t] = <<0, 0>>]
    /\ UNCHANGED <<logVars, offset, off, batch, sweepVars, readVars, late>>

Stop(t) ==
    /\ Fault
    /\ pc[t] # "off" /\ ~stop[t]
    /\ stop' = [stop EXCEPT ![t] = TRUE]
    /\ UNCHANGED <<logVars, offset, pc, off, batch, bad, sweepVars, readVars, late>>

\* The flag is looked at before each poll and before each event.
Exit(t) ==
    /\ stop[t] /\ pc[t] \in {"poll", "handle"}
    /\ Goto(t, "off")
    /\ batch' = [batch EXCEPT ![t] = {}]
    /\ UNCHANGED <<logVars, offset, stop, off, bad, sweepVars, readVars, late, faults>>

GetOffset(t) ==
    /\ ~stop[t] /\ pc[t] = "poll"
    /\ off' = [off EXCEPT ![t] = offset]
    /\ Goto(t, "read")
    /\ UNCHANGED <<logVars, offset, stop, batch, bad, sweepVars, readVars, late, faults>>

\* What read_since can return: the connection sees its own open transaction.
Unread(t) == { r.seq : r \in { x \in rows \cup tx[StoreOf[t]] : x.wanted /\ x.seq > off[t] } }

\* ORDER BY seq LIMIT batch_size.
ReadSince(t) ==
    /\ pc[t] = "read"
    /\ batch' = [batch EXCEPT ![t] =
                    { n \in Unread(t) : Cardinality({ m \in Unread(t) : m < n }) < BatchSize }]
    /\ Goto(t, IF Unread(t) = {} THEN "poll" ELSE "handle")
    /\ UNCHANGED <<logVars, offset, stop, off, bad, sweepVars, readVars, late, faults>>

HandlerReturns(t) ==
    /\ ~stop[t] /\ pc[t] = "handle"
    /\ handled' = handled \cup {Current(t)}
    /\ again' = IF Current(t) \in handled THEN again \cup {Current(t)} ELSE again
    /\ Goto(t, "commit")
    /\ UNCHANGED <<logVars, offset, stop, off, batch, bad, sweepVars, failures, skipped,
                   late, faults>>

\* Bug: the count goes on whichever event fails.
CountOfAnyEvent(t) == IF bad[t][2] < MaxFailures THEN bad[t][2] + 1 ELSE MaxFailures

\* Bug: failures_at_seq is forgotten between two polls.
CountForgotten(t) == 1

\* Consecutive failures at the current event; only `>= MaxFailures` is asked.
Count(t) == IF bad[t][1] # Current(t) THEN 1
            ELSE IF bad[t][2] < MaxFailures THEN bad[t][2] + 1 ELSE MaxFailures

\* Bug: after a failure the loop goes on with the next event of the batch.
FailedAndOn(t) ==
    /\ bad' = [bad EXCEPT ![t] = <<Current(t), Count(t)>>]
    /\ failures' = [failures EXCEPT ![Current(t)] = IF @ < MaxFailures THEN @ + 1 ELSE @]
    /\ IF Count(t) >= MaxFailures
       THEN Goto(t, "skip") /\ UNCHANGED batch
       ELSE /\ batch' = [batch EXCEPT ![t] = @ \ {Current(t)}]
            /\ Goto(t, IF batch'[t] = {} THEN "poll" ELSE "handle")
    /\ UNCHANGED <<logVars, offset, stop, off, sweepVars, handled, again, skipped, late>>

\* The except branch: the rest of the batch is dropped and read again.
Failed(t) ==
    /\ bad' = [bad EXCEPT ![t] = <<Current(t), Count(t)>>]
    /\ failures' = [failures EXCEPT ![Current(t)] = IF @ < MaxFailures THEN @ + 1 ELSE @]
    /\ IF Count(t) >= MaxFailures
       THEN Goto(t, "skip") /\ UNCHANGED batch
       ELSE Goto(t, "poll") /\ batch' = [batch EXCEPT ![t] = {}]
    /\ UNCHANGED <<logVars, offset, stop, off, sweepVars, handled, again, skipped, late>>

HandlerRaises(t) == ~stop[t] /\ pc[t] = "handle" /\ Failed(t) /\ UNCHANGED faults

\* commit_offset is in the same try block as the handler.
CommitRaises(t) ==
    /\ pc[t] = "commit"
    /\ IF Locked(StoreOf[t]) THEN UNCHANGED faults ELSE Fault
    /\ Failed(t)

\* Bug: the offset of the event before is committed.
WriteOffsetBefore(t) == offset' = Current(t) - 1

\* The upsert is unconditional: whatever offset was there is overwritten.
WriteOffset(t) == offset' = Current(t)

CommitOffset(t) ==
    /\ pc[t] = "commit"
    /\ Commit(StoreOf[t], {})
    /\ WriteOffset(t)
    /\ bad' = [bad EXCEPT ![t] = <<0, 0>>]
    /\ batch' = [batch EXCEPT ![t] = @ \ {Current(t)}]
    /\ Goto(t, IF batch'[t] = {} THEN "poll" ELSE "handle")
    /\ UNCHANGED <<stop, off, sweepVars, readVars, late, faults>>

Skip(t) ==
    /\ pc[t] = "skip"
    /\ Commit(StoreOf[t], {})
    /\ WriteOffset(t)
    /\ skipped' = skipped \cup {Current(t)}
    /\ bad' = [bad EXCEPT ![t] = <<0, 0>>]
    /\ batch' = [batch EXCEPT ![t] = {}]
    /\ Goto(t, "poll")
    /\ UNCHANGED <<stop, off, sweepVars, handled, again, failures, late, faults>>

\* The outer except: failures_at_seq is kept.
SkipRaises(t) ==
    /\ pc[t] = "skip"
    /\ IF Locked(StoreOf[t]) THEN UNCHANGED faults ELSE Fault
    /\ batch' = [batch EXCEPT ![t] = {}]
    /\ Goto(t, "poll")
    /\ UNCHANGED <<logVars, offset, stop, off, bad, sweepVars, readVars, late>>

-----------------------------------------------------------------------------
(* prune_before, called by daily_consolidate with an archive path.         *)

\* A row's created_at passes the cutoff of the next prune.
GetsOld(r) ==
    /\ prune = "idle"
    /\ ~r.old
    /\ rows' = (rows \ {r}) \cup {[r EXCEPT !.old = TRUE]}
    /\ UNCHANGED <<last, tx, offset, loopVars, sweepVars, readVars, late, faults>>

\* Bug: the DELETE runs before the archive is written.
PruneDeletesFirst ==
    /\ prune = "idle"
    /\ \E r \in rows : r.old
    /\ rows' = { r \in rows : ~r.old }
    /\ deleted' = deleted \cup Seqs({ r \in rows : r.old })
    /\ prune' = "delete"
    /\ UNCHANGED <<last, tx, archived, offset, loopVars, readVars, late, faults>>

\* The SELECT, and the rows it returned appended to the archive file.
PruneArchives ==
    /\ prune = "idle"
    /\ \E r \in rows : r.old
    /\ archived' = archived \cup Seqs({ r \in rows : r.old })
    /\ prune' = "delete"
    /\ UNCHANGED <<logVars, offset, loopVars, readVars, deleted, late, faults>>

\* The DELETE, with the cutoff and not with the ids that were archived.
PruneDeletes ==
    /\ prune = "delete"
    /\ \A s \in Store : tx[s] = {}
    /\ rows' = { r \in rows : ~r.old }
    /\ deleted' = deleted \cup Seqs({ r \in rows : r.old })
    /\ prune' = "idle"
    /\ UNCHANGED <<last, tx, archived, offset, loopVars, readVars, late, faults>>

\* The sweep dies between the two, or its DELETE finds the database locked.
PruneDies ==
    /\ prune = "delete"
    /\ IF \E s \in Store : tx[s] # {} THEN UNCHANGED faults ELSE Fault
    /\ prune' = "idle"
    /\ UNCHANGED <<logVars, archived, deleted, offset, loopVars, readVars, late>>

-----------------------------------------------------------------------------
(* The specification.                                                      *)

LoopStep(t) ==
    \/ Exit(t) \/ GetOffset(t) \/ ReadSince(t)
    \/ HandlerReturns(t) \/ HandlerRaises(t)
    \/ CommitOffset(t) \/ Skip(t)
    \/ Locked(StoreOf[t]) /\ (CommitRaises(t) \/ SkipRaises(t))

Next ==
    \/ \E p \in Pub : Append(p) \/ AppendManyRaises(p)
    \/ \E s \in Store : Crash(s) \/ Unwinds(s)
    \/ \E t \in Sub : \/ Subscribe(t) \/ Stop(t) \/ LoopStep(t)
                      \/ CommitRaises(t) \/ SkipRaises(t)
    \/ \E r \in rows : GetsOld(r)
    \/ PruneArchives \/ PruneDeletes \/ PruneDies

Spec == Init /\ [][Next]_vars

\* A live loop keeps running, the host subscribes again when none is live, and
\* a process that left a transaction open commits or ends some day.
Fairness ==
    /\ \A t \in Sub : WF_vars(LoopStep(t))
    /\ WF_vars((\A u \in Sub : pc[u] = "off") /\ \E t \in Sub : Subscribe(t))
    /\ \A s \in Store : WF_vars(Unwinds(s))

FairSpec == Spec /\ Fairness

-----------------------------------------------------------------------------
(* Properties.                                                             *)

TypeOK ==
    /\ rows \subseteq Event
    /\ last \in Nat
    /\ tx \in [Store -> SUBSET Event]
    /\ offset \in Nat
    /\ pc \in [Sub -> {"off", "poll", "read", "handle", "commit", "skip"}]
    /\ stop \in [Sub -> BOOLEAN]
    /\ off \in [Sub -> Nat]
    /\ batch \in [Sub -> SUBSET (Nat \ {0})]
    /\ bad \in [Sub -> Nat \X (0..MaxFailures)]
    /\ prune \in {"idle", "delete"}
    /\ failures \in [Seq1 -> 0..MaxFailures]
    /\ UNION {archived, handled, again, skipped, deleted, late} \subseteq Nat \ {0}
    /\ faults \in 0..MaxFaults

Wanted == { r \in rows : r.wanted }

\* The cursor never passes an event of the consumer's types that was neither
\* handled nor given up as poison: delivery is at least once, whichever loop
\* moved the cursor, whatever was pruned and however often it crashed.
NothingSkipped ==
    \A r \in Wanted : r.seq <= offset => r.seq \in handled \cup skipped

\* An event is handled only after every earlier one that is still in the log
\* was handled or given up: a failure holds back the events behind it.
DeliveredInOrder ==
    \A r, q \in Wanted :
        q.seq \in handled /\ r.seq < q.seq => r.seq \in handled \cup skipped

\* An event is given up only after MaxFailures failed attempts at that event.
PoisonPatience == \A n \in skipped : failures[n] = MaxFailures

\* Without a crash, a stop, a second loop or a locked database no event is
\* handled twice.
NoNeedlessRedelivery == faults = 0 => again = {}

\* An event that prune_before deletes is in the archive, whatever dies between the
\* archive and the DELETE.  Exempt is an event that is committed between the two and
\* that its caller backdated past the cutoff: it is deleted without being archived.
PrunedAreArchived == deleted \ late \subseteq archived

\* Every event of the consumer's types is handled, given up or pruned in the
\* end: none is stuck behind the cursor or behind a poison event.
Delivered ==
    \A n \in Seq1 :
        (\E r \in Wanted : r.seq = n) ~> (n \in handled \cup skipped \cup deleted)

=============================================================================
