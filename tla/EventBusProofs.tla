--------------------------- MODULE EventBusProofs ---------------------------
(***************************************************************************)
(* Proofs about EventBus, for any publishers, poll loops and stores, any   *)
(* batch size and failure limit, and any number of events and faults.      *)
(***************************************************************************)
EXTENDS EventBus, TLAPS, FiniteSetTheorems, WellFoundedInduction

-----------------------------------------------------------------------------
(* Lemmas on the operators.                                                *)

\* A set of seqs that is not empty has a first one.
LEMMA FirstExists ==
    ASSUME NEW S, S \subseteq Nat, S # {}
    PROVE  \E n \in S : \A m \in S : n <= m
<1>1. PICK n \in S : \A m \in S : ~(<<m, n>> \in OpToRel(<, Nat))
  BY NatLessThanWellFounded, WFMin
<1>2. \A m \in S : ~(m < n)
  BY <1>1 DEF OpToRel
<1>3. \A m \in S : n <= m
  BY <1>2
<1> QED BY <1>3

\* A loop works on the lowest seq of its batch.
LEMMA CurrentIsFirst ==
    ASSUME NEW t \in Sub, batch[t] \subseteq Nat, batch[t] # {}
    PROVE  Current(t) \in batch[t] /\ \A m \in batch[t] : Current(t) <= m
BY FirstExists DEF Current

\* The rows a connection sees, and the seqs it may meet for good or until a
\* rollback.
Visible(s) == rows \cup tx[s]
Known(s)   == { n \in Nat : n <= last } \cup Seqs(tx[s])

\* The largest seq handed out on store s.
Top(s) == last + Cardinality(tx[s])

-----------------------------------------------------------------------------
(* What a step does to the log.                                            *)

\* One transaction: what the store had open and at most one new row.
Commits(s) == \/ Commit(s, {})
              \/ \E w, o \in BOOLEAN :
                    /\ NextSeq(s) <= MaxEvents
                    /\ Commit(s, {[seq |-> NextSeq(s), old |-> o, wanted |-> w]})

\* Rows age and are deleted; no row gets another seq or another type.
Fades == /\ UNCHANGED <<last, tx>>
         /\ rows' \subseteq Event
         /\ \A r \in rows' : \E q \in rows : r.seq = q.seq /\ r.wanted = q.wanted

\* The events change only by the steps of the store: a commit, a batch that raises, a
\* connection that ends, or time.
LEMMA LogCases ==
    ASSUME TypeOK, [Next]_vars
    PROVE  \/ UNCHANGED logVars
           \/ \E s \in Store : Commits(s)
           \/ \E p \in Pub : AppendManyRaises(p)
           \/ \E s \in Store : Ends(s)
           \/ Fades
<1> USE BusAssumption DEF logVars
<1>1. ASSUME NEW p \in Pub, Append(p) PROVE \E s \in Store : Commits(s)
  BY <1>1 DEF Append, Commits
<1>2. ASSUME NEW t \in Sub, CommitOffset(t) \/ Skip(t) PROVE \E s \in Store : Commits(s)
  BY <1>2 DEF CommitOffset, Skip, Commits
<1>3. ASSUME NEW t \in Sub,
             \/ Subscribe(t) \/ Stop(t) \/ Exit(t) \/ GetOffset(t) \/ ReadSince(t)
             \/ HandlerReturns(t) \/ HandlerRaises(t) \/ CommitRaises(t) \/ SkipRaises(t)
      PROVE  UNCHANGED logVars
  BY <1>3 DEF Subscribe, Stop, Exit, GetOffset, ReadSince, HandlerReturns, HandlerRaises,
              CommitRaises, SkipRaises, Failed
<1>4. ASSUME PruneArchives \/ PruneDies \/ UNCHANGED vars PROVE UNCHANGED logVars
  BY <1>4 DEF PruneArchives, PruneDies, vars
<1>5. ASSUME NEW r \in rows, GetsOld(r) PROVE Fades
  <2>1. r \in Event /\ UNCHANGED <<last, tx>>
        /\ rows' = (rows \ {r}) \cup {[r EXCEPT !.old = TRUE]}
    BY <1>5 DEF GetsOld, TypeOK
  <2>2. [r EXCEPT !.old = TRUE].seq = r.seq /\ [r EXCEPT !.old = TRUE].wanted = r.wanted
    BY <2>1 DEF Event
  <2>3. [r EXCEPT !.old = TRUE] \in Event /\ rows \subseteq Event
    BY <2>1 DEF Event, TypeOK
  <2> QED BY <2>1, <2>2, <2>3 DEF Fades
<1>6. ASSUME PruneDeletes PROVE Fades
  BY <1>6 DEF PruneDeletes, Fades, TypeOK
<1>7. ASSUME NEW s \in Store, Crash(s) \/ Unwinds(s) PROVE Ends(s)
  BY <1>7 DEF Crash, Unwinds
<1> QED BY <1>1, <1>2, <1>3, <1>4, <1>5, <1>6, <1>7 DEF Next, LoopStep

-----------------------------------------------------------------------------
(* Numbering: a seq is handed out once, whatever is open on which store.   *)

Numbering ==
    /\ \A s \in Store : /\ IsFiniteSet(tx[s])
                        /\ Top(s) <= MaxEvents
                        /\ \A r \in tx[s] : last < r.seq /\ r.seq <= Top(s) /\ ~r.old
    /\ \A s, u \in Store : tx[s] # {} /\ tx[u] # {} => s = u
    /\ \A r \in rows : r.seq <= last
    /\ last <= MaxEvents

\* What a transaction leaves, when no other store has one open.
LEMMA CommitsEffect ==
    ASSUME TypeOK, Numbering, NEW s \in Store, Commits(s)
    PROVE  /\ last' \in Nat /\ last <= last' /\ Top(s) <= last' /\ last' <= MaxEvents
           /\ \A u \in Store : tx'[u] = {} /\ (u # s => tx[u] = {})
           /\ tx' \in [Store -> SUBSET Event]
           /\ rows' \subseteq Event
           /\ \A r \in rows' : \/ r \in Visible(s) /\ r.seq <= last'
                               \/ r.seq = NextSeq(s) /\ r.seq = last' /\ r.seq > Top(s)
<1> USE BusAssumption
<1>1. /\ ~Locked(s) /\ tx' = [tx EXCEPT ![s] = {}]
  BY DEF Commits, Commit
<1>2. \A u \in Store : tx'[u] = {} /\ (u # s => tx[u] = {})
  BY <1>1 DEF Locked, TypeOK
<1>3. /\ Cardinality(tx[s]) \in Nat /\ last \in Nat /\ Top(s) \in Nat
      /\ Cardinality({}) = 0
      /\ \A x : Cardinality({x}) = 1
  <2>1. IsFiniteSet(tx[s]) /\ last \in Nat
    BY DEF Numbering, TypeOK
  <2>2. Cardinality(tx[s]) \in Nat
    BY <2>1, FS_CardinalityType
  <2>3. Top(s) \in Nat
    BY <2>1, <2>2 DEF Top
  <2>4. Cardinality({}) = 0 /\ \A x : Cardinality({x}) = 1
    BY FS_EmptySet, FS_Singleton, Zenon
  <2> QED BY <2>1, <2>2, <2>3, <2>4
<1>4. tx' \in [Store -> SUBSET Event]
  BY <1>1 DEF TypeOK
<1>5. \A r \in Visible(s) : r.seq <= Top(s) /\ r \in Event
  BY <1>3 DEF Visible, Numbering, TypeOK, Top, Event
<1>6. CASE Commit(s, {})
  <2>1. rows' = Visible(s) /\ last' = Top(s)
    BY <1>3, <1>6 DEF Commit, Visible, Top
  <2> QED BY <1>2, <1>3, <1>4, <1>5, <2>1 DEF Numbering, Top
<1>7. ASSUME NEW w \in BOOLEAN, NEW o \in BOOLEAN, NextSeq(s) <= MaxEvents,
             Commit(s, {[seq |-> NextSeq(s), old |-> o, wanted |-> w]})
      PROVE  /\ last' \in Nat /\ last <= last' /\ Top(s) <= last' /\ last' <= MaxEvents
             /\ rows' \subseteq Event
             /\ \A r \in rows' : \/ r \in Visible(s) /\ r.seq <= last'
                                 \/ r.seq = NextSeq(s) /\ r.seq = last' /\ r.seq > Top(s)
  <2> DEFINE e == [seq |-> NextSeq(s), old |-> o, wanted |-> w]
  <2>1. rows' = Visible(s) \cup {e} /\ last' = Top(s) + 1
    BY <1>3, <1>7 DEF Commit, Visible, Top
  <2>2. NextSeq(s) = Top(s) + 1
    BY DEF NextSeq, Top
  <2>3. e \in Event /\ e.seq = NextSeq(s)
    BY <1>3, <2>2 DEF Event
  <2> HIDE DEF e
  <2>4. last' \in Nat /\ last <= last' /\ Top(s) <= last' /\ last' <= MaxEvents
    BY <1>3, <1>7, <2>1, <2>2 DEF Top
  <2>5. rows' \subseteq Event
    BY <1>5, <2>1, <2>3
  <2>6. ASSUME NEW r \in rows'
        PROVE  \/ r \in Visible(s) /\ r.seq <= last'
               \/ r.seq = NextSeq(s) /\ r.seq = last' /\ r.seq > Top(s)
    <3>1. CASE r \in Visible(s)
      <4>1. r.seq \in Nat /\ r.seq <= Top(s)
        BY <1>5, <3>1 DEF Event
      <4> QED BY <1>3, <2>1, <3>1, <4>1
    <3>2. CASE r = e
      BY <1>3, <2>1, <2>2, <2>3, <3>2
    <3> QED BY <2>1, <3>1, <3>2
  <2> QED BY <2>4, <2>5, <2>6
<1> QED BY <1>2, <1>4, <1>6, <1>7 DEF Commits

\* The row that a raising append_many leaves in the open transaction.
LEMMA RaisesEffect ==
    ASSUME TypeOK, Numbering, NEW p \in Pub, AppendManyRaises(p)
    PROVE  \E e \in Event :
             /\ tx' = [tx EXCEPT ![StoreOf[p]] = @ \cup {e}]
             /\ e.seq = Top(StoreOf[p]) + 1 /\ ~e.old /\ e.seq <= MaxEvents
             /\ \A u \in Store \ {StoreOf[p]} : tx[u] = {}
             /\ rows' = rows /\ last' = last
<1> DEFINE s == StoreOf[p]
<1>1. s \in Store /\ Cardinality(tx[s]) \in Nat /\ last \in Nat
  BY BusAssumption, FS_CardinalityType DEF Numbering, TypeOK
<1>2. PICK w \in BOOLEAN :
        tx' = [tx EXCEPT ![s] = @ \cup {[seq |-> NextSeq(s), old |-> FALSE, wanted |-> w]}]
  BY DEF AppendManyRaises
<1>3. ~Locked(s) /\ NextSeq(s) <= MaxEvents /\ rows' = rows /\ last' = last
  BY DEF AppendManyRaises
<1>4. NextSeq(s) = Top(s) + 1 /\ NextSeq(s) \in Nat \ {0}
  BY <1>1 DEF NextSeq, Top
<1> DEFINE e == [seq |-> NextSeq(s), old |-> FALSE, wanted |-> w]
<1>5. e \in Event /\ e.seq = Top(s) + 1 /\ ~e.old /\ e.seq <= MaxEvents
  BY <1>3, <1>4 DEF Event
<1>6. \A u \in Store \ {s} : tx[u] = {}
  BY <1>3 DEF Locked
<1> HIDE DEF s
<1>7. tx' = [tx EXCEPT ![s] = @ \cup {e}]
  BY <1>2
<1> QED BY <1>3, <1>5, <1>6, <1>7 DEF s

\* Every step keeps the numbering.
LEMMA NumberingStep ==
    ASSUME TypeOK, Numbering, [Next]_vars
    PROVE  Numbering'
<1>0. last \in Nat /\ tx \in [Store -> SUBSET Event] /\ rows \subseteq Event
  BY DEF TypeOK
<1>1. CASE UNCHANGED logVars
  BY <1>1 DEF logVars, Numbering, Top
<1>2. ASSUME NEW s \in Store, Commits(s) PROVE Numbering'
  <2>1. /\ last' \in Nat /\ last <= last' /\ Top(s) <= last' /\ last' <= MaxEvents
        /\ \A u \in Store : tx'[u] = {}
        /\ \A r \in rows' : r.seq <= last'
    BY <1>2, CommitsEffect
  <2>2. IsFiniteSet({}) /\ Cardinality({}) = 0
    BY FS_EmptySet
  <2>3. ASSUME NEW u \in Store PROVE IsFiniteSet(tx'[u]) /\ last' + Cardinality(tx'[u]) = last'
    BY <2>1, <2>2
  <2> QED BY <2>1, <2>3 DEF Numbering, Top
<1>3. ASSUME NEW p \in Pub, AppendManyRaises(p) PROVE Numbering'
  <2> DEFINE s == StoreOf[p]
  <2>1. PICK e \in Event : /\ tx' = [tx EXCEPT ![s] = @ \cup {e}]
                           /\ e.seq = Top(s) + 1 /\ ~e.old /\ e.seq <= MaxEvents
                           /\ \A u \in Store \ {s} : tx[u] = {}
                           /\ rows' = rows /\ last' = last
    BY <1>3, RaisesEffect
  <2>2. s \in Store
    BY BusAssumption
  <2>3. IsFiniteSet(tx[s]) /\ \A r \in tx[s] : last < r.seq /\ r.seq <= Top(s) /\ ~r.old
    BY <2>2 DEF Numbering
  <2>4. Cardinality(tx[s]) \in Nat
    BY <2>3, FS_CardinalityType
  <2> HIDE DEF s
  <2>5. e \notin tx[s]
    <3>1. Top(s) \in Nat /\ ~(Top(s) + 1 <= Top(s))
      BY <1>0, <2>4 DEF Top
    <3> QED BY <2>1, <2>3, <3>1
  <2>6. tx'[s] = tx[s] \cup {e} /\ \A u \in Store \ {s} : tx'[u] = tx[u]
    BY <1>0, <2>1, <2>2
  <2>7. IsFiniteSet(tx'[s]) /\ Cardinality(tx'[s]) = Cardinality(tx[s]) + 1
    BY <2>3, <2>5, <2>6, FS_AddElement
  <2>8. last' + Cardinality(tx'[s]) = Top(s) + 1
    BY <1>0, <2>1, <2>4, <2>7 DEF Top
  <2>9. \A u \in Store \ {s} : last' + Cardinality(tx'[u]) = Top(u)
    BY <2>1, <2>6 DEF Top
  <2>10. \A r \in tx'[s] : last' < r.seq /\ r.seq <= Top(s) + 1 /\ ~r.old
    <3>1. Top(s) \in Nat /\ last < Top(s) + 1
      BY <1>0, <2>4 DEF Top
    <3>2. \A r \in tx[s] : r.seq \in Nat
      BY <1>0, <2>2 DEF Event
    <3>3. \A r \in tx[s] : r.seq <= Top(s) + 1
      BY <2>3, <3>1, <3>2
    <3> QED BY <2>1, <2>3, <2>6, <3>1, <3>3
  <2>11. Top(s)' <= MaxEvents /\ \A u \in Store \ {s} : Top(u)' <= MaxEvents
    BY <2>1, <2>8, <2>9 DEF Numbering, Top
  <2>12. \A u, v \in Store : tx'[u] # {} /\ tx'[v] # {} => u = v
    BY <2>1, <2>6
  <2>13. \A u \in Store \ {s} : IsFiniteSet(tx'[u]) /\ tx'[u] = {}
    BY <2>1, <2>6 DEF Numbering
  <2> QED BY <2>1, <2>2, <2>7, <2>8, <2>10, <2>11, <2>12, <2>13 DEF Numbering, Top
<1>4. ASSUME NEW s \in Store, Ends(s) PROVE Numbering'
  <2>1. tx' = [tx EXCEPT ![s] = {}] /\ UNCHANGED <<rows, last>>
    BY <1>4 DEF Ends
  <2>2. tx'[s] = {} /\ \A u \in Store \ {s} : tx'[u] = tx[u]
    BY <1>0, <2>1
  <2>3. IsFiniteSet({}) /\ Cardinality({}) = 0
    BY FS_EmptySet
  <2>4. IsFiniteSet(tx'[s]) /\ last' + Cardinality(tx'[s]) = last
    BY <1>0, <2>1, <2>2, <2>3
  <2>5. \A u \in Store \ {s} : last' + Cardinality(tx'[u]) = Top(u)
    BY <2>1, <2>2 DEF Top
  <2> QED BY <2>1, <2>2, <2>4, <2>5 DEF Numbering, Top
<1>5. CASE Fades
  <2>1. UNCHANGED <<last, tx>> /\ \A r \in rows' : r.seq <= last
    BY <1>5 DEF Fades, Numbering
  <2> QED BY <2>1 DEF Numbering, Top
<1> QED BY <1>1, <1>2, <1>3, <1>4, <1>5, LogCases

-----------------------------------------------------------------------------
(* Type correctness.                                                       *)

\* A loop that is busy with an event has one.
BusyLoops == \A t \in Sub : pc[t] \in {"handle", "commit", "skip"} => batch[t] # {}

\* read_since returns something when there is something to read.
LEMMA BatchNotEmpty ==
    ASSUME NEW S, S \subseteq Nat, S # {}
    PROVE  { n \in S : Cardinality({ m \in S : m < n }) < BatchSize } # {}
<1>1. PICK n \in S : \A m \in S : n <= m
  BY FirstExists
<1>2. { m \in S : m < n } = {}
  <2>1. ASSUME NEW m \in S PROVE ~(m < n)
    <3>1. n <= m /\ m \in Nat /\ n \in Nat
      BY <1>1
    <3> QED BY <3>1
  <2> QED BY <2>1
<1>3. Cardinality({ m \in S : m < n }) < BatchSize
  <2>1. Cardinality({}) = 0 /\ 0 < BatchSize
    BY FS_EmptySet, BusAssumption
  <2> QED BY <1>2, <2>1
<1> QED BY <1>3

\* The log keeps its type.
LEMMA LogType ==
    ASSUME TypeOK, Numbering, [Next]_vars
    PROVE  /\ rows' \subseteq Event /\ last' \in Nat
           /\ tx' \in [Store -> SUBSET Event]
<1>0. last \in Nat /\ tx \in [Store -> SUBSET Event] /\ rows \subseteq Event
  BY DEF TypeOK
<1>1. CASE UNCHANGED logVars
  BY <1>0, <1>1 DEF logVars
<1>2. ASSUME NEW s \in Store, Commits(s)
      PROVE  /\ rows' \subseteq Event /\ last' \in Nat
             /\ tx' \in [Store -> SUBSET Event]
  BY <1>2, CommitsEffect
<1>3. ASSUME NEW p \in Pub, AppendManyRaises(p)
      PROVE  /\ rows' \subseteq Event /\ last' \in Nat
             /\ tx' \in [Store -> SUBSET Event]
  BY <1>0, <1>3, RaisesEffect, BusAssumption
<1>4. ASSUME NEW s \in Store, Ends(s)
      PROVE  /\ rows' \subseteq Event /\ last' \in Nat
             /\ tx' \in [Store -> SUBSET Event]
  BY <1>0, <1>4 DEF Ends
<1>5. CASE Fades
  BY <1>0, <1>5 DEF Fades
<1> QED BY <1>1, <1>2, <1>3, <1>4, <1>5, LogCases

\* The event a busy loop is at is the first of its batch.
LEMMA CurrentType ==
    ASSUME TypeOK, BusyLoops, NEW t \in Sub, pc[t] \in {"handle", "commit", "skip"}
    PROVE  /\ Current(t) \in batch[t] /\ Current(t) \in Nat \ {0}
           /\ \A m \in batch[t] : Current(t) <= m
<1>1. batch[t] \subseteq Nat \ {0} /\ batch[t] # {}
  BY DEF TypeOK, BusyLoops
<1> QED BY <1>1, CurrentIsFirst

\* What read_since returns: seqs of rows the connection sees, above the offset
\* that was read, and at least one when there is one.
LEMMA ReadType ==
    ASSUME TypeOK, NEW t \in Sub
    PROVE  /\ Unread(t) \subseteq Nat \ {0}
           /\ Unread(t) # {} => { n \in Unread(t) :
                 Cardinality({ m \in Unread(t) : m < n }) < BatchSize } # {}
<1>1. rows \subseteq Event /\ tx[StoreOf[t]] \subseteq Event
  BY BusAssumption DEF TypeOK
<1>2. Unread(t) \subseteq Nat \ {0}
  BY <1>1 DEF Unread, Event
<1>3. Unread(t) \subseteq Nat
  BY <1>2
<1> QED BY <1>2, <1>3, BatchNotEmpty

\* What a loop remembers keeps its type, whatever the handler does.
LEMMA FailedType ==
    ASSUME TypeOK, BusyLoops, NEW t \in Sub, pc[t] \in {"handle", "commit"}, Failed(t)
    PROVE  /\ pc' \in [Sub -> {"off", "poll", "read", "handle", "commit", "skip"}]
           /\ batch' \in [Sub -> SUBSET (Nat \ {0})]
           /\ bad' \in [Sub -> Nat \X (0..MaxFailures)]
           /\ failures' \in [Seq1 -> 0..MaxFailures]
           /\ BusyLoops'
<1>1. /\ pc \in [Sub -> {"off", "poll", "read", "handle", "commit", "skip"}]
      /\ batch \in [Sub -> SUBSET (Nat \ {0})]
      /\ bad \in [Sub -> Nat \X (0..MaxFailures)]
      /\ failures \in [Seq1 -> 0..MaxFailures]
  BY DEF TypeOK
<1>2. Current(t) \in Nat /\ batch[t] # {}
  BY CurrentType DEF BusyLoops
<1>3. Count(t) \in 0..MaxFailures
  <2>1. bad[t][2] \in 0..MaxFailures
    BY <1>1
  <2> QED BY <2>1, BusAssumption DEF Count
<1>4. bad' \in [Sub -> Nat \X (0..MaxFailures)]
  BY <1>1, <1>2, <1>3 DEF Failed
<1>5. failures' \in [Seq1 -> 0..MaxFailures]
  <2>1. \A i \in 0..MaxFailures : (IF i < MaxFailures THEN i + 1 ELSE i) \in 0..MaxFailures
    BY BusAssumption
  <2>2. failures' = [failures EXCEPT ![Current(t)] = IF @ < MaxFailures THEN @ + 1 ELSE @]
    BY DEF Failed
  <2> QED BY <1>1, <2>1, <2>2
<1>6. CASE Count(t) >= MaxFailures
  <2>1. pc' = [pc EXCEPT ![t] = "skip"] /\ batch' = batch
    BY <1>6 DEF Failed, Goto
  <2> QED BY <1>1, <1>2, <1>4, <1>5, <2>1 DEF BusyLoops
<1>7. CASE ~(Count(t) >= MaxFailures)
  <2>1. pc' = [pc EXCEPT ![t] = "poll"] /\ batch' = [batch EXCEPT ![t] = {}]
    BY <1>7 DEF Failed, Goto
  <2> QED BY <1>1, <1>4, <1>5, <2>1 DEF BusyLoops
<1> QED BY <1>6, <1>7

\* The parts of TypeOK that are not the log, the loops or the counters.
LEMMA HistoryTypes ==
    TypeOK <=> /\ rows \subseteq Event /\ last \in Nat /\ tx \in [Store -> SUBSET Event]
               /\ offset \in Nat
               /\ pc \in [Sub -> {"off", "poll", "read", "handle", "commit", "skip"}]
               /\ stop \in [Sub -> BOOLEAN]
               /\ off \in [Sub -> Nat]
               /\ batch \in [Sub -> SUBSET (Nat \ {0})]
               /\ bad \in [Sub -> Nat \X (0..MaxFailures)]
               /\ prune \in {"idle", "delete"}
               /\ failures \in [Seq1 -> 0..MaxFailures]
               /\ archived \subseteq Nat \ {0} /\ handled \subseteq Nat \ {0}
               /\ again \subseteq Nat \ {0} /\ skipped \subseteq Nat \ {0}
               /\ deleted \subseteq Nat \ {0} /\ late \subseteq Nat \ {0}
               /\ faults \in 0..MaxFaults
<1> DEFINE N == Nat \ {0}
<1>1. UNION {archived, handled, again, skipped, deleted, late} \subseteq N
      <=> /\ archived \subseteq N /\ handled \subseteq N /\ again \subseteq N
          /\ skipped \subseteq N /\ deleted \subseteq N /\ late \subseteq N
  OBVIOUS
<1> QED BY <1>1 DEF TypeOK

\* Every step keeps the types, and what a busy loop holds.
LEMMA TypeStep ==
    ASSUME TypeOK, BusyLoops, Numbering, [Next]_vars
    PROVE  TypeOK' /\ BusyLoops'
<1> USE BusAssumption DEF logVars, loopVars, sweepVars, readVars
<1>log. /\ rows' \subseteq Event /\ last' \in Nat
        /\ tx' \in [Store -> SUBSET Event]
  BY LogType
<1>old. /\ rows \subseteq Event /\ offset \in Nat
        /\ pc \in [Sub -> {"off", "poll", "read", "handle", "commit", "skip"}]
        /\ stop \in [Sub -> BOOLEAN]
        /\ off \in [Sub -> Nat]
        /\ batch \in [Sub -> SUBSET (Nat \ {0})]
        /\ bad \in [Sub -> Nat \X (0..MaxFailures)]
        /\ prune \in {"idle", "delete"}
        /\ failures \in [Seq1 -> 0..MaxFailures]
        /\ archived \subseteq Nat \ {0} /\ handled \subseteq Nat \ {0}
        /\ again \subseteq Nat \ {0} /\ skipped \subseteq Nat \ {0}
        /\ deleted \subseteq Nat \ {0} /\ late \subseteq Nat \ {0}
        /\ faults \in 0..MaxFaults
  BY HistoryTypes
<1>fault. Fault => faults' \in 0..MaxFaults
  BY <1>old DEF Fault
<1>seqs. \A R \in SUBSET Event : Seqs(R) \subseteq Nat \ {0}
  BY DEF Seqs, Event
<1>1. CASE UNCHANGED vars
  BY <1>log, <1>old, <1>1, HistoryTypes DEF vars, BusyLoops, TypeOK
<1>2. ASSUME NEW p \in Pub, Append(p) PROVE TypeOK' /\ BusyLoops'
  <2>1. NextSeq(StoreOf[p]) \in Nat \ {0}
    <3>1. Cardinality(tx[StoreOf[p]]) \in Nat /\ last \in Nat
      BY FS_CardinalityType DEF Numbering, TypeOK
    <3> QED BY <3>1 DEF NextSeq
  <2>2. /\ late' \subseteq Nat \ {0}
        /\ faults' \in 0..MaxFaults
        /\ UNCHANGED <<offset, loopVars, sweepVars, readVars>>
    BY <1>old, <1>fault, <1>2, <2>1 DEF Append
  <2>3. TypeOK'
    BY <1>log, <1>old, <2>2 DEF TypeOK
  <2>4. BusyLoops'
    BY <2>2 DEF BusyLoops
  <2> QED BY <2>3, <2>4
<1>3. ASSUME NEW p \in Pub, AppendManyRaises(p) PROVE TypeOK' /\ BusyLoops'
  <2>1. UNCHANGED <<offset, loopVars, sweepVars, readVars, late>> /\ faults' \in 0..MaxFaults
    BY <1>fault, <1>3 DEF AppendManyRaises
  <2>2. TypeOK'
    BY <1>log, <1>old, <2>1 DEF TypeOK
  <2>3. BusyLoops'
    BY <2>1 DEF BusyLoops
  <2> QED BY <2>2, <2>3
<1>4. ASSUME NEW s \in Store, Ends(s), faults' \in 0..MaxFaults PROVE TypeOK' /\ BusyLoops'
  <2>1. /\ pc' = [t \in Sub |-> IF StoreOf[t] = s THEN "off" ELSE pc[t]]
        /\ batch' = [t \in Sub |-> IF StoreOf[t] = s THEN {} ELSE batch[t]]
        /\ handled' \subseteq handled /\ again' \subseteq again
        /\ failures' = [n \in Seq1 |-> IF n \in Seqs(tx[s]) THEN 0 ELSE failures[n]]
        /\ UNCHANGED <<rows, last, offset, stop, off, bad, sweepVars, skipped, late>>
    BY <1>4 DEF Ends
  <2>2. /\ pc' \in [Sub -> {"off", "poll", "read", "handle", "commit", "skip"}]
        /\ batch' \in [Sub -> SUBSET (Nat \ {0})]
    BY <1>old, <2>1
  <2>3. failures' \in [Seq1 -> 0..MaxFailures]
    BY <1>old, <2>1
  <2>4. TypeOK'
    BY <1>log, <1>old, <1>4, <2>1, <2>2, <2>3 DEF TypeOK
  <2>5. BusyLoops'
    BY <2>1 DEF BusyLoops
  <2> QED BY <2>4, <2>5
<1>5. ASSUME NEW s \in Store, Crash(s) \/ Unwinds(s) PROVE TypeOK' /\ BusyLoops'
  BY <1>old, <1>fault, <1>4, <1>5 DEF Crash, Unwinds
<1>6. ASSUME NEW t \in Sub, Subscribe(t) PROVE TypeOK' /\ BusyLoops'
  <2>1. /\ pc' = [pc EXCEPT ![t] = "poll"] /\ stop' = [stop EXCEPT ![t] = FALSE]
        /\ bad' = [bad EXCEPT ![t] = <<0, 0>>]
        /\ UNCHANGED <<logVars, offset, off, batch, sweepVars, readVars, late>>
    BY <1>6 DEF Subscribe, Goto
  <2>2. faults' \in 0..MaxFaults
    BY <1>old, <1>fault, <1>6 DEF Subscribe
  <2>3. TypeOK'
    BY <1>log, <1>old, <2>1, <2>2 DEF TypeOK
  <2>4. BusyLoops'
    BY <1>old, <2>1 DEF BusyLoops
  <2> QED BY <2>3, <2>4
<1>7. ASSUME NEW t \in Sub, Stop(t) \/ Exit(t) \/ GetOffset(t) PROVE TypeOK' /\ BusyLoops'
  <2>1. /\ pc' = pc \/ pc' = [pc EXCEPT ![t] = "off"] \/ pc' = [pc EXCEPT ![t] = "read"]
        /\ stop' = stop \/ stop' = [stop EXCEPT ![t] = TRUE]
        /\ off' = off \/ off' = [off EXCEPT ![t] = offset]
        /\ batch' = batch \/ (batch' = [batch EXCEPT ![t] = {}] /\ pc' = [pc EXCEPT ![t] = "off"])
        /\ UNCHANGED <<logVars, offset, bad, sweepVars, readVars, late>>
    BY <1>7 DEF Stop, Exit, GetOffset, Goto
  <2>2. faults' \in 0..MaxFaults
    BY <1>old, <1>fault, <1>7 DEF Stop, Exit, GetOffset
  <2>pc. pc' \in [Sub -> {"off", "poll", "read", "handle", "commit", "skip"}]
    BY <1>old, <2>1
  <2>stop. stop' \in [Sub -> BOOLEAN]
    BY <1>old, <2>1
  <2>off. off' \in [Sub -> Nat]
    BY <1>old, <2>1
  <2>batch. batch' \in [Sub -> SUBSET (Nat \ {0})]
    BY <1>old, <2>1
  <2>3. TypeOK'
    BY <1>log, <1>old, <2>1, <2>2, <2>pc, <2>stop, <2>off, <2>batch DEF TypeOK
  <2>4. BusyLoops'
    BY <1>old, <2>1 DEF BusyLoops
  <2> QED BY <2>3, <2>4
<1>8. ASSUME NEW t \in Sub, ReadSince(t) PROVE TypeOK' /\ BusyLoops'
  <2> DEFINE B == { n \in Unread(t) : Cardinality({ m \in Unread(t) : m < n }) < BatchSize }
  <2>1. /\ batch' = [batch EXCEPT ![t] = B]
        /\ pc' = [pc EXCEPT ![t] = IF Unread(t) = {} THEN "poll" ELSE "handle"]
        /\ UNCHANGED <<logVars, offset, stop, off, bad, sweepVars, readVars, late, faults>>
    BY <1>8 DEF ReadSince, Goto
  <2>2. B \subseteq Nat \ {0} /\ (Unread(t) # {} => B # {})
    BY ReadType
  <2> HIDE DEF B
  <2>3. TypeOK'
    BY <1>log, <1>old, <2>1, <2>2 DEF TypeOK
  <2>4. BusyLoops'
    BY <1>old, <2>1, <2>2 DEF BusyLoops
  <2> QED BY <2>3, <2>4
<1>9. ASSUME NEW t \in Sub, HandlerReturns(t) PROVE TypeOK' /\ BusyLoops'
  <2>1. pc[t] = "handle" /\ Current(t) \in Nat \ {0}
    BY <1>9, CurrentType DEF HandlerReturns
  <2>2. /\ handled' = handled \cup {Current(t)}
        /\ again' \subseteq again \cup {Current(t)}
        /\ pc' = [pc EXCEPT ![t] = "commit"]
        /\ UNCHANGED <<logVars, offset, stop, off, batch, bad, sweepVars, failures, skipped,
                       late, faults>>
    BY <1>9 DEF HandlerReturns, Goto
  <2>types. /\ archived' \subseteq Nat \ {0} /\ handled' \subseteq Nat \ {0}
           /\ again' \subseteq Nat \ {0} /\ skipped' \subseteq Nat \ {0}
           /\ deleted' \subseteq Nat \ {0} /\ late' \subseteq Nat \ {0}
    BY <1>old, <2>1, <2>2
  <2>loop. pc' \in [Sub -> {"off", "poll", "read", "handle", "commit", "skip"}]
    BY <1>old, <2>2
  <2>rest. /\ offset' \in Nat /\ stop' \in [Sub -> BOOLEAN] /\ off' \in [Sub -> Nat]
           /\ batch' \in [Sub -> SUBSET (Nat \ {0})]
           /\ bad' \in [Sub -> Nat \X (0..MaxFailures)]
           /\ prune' \in {"idle", "delete"}
           /\ failures' \in [Seq1 -> 0..MaxFailures]
           /\ faults' \in 0..MaxFaults
    BY <1>old, <2>2
  <2>3. TypeOK'
    BY <1>log, <2>rest, <2>types, <2>loop, HistoryTypes DEF TypeOK
  <2>4. BusyLoops'
    BY <1>old, <2>1, <2>2 DEF BusyLoops
  <2> QED BY <2>3, <2>4
<1>10. ASSUME NEW t \in Sub, HandlerRaises(t) \/ CommitRaises(t) PROVE TypeOK' /\ BusyLoops'
  <2>1. Failed(t) /\ pc[t] \in {"handle", "commit"} /\ faults' \in 0..MaxFaults
    BY <1>old, <1>fault, <1>10 DEF HandlerRaises, CommitRaises
  <2>2. /\ pc' \in [Sub -> {"off", "poll", "read", "handle", "commit", "skip"}]
        /\ batch' \in [Sub -> SUBSET (Nat \ {0})]
        /\ bad' \in [Sub -> Nat \X (0..MaxFailures)]
        /\ failures' \in [Seq1 -> 0..MaxFailures]
        /\ BusyLoops'
    BY <2>1, FailedType
  <2>3. UNCHANGED <<logVars, offset, stop, off, sweepVars, handled, again, skipped, late>>
    BY <2>1 DEF Failed
  <2>4. TypeOK'
    BY <1>log, <1>old, <2>1, <2>2, <2>3 DEF TypeOK
  <2> QED BY <2>2, <2>4
<1>11. ASSUME NEW t \in Sub, CommitOffset(t) PROVE TypeOK' /\ BusyLoops'
  <2>1. Current(t) \in Nat
    BY <1>11, CurrentType DEF CommitOffset
  <2>2. /\ offset' = Current(t)
        /\ bad' = [bad EXCEPT ![t] = <<0, 0>>]
        /\ batch' = [batch EXCEPT ![t] = @ \ {Current(t)}]
        /\ pc' = [pc EXCEPT ![t] = IF batch'[t] = {} THEN "poll" ELSE "handle"]
        /\ UNCHANGED <<stop, off, sweepVars, readVars, late, faults>>
    BY <1>11 DEF CommitOffset, WriteOffset, Goto
  <2>3. TypeOK'
    BY <1>log, <1>old, <2>1, <2>2 DEF TypeOK
  <2>4. BusyLoops'
    BY <1>old, <2>2 DEF BusyLoops
  <2> QED BY <2>3, <2>4
<1>12. ASSUME NEW t \in Sub, Skip(t) \/ SkipRaises(t) PROVE TypeOK' /\ BusyLoops'
  <2>1. Current(t) \in Nat \ {0}
    BY <1>12, CurrentType DEF Skip, SkipRaises
  <2>2. /\ offset' = Current(t) \/ offset' = offset
        /\ bad' = [bad EXCEPT ![t] = <<0, 0>>] \/ bad' = bad
        /\ batch' = [batch EXCEPT ![t] = {}]
        /\ pc' = [pc EXCEPT ![t] = "poll"]
        /\ skipped' \subseteq skipped \cup {Current(t)}
        /\ UNCHANGED <<stop, off, sweepVars, handled, again, failures, late>>
    BY <1>12 DEF Skip, SkipRaises, WriteOffset, Goto
  <2>3. faults' \in 0..MaxFaults
    BY <1>old, <1>fault, <1>12 DEF Skip, SkipRaises
  <2>4. TypeOK'
    BY <1>log, <1>old, <2>1, <2>2, <2>3 DEF TypeOK
  <2>5. BusyLoops'
    BY <1>old, <2>2 DEF BusyLoops
  <2> QED BY <2>4, <2>5
<1>13. ASSUME (\E r \in rows : GetsOld(r)) \/ PruneArchives \/ PruneDeletes \/ PruneDies
       PROVE  TypeOK' /\ BusyLoops'
  <2>1. Seqs({ r \in rows : r.old }) \subseteq Nat \ {0}
    BY <1>old, <1>seqs
  <2>2. /\ archived' \subseteq archived \cup Seqs({ r \in rows : r.old })
        /\ deleted' \subseteq deleted \cup Seqs({ r \in rows : r.old })
        /\ prune' \in {"idle", "delete"}
        /\ UNCHANGED <<offset, loopVars, readVars, late>>
    BY <1>old, <1>13 DEF GetsOld, PruneArchives, PruneDeletes, PruneDies
  <2>3. faults' \in 0..MaxFaults
    BY <1>old, <1>fault, <1>13 DEF GetsOld, PruneArchives, PruneDeletes, PruneDies
  <2>types. /\ archived' \subseteq Nat \ {0} /\ handled' \subseteq Nat \ {0}
           /\ again' \subseteq Nat \ {0} /\ skipped' \subseteq Nat \ {0}
           /\ deleted' \subseteq Nat \ {0} /\ late' \subseteq Nat \ {0}
    BY <1>old, <2>1, <2>2
  <2>4. TypeOK'
    BY <1>log, <1>old, <2>1, <2>2, <2>3, <2>types DEF TypeOK
  <2>5. BusyLoops'
    BY <2>2 DEF BusyLoops
  <2> QED BY <2>4, <2>5
<1> QED BY <1>1, <1>2, <1>3, <1>5, <1>6, <1>7, <1>8, <1>9, <1>10, <1>11, <1>12, <1>13
        DEF Next, LoopStep

BusInv == TypeOK /\ BusyLoops /\ Numbering

\* The bus starts empty.
LEMMA InitBusInv == Init => BusInv
<1>1. IsFiniteSet({}) /\ Cardinality({}) = 0
  BY FS_EmptySet
<1>2. ASSUME Init PROVE TypeOK
  BY <1>2, BusAssumption DEF Init, TypeOK
<1>3. ASSUME Init PROVE BusyLoops
  BY <1>3 DEF Init, BusyLoops
<1>4. ASSUME Init PROVE Numbering
  BY <1>1, <1>4, BusAssumption DEF Init, Numbering, Top
<1> QED BY <1>2, <1>3, <1>4 DEF BusInv

\* Every variable keeps its type, a busy loop has an event, and the rows left
\* uncommitted are numbered above every committed one, on one store at a time.
THEOREM BusInvHolds == Spec => []BusInv
<1>1. BusInv /\ [Next]_vars => BusInv'
  BY TypeStep, NumberingStep DEF BusInv
<1> QED BY <1>1, InitBusInv, PTL DEF Spec

\* The types of the event store and of its poll loops, for every number of
\* processes, events and faults.
THEOREM BusTypes == Spec => []TypeOK
<1>1. BusInv => TypeOK
  BY DEF BusInv
<1> QED BY <1>1, BusInvHolds, PTL

-----------------------------------------------------------------------------
(* The archive.                                                            *)

\* Between the SELECT and the DELETE of a prune, every row the DELETE would
\* take is in the archive or was appended in between, already old.
ArchiveFirst == prune = "delete" => \A r \in rows : r.old => r.seq \in archived \cup late

\* No step deletes what it has not archived.
LEMMA ArchiveStep ==
    ASSUME TypeOK, Numbering, ArchiveFirst, PrunedAreArchived, [Next]_vars
    PROVE  ArchiveFirst' /\ PrunedAreArchived'
<1> USE DEF logVars, sweepVars
<1>1. \A s \in Store : \A r \in tx[s] : ~r.old
  BY DEF Numbering
<1>2. ASSUME NEW s \in Store, Commit(s, {}), UNCHANGED <<sweepVars, late>>
      PROVE  ArchiveFirst' /\ PrunedAreArchived'
  <2>1. rows' = rows \cup tx[s]
    BY <1>2 DEF Commit
  <2> QED BY <1>1, <1>2, <2>1 DEF ArchiveFirst, PrunedAreArchived
<1>3. ASSUME NEW p \in Pub, Append(p) PROVE ArchiveFirst' /\ PrunedAreArchived'
  <2> DEFINE s == StoreOf[p]
  <2>1. PICK w, o \in BOOLEAN :
          /\ Commit(s, {[seq |-> NextSeq(s), old |-> o, wanted |-> w]})
          /\ IF o THEN Fault ELSE UNCHANGED faults
          /\ late' = late \cup IF o /\ prune = "delete" THEN {NextSeq(s)} ELSE {}
    BY <1>3 DEF Append
  <2> DEFINE e == [seq |-> NextSeq(s), old |-> o, wanted |-> w]
  <2>2. rows' = rows \cup tx[s] \cup {e} /\ s \in Store
    BY <2>1, BusAssumption DEF Commit
  <2>3. e.old = o /\ e.seq = NextSeq(s)
    OBVIOUS
  <2> HIDE DEF e, s
  <2>4. late \subseteq late' /\ (o /\ prune = "delete" => e.seq \in late')
    BY <2>1, <2>3
  <2>5. UNCHANGED sweepVars
    BY <1>3 DEF Append
  <2>6. prune = "delete" =>
          \A r \in rows' : r.old => (r \in rows /\ r.old) \/ r.seq \in late'
    BY <1>1, <2>2, <2>3, <2>4
  <2>7. ArchiveFirst'
    BY <2>4, <2>5, <2>6 DEF ArchiveFirst
  <2>8. PrunedAreArchived'
    BY <2>4, <2>5 DEF PrunedAreArchived
  <2> QED BY <2>7, <2>8
<1>4. ASSUME NEW t \in Sub, CommitOffset(t) \/ Skip(t)
      PROVE  ArchiveFirst' /\ PrunedAreArchived'
  BY <1>2, <1>4, BusAssumption DEF CommitOffset, Skip
<1>5. ASSUME NEW t \in Sub,
             \/ Subscribe(t) \/ Stop(t) \/ Exit(t) \/ GetOffset(t) \/ ReadSince(t)
             \/ HandlerReturns(t) \/ HandlerRaises(t) \/ CommitRaises(t) \/ SkipRaises(t)
      PROVE  UNCHANGED <<rows, sweepVars, late>>
  BY <1>5 DEF Subscribe, Stop, Exit, GetOffset, ReadSince, HandlerReturns, HandlerRaises,
              CommitRaises, SkipRaises, Failed
<1>6. ASSUME NEW p \in Pub, AppendManyRaises(p) PROVE UNCHANGED <<rows, sweepVars, late>>
  BY <1>6 DEF AppendManyRaises
<1>7. ASSUME NEW s \in Store, Crash(s) \/ Unwinds(s) PROVE UNCHANGED <<rows, sweepVars, late>>
  BY <1>7 DEF Crash, Unwinds, Ends
<1>8. CASE UNCHANGED <<rows, sweepVars, late>>
  BY <1>8 DEF ArchiveFirst, PrunedAreArchived
<1>9. ASSUME NEW r \in rows, GetsOld(r) PROVE ArchiveFirst' /\ PrunedAreArchived'
  BY <1>9 DEF GetsOld, ArchiveFirst, PrunedAreArchived
<1>10. ASSUME PruneArchives PROVE ArchiveFirst' /\ PrunedAreArchived'
  <2>1. rows' = rows /\ late' = late /\ deleted' = deleted
        /\ archived' = archived \cup Seqs({ r \in rows : r.old })
    BY <1>10 DEF PruneArchives
  <2> QED BY <2>1 DEF ArchiveFirst, PrunedAreArchived, Seqs
<1>11. ASSUME PruneDeletes PROVE ArchiveFirst' /\ PrunedAreArchived'
  <2>1. prune = "delete" /\ prune' = "idle" /\ UNCHANGED <<archived, late>>
        /\ deleted' = deleted \cup Seqs({ r \in rows : r.old })
    BY <1>11 DEF PruneDeletes
  <2>2. Seqs({ r \in rows : r.old }) \subseteq archived \cup late
    BY <2>1 DEF ArchiveFirst, Seqs
  <2> QED BY <2>1, <2>2 DEF ArchiveFirst, PrunedAreArchived
<1>12. ASSUME PruneDies PROVE ArchiveFirst' /\ PrunedAreArchived'
  BY <1>12 DEF PruneDies, ArchiveFirst, PrunedAreArchived
<1>13. CASE UNCHANGED vars
  BY <1>13 DEF vars, ArchiveFirst, PrunedAreArchived
<1> QED BY <1>3, <1>4, <1>5, <1>6, <1>7, <1>8, <1>9, <1>10, <1>11, <1>12, <1>13
        DEF Next, LoopStep

\* Whatever dies between the archive and the DELETE of prune_before, a deleted event
\* is in the archive file, except one that was committed between the two with a
\* created_at past the cutoff.
THEOREM NothingDestroyed == Spec => []PrunedAreArchived
<1> DEFINE Inv == ArchiveFirst /\ PrunedAreArchived
<1>1. Init => Inv
  BY DEF Init, ArchiveFirst, PrunedAreArchived
<1>2. Inv /\ BusInv /\ [Next]_vars => Inv'
  BY ArchiveStep DEF BusInv
<1>3. Inv => PrunedAreArchived
  OBVIOUS
<1> HIDE DEF Inv
<1> QED BY <1>1, <1>2, <1>3, BusInvHolds, PTL DEF Spec

-----------------------------------------------------------------------------
(* What a step does to the view of a store: rows that were there, with the *)
(* seq and the type they had, and rows numbered above all it knew.         *)

Same(q, r)  == q.seq = r.seq /\ q.wanted = r.wanted
Above(r, s) == \A n \in Known(s) : n < r.seq

\* A transaction is open on one store only, so what another one knows is
\* committed.
LEMMA KnownTypes ==
    ASSUME TypeOK, Numbering, NEW s \in Store
    PROVE  /\ last \in Nat /\ Top(s) \in Nat /\ last <= Top(s)
           /\ Known(s) \subseteq Nat /\ \A n \in Known(s) : n <= Top(s)
           /\ \A r \in Visible(s) : r \in Event /\ r.seq \in Known(s) /\ r.seq \in Nat
           /\ tx[s] = {} => Known(s) = { n \in Nat : n <= last }
<1>1. rows \subseteq Event /\ last \in Nat /\ tx[s] \subseteq Event
  BY DEF TypeOK
<1>2. /\ \A r \in tx[s] : last < r.seq /\ r.seq <= Top(s)
      /\ \A r \in rows : r.seq <= last
  BY DEF Numbering
<1>3. Top(s) \in Nat /\ last <= Top(s)
  <2>1. Cardinality(tx[s]) \in Nat
    BY FS_CardinalityType DEF Numbering
  <2> QED BY <1>1, <2>1 DEF Top
<1>4. \A r \in Visible(s) : r \in Event /\ r.seq \in Nat
  BY <1>1 DEF Visible, Event
<1>5. \A r \in Visible(s) : r.seq \in Known(s)
  BY <1>2, <1>4 DEF Visible, Known, Seqs
<1>6. ASSUME NEW n \in Known(s) PROVE n \in Nat /\ n <= Top(s)
  <2>1. CASE n \in Nat /\ n <= last
    BY <1>1, <1>3, <2>1
  <2>2. CASE n \in Seqs(tx[s])
    BY <1>2, <1>4, <2>2 DEF Visible, Seqs
  <2> QED BY <2>1, <2>2 DEF Known
<1>7. tx[s] = {} => Known(s) = { n \in Nat : n <= last }
  BY DEF Known, Seqs
<1> QED BY <1>1, <1>3, <1>4, <1>5, <1>6, <1>7

\* The step that a store's transaction grows or is committed, seen from any
\* store u: the new view holds rows that one store saw before and rows above
\* everything any store knew.
LEMMA CommonView ==
    ASSUME TypeOK, Numbering, [Next]_vars, NEW u \in Store
    PROVE  \E w \in Store : \A r \in Visible(u)' :
              \/ \E q \in Visible(w) : Same(q, r)
              \/ \A v \in Store : Above(r, v)
<1>1. CASE UNCHANGED logVars
  BY <1>1 DEF logVars, Visible, Same
<1>2. ASSUME NEW s \in Store, Commits(s)
      PROVE  \A r \in Visible(u)' : \/ r \in Visible(s)
                                    \/ \A v \in Store : Above(r, v)
  <2>1. /\ \A v \in Store : tx'[v] = {} /\ (v # s => tx[v] = {})
        /\ \A r \in rows' : r \in Visible(s) \/ r.seq > Top(s)
        /\ rows' \subseteq Event
    BY <1>2, CommitsEffect
  <2>2. Visible(u)' = rows'
    BY <2>1 DEF Visible
  <2>3. ASSUME NEW r \in rows', r.seq > Top(s), NEW v \in Store PROVE Above(r, v)
    <3>1. last \in Nat /\ Top(s) \in Nat /\ last <= Top(s) /\ r.seq \in Nat
          /\ \A n \in Known(s) : n \in Nat /\ n <= Top(s)
      BY <2>1, KnownTypes DEF Event
    <3>2. ASSUME NEW n \in Known(v) PROVE n \in Nat /\ n <= Top(s)
      <4>1. CASE v = s
        BY <3>1, <4>1
      <4>2. CASE v # s
        <5>1. n \in Nat /\ n <= last
          BY <2>1, <4>2, KnownTypes
        <5> QED BY <3>1, <5>1
      <4> QED BY <4>1, <4>2
    <3>3. ASSUME NEW n \in Known(v) PROVE n < r.seq
      BY <2>3, <3>1, <3>2
    <3> QED BY <3>3 DEF Above
  <2> QED BY <2>1, <2>2, <2>3
<1>3. ASSUME NEW p \in Pub, AppendManyRaises(p)
      PROVE  \A r \in Visible(u)' : \/ r \in Visible(u)
                                    \/ \A v \in Store : Above(r, v)
  <2> DEFINE s == StoreOf[p]
  <2>0. s \in Store
    BY BusAssumption
  <2>1. PICK e \in Event : /\ tx' = [tx EXCEPT ![s] = @ \cup {e}]
                           /\ e.seq = Top(s) + 1
                           /\ \A v \in Store \ {s} : tx[v] = {}
                           /\ rows' = rows /\ last' = last
    BY <1>3, RaisesEffect
  <2> HIDE DEF s
  <2>2. \A r \in Visible(u)' : r \in Visible(u) \/ r = e
    BY <2>1 DEF Visible, TypeOK
  <2>3. ASSUME NEW v \in Store, NEW n \in Known(v) PROVE n < e.seq
    <3>1. last \in Nat /\ Top(s) \in Nat /\ last <= Top(s)
          /\ \A m \in Known(s) : m \in Nat /\ m <= Top(s)
      BY <2>0, KnownTypes
    <3>2. n \in Nat /\ n <= Top(s)
      <4>1. CASE v = s
        BY <3>1, <4>1
      <4>2. CASE v # s
        <5>1. n \in Nat /\ n <= last
          BY <2>1, <4>2, KnownTypes
        <5> QED BY <3>1, <5>1
      <4> QED BY <4>1, <4>2
    <3> QED BY <2>1, <3>1, <3>2
  <2> QED BY <2>2, <2>3 DEF Above
<1>4. ASSUME NEW s \in Store, Ends(s) PROVE Visible(u)' \subseteq Visible(u)
  BY <1>4 DEF Ends, Visible, TypeOK
<1>5. ASSUME Fades, NEW r \in Visible(u)' PROVE \E q \in Visible(u) : Same(q, r)
  BY <1>5 DEF Fades, Visible, Same
<1>6. \A r : Same(r, r)
  BY DEF Same
<1> QED BY <1>1, <1>2, <1>3, <1>4, <1>5, <1>6, LogCases

\* Seen from a store whose process goes on: what it knew it still knows, and
\* what is new to it is numbered above that.
LEMMA OwnView ==
    ASSUME TypeOK, Numbering, [Next]_vars, NEW u \in Store, ~Ends(u)
    PROVE  /\ Known(u) \subseteq Known(u)'
           /\ \A r \in Visible(u)' : \/ \E q \in Visible(u) : Same(q, r)
                                     \/ Above(r, u)
<1>0. \A r : Same(r, r)
  BY DEF Same
<1>1. CASE UNCHANGED logVars
  BY <1>0, <1>1 DEF logVars, Visible, Known
<1>2. ASSUME NEW s \in Store, Commits(s)
      PROVE  /\ Known(u) \subseteq Known(u)'
             /\ \A r \in Visible(u)' : r \in Visible(u) \/ Above(r, u)
  <2>1. /\ last' \in Nat /\ last <= last' /\ Top(s) <= last'
        /\ \A v \in Store : tx'[v] = {} /\ (v # s => tx[v] = {})
        /\ \A r \in rows' : r \in Visible(s) \/ r.seq > Top(s)
        /\ rows' \subseteq Event
    BY <1>2, CommitsEffect
  <2>2. Visible(u)' = rows' /\ Known(u)' = { n \in Nat : n <= last' }
    BY <2>1 DEF Visible, Known, Seqs
  <2>3. last \in Nat /\ Top(s) \in Nat /\ last <= Top(s)
        /\ \A n \in Known(s) : n \in Nat /\ n <= Top(s)
    BY KnownTypes
  <2>4. CASE u = s
    <3>1. Known(u) \subseteq Known(u)'
      BY <2>1, <2>2, <2>3, <2>4
    <3>2. ASSUME NEW r \in rows', r.seq > Top(s) PROVE Above(r, u)
      <4>1. r.seq \in Nat
        BY <2>1 DEF Event
      <4> QED BY <2>3, <2>4, <3>2, <4>1 DEF Above
    <3> QED BY <2>1, <2>2, <2>4, <3>1, <3>2
  <2>5. CASE u # s
    <3>1. Known(u) = { n \in Nat : n <= last }
      BY <2>1, <2>5, KnownTypes
    <3>2. Known(u) \subseteq Known(u)'
      BY <2>1, <2>2, <2>3, <3>1
    <3>3. ASSUME NEW r \in rows', r \notin rows PROVE last < r.seq
      <4>1. CASE r \in tx[s]
        BY <4>1 DEF Numbering
      <4>2. CASE r.seq > Top(s)
        <5>1. r.seq \in Nat
          BY <2>1 DEF Event
        <5> QED BY <2>3, <4>2, <5>1
      <4> QED BY <2>1, <3>3, <4>1, <4>2 DEF Visible
    <3>4. ASSUME NEW r \in rows', r \notin rows PROVE Above(r, u)
      <4>1. r.seq \in Nat /\ last < r.seq
        BY <2>1, <3>3, <3>4 DEF Event
      <4> QED BY <2>3, <3>1, <4>1 DEF Above
    <3> QED BY <2>2, <3>2, <3>4 DEF Visible
  <2> QED BY <2>4, <2>5
<1>3. ASSUME NEW p \in Pub, AppendManyRaises(p)
      PROVE  /\ Known(u) \subseteq Known(u)'
             /\ \A r \in Visible(u)' : r \in Visible(u) \/ Above(r, u)
  <2> DEFINE s == StoreOf[p]
  <2>0. s \in Store
    BY BusAssumption
  <2>1. PICK e \in Event : /\ tx' = [tx EXCEPT ![s] = @ \cup {e}]
                           /\ e.seq = Top(s) + 1
                           /\ rows' = rows /\ last' = last
    BY <1>3, RaisesEffect
  <2> HIDE DEF s
  <2>2. tx[u] \subseteq tx'[u] /\ (u # s => tx'[u] = tx[u]) /\ tx'[u] \subseteq tx[u] \cup {e}
    BY <2>1 DEF TypeOK
  <2>3. Known(u) \subseteq Known(u)'
    BY <2>1, <2>2 DEF Known, Seqs
  <2>4. u = s => Above(e, u)
    <3>1. Top(s) \in Nat /\ \A n \in Known(s) : n \in Nat /\ n <= Top(s)
      BY <2>0, KnownTypes
    <3> QED BY <2>1, <3>1 DEF Above
  <2>5. \A r \in Visible(u)' : r \in Visible(u) \/ (u = s /\ r = e)
    BY <2>1, <2>2 DEF Visible
  <2> QED BY <2>3, <2>4, <2>5
<1>4. ASSUME NEW s \in Store, Ends(s) PROVE UNCHANGED <<rows, last, tx[u]>>
  BY <1>4 DEF Ends, TypeOK
<1>5. ASSUME NEW s \in Store, Ends(s)
      PROVE  /\ Known(u) \subseteq Known(u)'
             /\ \A r \in Visible(u)' : r \in Visible(u) \/ Above(r, u)
  BY <1>4, <1>5 DEF Known, Visible
<1>6. CASE Fades
  <2>1. \A r \in Visible(u)' : \E q \in Visible(u) : Same(q, r)
    BY <1>6 DEF Fades, Visible, Same
  <2>2. Known(u)' = Known(u)
    BY <1>6 DEF Fades, Known
  <2> QED BY <2>1, <2>2
<1> QED BY <1>0, <1>1, <1>2, <1>3, <1>5, <1>6, LogCases

-----------------------------------------------------------------------------
(* Delivery.                                                               *)

Done(n)    == n \in handled \cup skipped
Covered(n) == \A r \in Wanted : r.seq <= n => Done(r.seq)

\* Nobody speaks of an event that is not known where it was met.
Bounded ==
    /\ offset <= last
    /\ \A t \in Sub : off[t] <= last
    /\ \A n \in skipped : n <= last
    /\ \A n \in handled : \E s \in Store : n \in Known(s)
    /\ \A t \in Sub : batch[t] \subseteq Known(StoreOf[t])

\* A loop that is about to commit has the event handled.
Attempted == \A t \in Sub : pc[t] = "commit" => Current(t) \in handled

\* A batch has no hole: what its store sees below an event of the batch is in
\* the batch or done with.
Sound(t) == \A r \in Visible(StoreOf[t]) :
               r.wanted /\ (\E m \in batch[t] : r.seq <= m)
               => r.seq \in batch[t] \/ Done(r.seq)

Ordered(s) == \A r, q \in Visible(s) :
                 /\ r.wanted /\ q.wanted
                 /\ q.seq \in handled
                 /\ r.seq < q.seq
                 => Done(r.seq)

Delivery == /\ Bounded /\ Attempted
            /\ Covered(offset) /\ \A t \in Sub : Covered(off[t]) /\ Sound(t)
            /\ \A s \in Store : Ordered(s)

\* The committed rows seen as a view: as OwnView, and numbers do not go back.
LEMMA RowsView ==
    ASSUME TypeOK, Numbering, [Next]_vars
    PROVE  /\ last <= last'
           /\ \A r \in rows' : (\E q \in rows : Same(q, r)) \/ last < r.seq
<1>0. (\A r : Same(r, r)) /\ last \in Nat
  BY DEF Same, TypeOK
<1>1. CASE UNCHANGED logVars
  BY <1>0, <1>1 DEF logVars
<1>2. ASSUME NEW s \in Store, Commits(s)
      PROVE  last <= last' /\ \A r \in rows' : r \in rows \/ last < r.seq
  <2>1. /\ last <= last' /\ rows' \subseteq Event
        /\ \A r \in rows' : r \in Visible(s) \/ r.seq > Top(s)
    BY <1>2, CommitsEffect
  <2>2. Top(s) \in Nat /\ last <= Top(s)
    BY KnownTypes
  <2>3. ASSUME NEW r \in rows', r.seq > Top(s) PROVE last < r.seq
    <3>1. r.seq \in Nat
      BY <2>1 DEF Event
    <3> QED BY <1>0, <2>2, <2>3, <3>1
  <2>4. \A r \in tx[s] : last < r.seq
    BY DEF Numbering
  <2> QED BY <2>1, <2>3, <2>4 DEF Visible
<1>3. ASSUME NEW p \in Pub, AppendManyRaises(p) PROVE UNCHANGED <<rows, last>>
  BY <1>3 DEF AppendManyRaises
<1>4. ASSUME NEW s \in Store, Ends(s) PROVE UNCHANGED <<rows, last>>
  BY <1>4 DEF Ends
<1>5. CASE Fades
  BY <1>0, <1>5 DEF Fades, Same
<1> QED BY <1>0, <1>1, <1>2, <1>3, <1>4, <1>5, LogCases

\* What a step does to the history: a handler that returns adds its event, and
\* only the end of a process takes anything back.
LEMMA HistoryCases ==
    ASSUME [Next]_vars
    PROVE  \/ \E t \in Sub : HandlerReturns(t)
           \/ \E s \in Store : Ends(s) /\ handled' = handled \ Seqs(tx[s]) /\ skipped' = skipped
           \/ handled' = handled /\ skipped \subseteq skipped'
<1> USE DEF readVars
<1>1. ASSUME NEW s \in Store, Crash(s) \/ Unwinds(s)
      PROVE  Ends(s) /\ handled' = handled \ Seqs(tx[s]) /\ skipped' = skipped
  BY <1>1 DEF Crash, Unwinds, Ends
<1>2. ASSUME NEW t \in Sub,
             \/ Subscribe(t) \/ Stop(t) \/ Exit(t) \/ GetOffset(t) \/ ReadSince(t)
             \/ HandlerRaises(t) \/ CommitRaises(t) \/ SkipRaises(t) \/ CommitOffset(t)
             \/ Skip(t)
      PROVE  handled' = handled /\ skipped \subseteq skipped'
  BY <1>2 DEF Subscribe, Stop, Exit, GetOffset, ReadSince, HandlerRaises, CommitRaises,
              SkipRaises, CommitOffset, Skip, Failed
<1>3. ASSUME NEW p \in Pub, Append(p) \/ AppendManyRaises(p)
      PROVE  handled' = handled /\ skipped \subseteq skipped'
  BY <1>3 DEF Append, AppendManyRaises
<1>4. ASSUME (\E r \in rows : GetsOld(r)) \/ PruneArchives \/ PruneDeletes \/ PruneDies
             \/ UNCHANGED vars
      PROVE  handled' = handled /\ skipped \subseteq skipped'
  BY <1>4 DEF GetsOld, PruneArchives, PruneDeletes, PruneDies, vars
<1> QED BY <1>1, <1>2, <1>3, <1>4 DEF Next, LoopStep

\* What a rollback takes back was known to no other store.
LEMMA TakenBack ==
    ASSUME TypeOK, Numbering, NEW s \in Store, Ends(s), NEW n \in Seqs(tx[s])
    PROVE  n \in Nat /\ ~(n <= last) /\ \A u \in Store : n \notin Known(u)'
<1>1. last' = last /\ tx' = [tx EXCEPT ![s] = {}]
  BY DEF Ends
<1>2. n \in Nat /\ ~(n <= last)
  <2>1. PICK r \in tx[s] : n = r.seq
    BY DEF Seqs
  <2>2. n \in Nat /\ last < n /\ last \in Nat
    BY <2>1 DEF Numbering, TypeOK, Event
  <2> QED BY <2>2
<1>3. ASSUME NEW u \in Store, n \in Seqs(tx'[u]) PROVE FALSE
  <2>1. u # s /\ tx[u] # {}
    BY <1>1, <1>3 DEF Seqs, TypeOK
  <2>2. tx[s] = {}
    BY <2>1 DEF Numbering
  <2> QED BY <2>2 DEF Seqs
<1> QED BY <1>1, <1>2, <1>3 DEF Known

\* What is done with stays so for every store that still knows the event.
LEMMA DoneStays ==
    ASSUME TypeOK, Numbering, [Next]_vars, NEW u \in Store, NEW n \in Known(u)'
    PROVE  /\ n \in handled => n \in handled'
           /\ Done(n) => Done(n)'
<1>1. ASSUME NEW s \in Store, Ends(s) PROVE n \notin Seqs(tx[s])
  BY <1>1, TakenBack
<1>2. ASSUME NEW t \in Sub, HandlerReturns(t) PROVE handled \subseteq handled' /\ skipped' = skipped
  BY <1>2 DEF HandlerReturns
<1> QED BY <1>1, <1>2, HistoryCases DEF Done

\* What a step does to a poll loop.
LEMMA LoopCases ==
    ASSUME TypeOK, [Next]_vars, NEW t \in Sub
    PROVE  \/ HandlerReturns(t) \/ ReadSince(t) \/ CommitOffset(t)
           \/ batch'[t] = {} /\ pc'[t] # "commit"
           \/ batch'[t] = batch[t] /\ (pc'[t] = pc[t] \/ pc'[t] # "commit")
<1> USE DEF loopVars, Goto
<1> DEFINE Rest == \/ batch'[t] = {} /\ pc'[t] # "commit"
                   \/ batch'[t] = batch[t] /\ (pc'[t] = pc[t] \/ pc'[t] # "commit")
<1>0. pc \in [Sub -> {"off", "poll", "read", "handle", "commit", "skip"}]
      /\ batch \in [Sub -> SUBSET (Nat \ {0})]
  BY DEF TypeOK
<1>1. ASSUME NEW s \in Store, Crash(s) \/ Unwinds(s) PROVE Rest
  BY <1>0, <1>1 DEF Crash, Unwinds, Ends
<1>2. ASSUME NEW u \in Sub, \/ Subscribe(u) \/ Stop(u) \/ Exit(u) \/ GetOffset(u)
                            \/ Skip(u) \/ SkipRaises(u)
      PROVE  Rest
  BY <1>0, <1>2 DEF Subscribe, Stop, Exit, GetOffset, Skip, SkipRaises
<1>3. ASSUME NEW u \in Sub, HandlerRaises(u) \/ CommitRaises(u) PROVE Rest
  BY <1>0, <1>3 DEF HandlerRaises, CommitRaises, Failed
<1>4. ASSUME NEW u \in Sub, u # t, ReadSince(u) \/ HandlerReturns(u) \/ CommitOffset(u)
      PROVE  Rest
  BY <1>0, <1>4 DEF ReadSince, HandlerReturns, CommitOffset
<1>5. ASSUME NEW p \in Pub, Append(p) \/ AppendManyRaises(p) PROVE Rest
  BY <1>5 DEF Append, AppendManyRaises
<1>6. ASSUME (\E r \in rows : GetsOld(r)) \/ PruneArchives \/ PruneDeletes \/ PruneDies
             \/ UNCHANGED vars
      PROVE  Rest
  BY <1>6 DEF GetsOld, PruneArchives, PruneDeletes, PruneDies, vars
<1> QED BY <1>1, <1>2, <1>3, <1>4, <1>5, <1>6 DEF Next, LoopStep

\* What a step does to the cursor.
LEMMA CursorCases ==
    ASSUME TypeOK, [Next]_vars
    PROVE  /\ offset' = offset \/ \E t \in Sub : CommitOffset(t) \/ Skip(t)
           /\ skipped' = skipped \/ \E t \in Sub : Skip(t)
           /\ \A t \in Sub : off'[t] = off[t] \/ off'[t] = offset
<1> USE DEF loopVars, readVars
<1>0. off \in [Sub -> Nat]
  BY DEF TypeOK
<1>1. ASSUME NEW s \in Store, Crash(s) \/ Unwinds(s)
      PROVE  UNCHANGED <<offset, off, skipped>>
  BY <1>1 DEF Crash, Unwinds, Ends
<1>2. ASSUME NEW t \in Sub,
             \/ Subscribe(t) \/ Stop(t) \/ Exit(t) \/ ReadSince(t)
             \/ HandlerRaises(t) \/ CommitRaises(t) \/ SkipRaises(t) \/ HandlerReturns(t)
      PROVE  UNCHANGED <<offset, off, skipped>>
  BY <1>2 DEF Subscribe, Stop, Exit, ReadSince, HandlerRaises, CommitRaises,
              SkipRaises, HandlerReturns, Failed
<1>3. ASSUME NEW t \in Sub, GetOffset(t)
      PROVE  UNCHANGED <<offset, skipped>> /\ off' = [off EXCEPT ![t] = offset]
  BY <1>3 DEF GetOffset
<1>4. ASSUME NEW t \in Sub, CommitOffset(t) PROVE UNCHANGED <<off, skipped>>
  BY <1>4 DEF CommitOffset
<1>5. ASSUME NEW t \in Sub, Skip(t) PROVE UNCHANGED off
  BY <1>5 DEF Skip
<1>6. ASSUME NEW p \in Pub, Append(p) \/ AppendManyRaises(p)
      PROVE  UNCHANGED <<offset, off, skipped>>
  BY <1>6 DEF Append, AppendManyRaises
<1>7. ASSUME (\E r \in rows : GetsOld(r)) \/ PruneArchives \/ PruneDeletes \/ PruneDies
             \/ UNCHANGED vars
      PROVE  UNCHANGED <<offset, off, skipped>>
  BY <1>7 DEF GetsOld, PruneArchives, PruneDeletes, PruneDies, vars
<1> QED BY <1>0, <1>1, <1>2, <1>3, <1>4, <1>5, <1>6, <1>7 DEF Next, LoopStep

\* No step lets the cursor, a batch or the history run ahead of the log.
LEMMA BoundedStep ==
    ASSUME BusInv, BusInv', Delivery, [Next]_vars
    PROVE  Bounded'
<1> USE BusAssumption
<1>0. TypeOK /\ BusyLoops /\ Numbering /\ TypeOK' /\ Numbering' /\ Bounded
      /\ last \in Nat /\ last' \in Nat /\ offset \in Nat /\ off \in [Sub -> Nat]
  BY DEF BusInv, Delivery, TypeOK
<1>1. last <= last'
  BY <1>0, RowsView
<1>2. ASSUME NEW t \in Sub, CommitOffset(t) \/ Skip(t)
      PROVE  Current(t) \in Nat /\ Current(t) <= last' /\ offset' = Current(t)
             /\ Current(t) \in Known(StoreOf[t])
  <2>1. Commits(StoreOf[t]) /\ offset' = Current(t)
    BY <1>2 DEF CommitOffset, Skip, Commits, WriteOffset
  <2>2. Top(StoreOf[t]) <= last'
    BY <1>0, <2>1, CommitsEffect
  <2>3. Current(t) \in Known(StoreOf[t])
    BY <1>0, <1>2, CurrentType DEF CommitOffset, Skip, Bounded
  <2>4. Current(t) \in Nat /\ Current(t) <= Top(StoreOf[t]) /\ Top(StoreOf[t]) \in Nat
    BY <1>0, <2>3, KnownTypes
  <2> QED BY <1>0, <2>1, <2>2, <2>3, <2>4
<1>3. offset' <= last'
  <2>1. CASE offset' = offset
    BY <1>0, <1>1, <2>1 DEF Bounded
  <2> QED BY <1>0, <1>2, <2>1, CursorCases
<1>4. ASSUME NEW t \in Sub PROVE off'[t] <= last'
  <2>1. (off'[t] = off[t] \/ off'[t] = offset) /\ off[t] <= last /\ offset <= last
    BY <1>0, CursorCases DEF Bounded
  <2> QED BY <1>0, <1>1, <2>1
<1>5. ASSUME NEW n \in skipped' PROVE n <= last'
  <2>1. CASE skipped' = skipped
    BY <1>0, <1>1, <2>1 DEF Bounded, TypeOK
  <2>2. ASSUME NEW t \in Sub, Skip(t) PROVE n <= last'
    <3>1. n \in skipped \/ n = Current(t)
      BY <2>2 DEF Skip
    <3>2. CASE n \in skipped
      BY <1>0, <1>1, <3>2 DEF Bounded, TypeOK
    <3> QED BY <1>2, <2>2, <3>1, <3>2
  <2> QED BY <1>0, <2>1, <2>2, CursorCases
<1>6. ASSUME NEW n \in handled' PROVE \E s \in Store : n \in Known(s)'
  <2>1. ASSUME NEW t \in Sub, HandlerReturns(t) PROVE \E s \in Store : n \in Known(s)'
    <3>1. Current(t) \in Known(StoreOf[t])
      BY <1>0, <2>1, CurrentType DEF HandlerReturns, Bounded
    <3>2. \E s \in Store : n \in Known(s)
      BY <1>0, <2>1, <3>1 DEF HandlerReturns, Bounded
    <3>3. UNCHANGED <<last, tx>>
      BY <2>1 DEF HandlerReturns, logVars
    <3> QED BY <3>2, <3>3 DEF Known
  <2>2. ASSUME n \in handled PROVE \E s \in Store : n \in Known(s)'
    <3>1. PICK s \in Store : n \in Known(s)
      BY <1>0, <2>2 DEF Bounded
    <3>2. CASE ~Ends(s)
      BY <1>0, <3>1, <3>2, OwnView
    <3>3. CASE Ends(s)
      <4>1. last' = last /\ handled' = handled \ Seqs(tx[s])
        BY <3>3 DEF Ends
      <4> QED BY <3>1, <4>1 DEF Known
    <3> QED BY <3>2, <3>3
  <2>3. n \in handled \/ \E t \in Sub : HandlerReturns(t)
    BY HistoryCases
  <2> QED BY <2>1, <2>2, <2>3
<1>7. ASSUME NEW t \in Sub PROVE batch'[t] \subseteq Known(StoreOf[t])'
  <2> DEFINE u == StoreOf[t]
  <2>0. u \in Store /\ batch[t] \subseteq Known(u)
    BY <1>0 DEF Bounded
  <2>1. CASE batch'[t] = {}
    BY <2>1
  <2>2. CASE ReadSince(t)
    <3>1. batch'[t] \subseteq Unread(t) /\ UNCHANGED <<rows, last, tx>>
      BY <1>0, <2>2 DEF ReadSince, logVars, TypeOK
    <3>2. Unread(t) \subseteq Known(u)
      BY <1>0, <2>0, KnownTypes DEF Unread, Visible
    <3> QED BY <3>1, <3>2 DEF Known
  <2>3. CASE batch'[t] \subseteq batch[t] /\ ~Ends(u)
    BY <1>0, <2>0, <2>3, OwnView
  <2>4. CASE Ends(u)
    BY <1>0, <2>1, <2>4 DEF Ends
  <2>5. HandlerReturns(t) \/ CommitOffset(t) => batch'[t] \subseteq batch[t]
    BY <1>0 DEF HandlerReturns, CommitOffset, TypeOK
  <2> QED BY <1>0, <2>1, <2>2, <2>3, <2>4, <2>5, LoopCases
<1> QED BY <1>3, <1>4, <1>5, <1>6, <1>7 DEF Bounded

\* No step takes a loop to its commit but a handler that returned.
LEMMA AttemptedStep ==
    ASSUME BusInv, BusInv', Delivery, [Next]_vars
    PROVE  Attempted'
<1> USE BusAssumption
<1>0. TypeOK /\ BusyLoops /\ Numbering /\ BusyLoops' /\ TypeOK' /\ Bounded /\ Attempted
  BY DEF BusInv, Delivery
<1>1. SUFFICES ASSUME NEW t \in Sub, pc'[t] = "commit" PROVE Current(t)' \in handled'
  BY DEF Attempted
<1>2. CASE HandlerReturns(t)
  <2>1. handled' = handled \cup {Current(t)} /\ batch' = batch
    BY <1>2 DEF HandlerReturns
  <2> QED BY <2>1 DEF Current
<1>3. CASE ReadSince(t) \/ CommitOffset(t)
  BY <1>0, <1>1, <1>3 DEF ReadSince, CommitOffset, Goto, TypeOK
<1>4. CASE batch'[t] = batch[t] /\ pc'[t] = pc[t]
  <2>1. Current(t)' = Current(t) /\ Current(t) \in handled /\ Current(t) \in batch[t]
    BY <1>0, <1>1, <1>4, CurrentType DEF Current, Attempted
  <2>2. ~Ends(StoreOf[t])
    BY <1>0, <1>1 DEF Ends
  <2>3. Current(t) \in Known(StoreOf[t])'
    BY <1>0, <2>1, <2>2, OwnView DEF Bounded
  <2>4. Current(t) \in handled'
    BY <1>0, <2>1, <2>3, DoneStays
  <2> QED BY <2>1, <2>4
<1> QED BY <1>0, <1>1, <1>2, <1>3, <1>4, LoopCases

\* LIMIT takes from the front: below a seq that is in the batch, all are.
LEMMA BatchHasNoHole ==
    ASSUME NEW S, S \subseteq Nat, NEW m \in S, NEW n \in S, n <= m,
           Cardinality({ k \in S : k < m }) < BatchSize
    PROVE  Cardinality({ k \in S : k < n }) < BatchSize
<1> DEFINE A == { k \in S : k < n }
           B == { k \in S : k < m }
<1>1. m \in Nat /\ n \in Nat /\ \A k \in S : k \in Nat
  OBVIOUS
<1>2. B \in SUBSET Nat /\ \A k \in B : k <= m
  <2>1. \A k \in S : k < m => k <= m
    BY <1>1
  <2> QED BY <2>1
<1>3. IsFiniteSet(B)
  BY <1>1, <1>2, FS_BoundedSetOfNaturals
<1>4. A \subseteq B
  <2>1. \A k \in S : k < n => k < m
    BY <1>1
  <2> QED BY <2>1
<1>5. IsFiniteSet(A) /\ Cardinality(A) <= Cardinality(B)
  BY <1>3, <1>4, FS_Subset
<1>6. Cardinality(A) \in Nat /\ Cardinality(B) \in Nat
  BY <1>3, <1>5, FS_CardinalityType
<1> HIDE DEF A, B
<1>7. Cardinality(B) < BatchSize
  BY DEF B
<1>8. Cardinality(A) < BatchSize
  BY <1>5, <1>6, <1>7, BusAssumption
<1> QED BY <1>8 DEF A

\* No step makes a hole in a batch.
LEMMA SoundStep ==
    ASSUME BusInv, BusInv', Delivery, [Next]_vars, NEW t \in Sub
    PROVE  Sound(t)'
<1> USE BusAssumption
<1> DEFINE u == StoreOf[t]
<1>0. TypeOK /\ BusyLoops /\ Numbering /\ TypeOK' /\ Bounded /\ Attempted /\ Sound(t)
      /\ Covered(off[t]) /\ u \in Store
  BY DEF BusInv, Delivery
<1>1. CASE batch'[t] = {}
  BY <1>1 DEF Sound
<1>2. CASE Ends(u)
  BY <1>0, <1>1, <1>2 DEF Ends
<1>3. CASE /\ ~Ends(u) /\ batch'[t] \subseteq batch[t]
           /\ \A n \in batch[t] : n \in batch'[t] \/ n \in handled
  <2>1. SUFFICES ASSUME NEW r \in Visible(u)', r.wanted, NEW m \in batch'[t], r.seq <= m
                 PROVE  r.seq \in batch'[t] \/ Done(r.seq)'
    BY DEF Sound
  <2>2. m \in Known(u) /\ m \in Nat
    BY <1>0, <1>3, KnownTypes DEF Bounded
  <2>3. r.seq \in Nat
    BY <1>0 DEF TypeOK, Visible, Event
  <2>4. PICK q \in Visible(u) : Same(q, r)
    <3>1. (\E q \in Visible(u) : Same(q, r)) \/ Above(r, u)
      BY <1>0, <1>3, OwnView
    <3>2. ~Above(r, u)
      BY <2>1, <2>2, <2>3 DEF Above
    <3> QED BY <3>1, <3>2
  <2>5. r.seq \in batch[t] \/ Done(r.seq)
    BY <1>0, <1>3, <2>1, <2>4 DEF Sound, Same
  <2>6. r.seq \in Known(u)'
    BY <1>0, <1>3, <2>4, KnownTypes, OwnView DEF Same
  <2>7. r.seq \in batch'[t] \/ Done(r.seq)
    BY <1>3, <2>5 DEF Done
  <2> QED BY <1>0, <2>6, <2>7, DoneStays
<1>4. CASE HandlerReturns(t)
  BY <1>0, <1>2, <1>3, <1>4 DEF HandlerReturns
<1>5. CASE CommitOffset(t)
  <2>1. batch' = [batch EXCEPT ![t] = @ \ {Current(t)}] /\ Current(t) \in handled
    BY <1>0, <1>5 DEF CommitOffset, Attempted
  <2>2. batch'[t] = batch[t] \ {Current(t)}
    BY <1>0, <2>1 DEF TypeOK
  <2> QED BY <1>2, <1>3, <2>1, <2>2
<1>6. CASE ReadSince(t)
  <2>1. /\ batch'[t] = { n \in Unread(t) :
                           Cardinality({ k \in Unread(t) : k < n }) < BatchSize }
        /\ UNCHANGED <<rows, last, tx, handled, skipped>>
    BY <1>0, <1>6 DEF ReadSince, logVars, readVars, TypeOK
  <2>2. SUFFICES ASSUME NEW r \in Visible(u), r.wanted, NEW m \in batch'[t], r.seq <= m
                 PROVE  r.seq \in batch'[t] \/ Done(r.seq)
    BY <2>1 DEF Sound, Visible, Done
  <2>3. r.seq \in Nat /\ off[t] \in Nat /\ off[t] <= last /\ last \in Nat
    BY <1>0, KnownTypes DEF TypeOK, Bounded
  <2>4. CASE off[t] < r.seq
    <3>1. r.seq \in Unread(t) /\ Unread(t) \subseteq Nat /\ m \in Unread(t)
      BY <1>0, <2>1, <2>2, <2>3, <2>4, ReadType DEF Unread, Visible
    <3>2. Cardinality({ k \in Unread(t) : k < m }) < BatchSize
      BY <2>1
    <3>3. Cardinality({ k \in Unread(t) : k < r.seq }) < BatchSize
      BY <2>2, <3>1, <3>2, BatchHasNoHole
    <3> QED BY <2>1, <3>1, <3>3
  <2>5. CASE r.seq <= off[t]
    <3>1. r \in rows
      <4>1. ASSUME r \in tx[u] PROVE FALSE
        <5>1. last < r.seq
          BY <1>0, <4>1 DEF Numbering
        <5> QED BY <2>3, <2>5, <5>1
      <4> QED BY <4>1 DEF Visible
    <3> QED BY <1>0, <2>2, <2>5, <3>1 DEF Covered, Wanted
  <2> QED BY <2>3, <2>4, <2>5
<1>7. CASE batch'[t] = batch[t]
  BY <1>2, <1>3, <1>7
<1> QED BY <1>0, <1>1, <1>4, <1>5, <1>6, <1>7, LoopCases

\* A cursor that was covered stays so: new rows are numbered above it.
LEMMA CoveredStays ==
    ASSUME BusInv, BusInv', [Next]_vars, NEW n \in Nat, n <= last, Covered(n),
           NEW u \in Store
    PROVE  Covered(n)'
<1>0. TypeOK /\ Numbering /\ TypeOK' /\ last \in Nat /\ last' \in Nat /\ rows' \subseteq Event
  BY DEF BusInv, TypeOK
<1>1. SUFFICES ASSUME NEW r \in rows', r.wanted, r.seq <= n PROVE Done(r.seq)'
  BY DEF Covered, Wanted
<1>2. r.seq \in Nat /\ r.seq <= last /\ r.seq <= last'
  <2>1. r.seq \in Nat /\ last <= last'
    BY <1>0, RowsView DEF Event
  <2> QED BY <1>0, <1>1, <2>1
<1>3. \E q \in rows : Same(q, r)
  <2>1. ~(last < r.seq)
    BY <1>0, <1>2
  <2> QED BY <1>0, <2>1, RowsView
<1>4. Done(r.seq)
  BY <1>1, <1>3 DEF Covered, Wanted, Same
<1>5. r.seq \in Known(u)'
  BY <1>2 DEF Known
<1> QED BY <1>0, <1>4, <1>5, DoneStays

\* No step moves a cursor past an event that is not done with.
LEMMA CoveredStep ==
    ASSUME BusInv, BusInv', Delivery, [Next]_vars
    PROVE  Covered(offset)' /\ \A t \in Sub : Covered(off[t])'
<1> USE BusAssumption
<1>0. TypeOK /\ BusyLoops /\ Numbering /\ TypeOK' /\ Bounded /\ Attempted
      /\ Covered(offset) /\ offset \in Nat /\ last \in Nat
  BY DEF BusInv, Delivery, TypeOK
<1>1. ASSUME NEW t \in Sub PROVE Covered(off[t])'
  <2>1. (off'[t] = off[t] \/ off'[t] = offset) /\ off[t] \in Nat
        /\ Covered(off[t]) /\ off[t] <= last /\ offset <= last /\ StoreOf[t] \in Store
    BY <1>0, CursorCases DEF Delivery, Bounded, TypeOK
  <2>2. CASE off'[t] = off[t]
    <3>1. Covered(off[t]) /\ off[t] <= last
      BY <2>1
    <3> DEFINE n == off[t]
    <3>2. \A k \in Nat : k <= last /\ Covered(k) => Covered(k)'
      BY <2>1, CoveredStays
    <3> QED BY <2>1, <2>2, <3>2 DEF Covered
  <2>3. CASE off'[t] = offset
    <3>1. \A k \in Nat : k <= last /\ Covered(k) => Covered(k)'
      BY <2>1, CoveredStays
    <3> QED BY <1>0, <2>1, <2>3, <3>1 DEF Covered
  <2> QED BY <2>1, <2>2, <2>3
<1>2. ASSUME NEW t \in Sub, CommitOffset(t) \/ Skip(t) PROVE Covered(offset)'
  <2> DEFINE u == StoreOf[t]
             c == Current(t)
  <2>1. /\ u \in Store /\ Sound(t) /\ Commits(u) /\ offset' = c
        /\ handled' = handled /\ skipped \subseteq skipped'
        /\ c \in batch[t] /\ c \in Known(u) /\ c \in Nat /\ \A m \in batch[t] : c <= m
    BY <1>0, <1>2, CurrentType
       DEF Delivery, Bounded, CommitOffset, Skip, Commits, WriteOffset, readVars
  <2>2. c \in handled' \cup skipped'
    BY <1>0, <1>2 DEF CommitOffset, Skip, Attempted, readVars
  <2>3. batch[t] \subseteq Nat
    BY <1>0 DEF TypeOK
  <2> HIDE DEF u, c
  <2>4. ASSUME NEW r \in rows', r.wanted, r.seq <= c PROVE Done(r.seq)'
    <3>1. r.seq \in Nat
      BY <1>0 DEF TypeOK, Event
    <3>2. r \in Visible(u)
      <4>1. r \in Visible(u) \/ r.seq > Top(u)
        BY <1>0, <2>1, CommitsEffect
      <4>2. c <= Top(u) /\ Top(u) \in Nat
        BY <1>0, <2>1, KnownTypes
      <4> QED BY <2>1, <2>4, <3>1, <4>1, <4>2
    <3>3. r.seq \in batch[t] \/ Done(r.seq)
      BY <2>1, <2>4, <3>2 DEF Sound, u
    <3>4. CASE r.seq \in batch[t]
      <4>1. r.seq = c
        BY <2>1, <2>4, <3>1, <3>4
      <4> QED BY <2>2, <4>1 DEF Done
    <3>5. CASE Done(r.seq)
      BY <2>1, <3>5 DEF Done
    <3> QED BY <3>3, <3>4, <3>5
  <2> QED BY <2>1, <2>4 DEF Covered, Wanted
<1>3. ASSUME offset' = offset PROVE Covered(offset)'
  <2>1. CASE Store = {}
    <3>1. ~\E s \in Store : Commits(s)
      BY <2>1
    <3>2. Pub = {}
      BY <2>1
    <3>3. UNCHANGED logVars \/ Fades
      BY <1>0, <2>1, <3>1, <3>2, LogCases
    <3>4. UNCHANGED last /\ \A r \in rows' : \E q \in rows : Same(q, r)
      BY <3>3 DEF logVars, Fades, Same
    <3>5. handled' = handled /\ skipped \subseteq skipped'
      <4>1. Sub = {}
        BY <2>1
      <4> QED BY <2>1, <4>1, HistoryCases
    <3> QED BY <1>0, <1>3, <3>4, <3>5 DEF Covered, Wanted, Same, Done
  <2>2. CASE Store # {}
    <3>1. PICK u \in Store : TRUE
      BY <2>2
    <3>2. \A k \in Nat : k <= last /\ Covered(k) => Covered(k)'
      BY <3>1, CoveredStays
    <3>3. offset <= last
      BY <1>0 DEF Bounded
    <3> QED BY <1>0, <1>3, <3>2, <3>3 DEF Covered
  <2> QED BY <2>1, <2>2
<1> QED BY <1>0, <1>1, <1>2, <1>3, CursorCases

\* No step hands over an event before an earlier one that is not done with.
LEMMA OrderedStep ==
    ASSUME BusInv, BusInv', Delivery, [Next]_vars, NEW u \in Store
    PROVE  Ordered(u)'
<1> USE BusAssumption
<1>0. TypeOK /\ BusyLoops /\ Numbering /\ TypeOK' /\ Numbering' /\ Bounded
      /\ \A s \in Store : Ordered(s)
  BY DEF BusInv, Delivery
<1>1. SUFFICES ASSUME NEW r \in Visible(u)', NEW q \in Visible(u)', r.wanted, q.wanted,
                      q.seq \in handled', r.seq < q.seq
               PROVE  Done(r.seq)'
  BY DEF Ordered
<1>2. r.seq \in Known(u)' /\ r.seq \in Nat /\ q.seq \in Nat
  <2>1. \A x \in Visible(u)' : x.seq \in Known(u)' /\ x.seq \in Nat
    <3>1. rows' \subseteq Event /\ tx'[u] \subseteq Event
      BY <1>0 DEF TypeOK
    <3>2. (\A x \in rows' : x.seq <= last')
      BY <1>0 DEF Numbering
    <3> QED BY <3>1, <3>2 DEF Visible, Known, Seqs, Event
  <2> QED BY <2>1
<1>3. ASSUME NEW t \in Sub, HandlerReturns(t) PROVE Done(r.seq)'
  <2> DEFINE c == Current(t)
             s == StoreOf[t]
  <2>1. /\ s \in Store /\ Sound(t) /\ c \in batch[t] /\ c \in Known(s) /\ c \in Nat
        /\ \A m \in batch[t] : c <= m
    BY <1>0, <1>3, CurrentType DEF Delivery, Bounded, HandlerReturns
  <2>2. /\ handled' = handled \cup {c} /\ skipped' = skipped
        /\ UNCHANGED <<rows, last, tx>>
    BY <1>3 DEF HandlerReturns, logVars
  <2> HIDE DEF c, s
  <2>3. r \in Visible(u) /\ q \in Visible(u)
    BY <2>2 DEF Visible
  <2>4. CASE q.seq \in handled
    BY <1>0, <1>1, <2>2, <2>3, <2>4 DEF Ordered, Done
  <2>5. CASE q.seq = c
    <3>1. r \in Visible(s)
      <4>1. CASE u = s
        BY <2>3, <4>1
      <4>2. CASE u # s /\ tx[u] = {}
        BY <2>3, <4>2 DEF Visible
      <4>3. CASE u # s /\ tx[u] # {}
        <5>1. tx[s] = {} /\ last \in Nat /\ c <= last
          BY <1>0, <2>1, <4>3, KnownTypes DEF Numbering
        <5>2. ~(last < r.seq)
          BY <1>1, <1>2, <2>1, <2>5, <5>1
        <5>3. r \in rows
          BY <1>0, <2>3, <5>2 DEF Visible, Numbering
        <5> QED BY <5>3 DEF Visible
      <4> QED BY <4>1, <4>2, <4>3
    <3>2. r.seq <= c /\ ~(c <= r.seq)
      BY <1>1, <1>2, <2>1, <2>5
    <3>3. Done(r.seq)
      BY <1>1, <2>1, <3>1, <3>2 DEF Sound, s
    <3> QED BY <2>2, <3>3 DEF Done
  <2> QED BY <1>1, <2>2, <2>4, <2>5
<1>4. ASSUME handled' \subseteq handled PROVE Done(r.seq)'
  <2>1. PICK w \in Store : \A x \in Visible(u)' : \/ \E y \in Visible(w) : Same(y, x)
                                                  \/ \A v \in Store : Above(x, v)
    BY <1>0, CommonView
  <2>2. PICK v \in Store : q.seq \in Known(v)
    BY <1>0, <1>1, <1>4 DEF Bounded
  <2>3. ~Above(q, v) /\ ~Above(r, v)
    <3>1. ~(q.seq < q.seq) /\ ~(q.seq < r.seq)
      BY <1>1, <1>2
    <3> QED BY <2>2, <3>1 DEF Above
  <2>4. PICK y \in Visible(w) : Same(y, q)
    BY <2>1, <2>3
  <2>5. PICK x \in Visible(w) : Same(x, r)
    BY <2>1, <2>3
  <2>6. Done(r.seq)
    <3>1. y.wanted /\ x.wanted /\ y.seq \in handled /\ x.seq < y.seq
      BY <1>1, <1>4, <2>4, <2>5 DEF Same
    <3>2. Done(x.seq)
      BY <1>0, <3>1 DEF Ordered
    <3> QED BY <2>5, <3>2 DEF Same
  <2> QED BY <1>0, <1>2, <2>6, DoneStays
<1>5. \/ \E t \in Sub : HandlerReturns(t)
      \/ handled' \subseteq handled
  BY HistoryCases
<1> QED BY <1>3, <1>4, <1>5

\* Every step keeps the invariant of the delivery.
LEMMA DeliveryStep ==
    ASSUME BusInv, BusInv', Delivery, [Next]_vars
    PROVE  Delivery'
BY BoundedStep, AttemptedStep, SoundStep, CoveredStep, OrderedStep DEF Delivery

\* Before the first event there is nothing to deliver.
LEMMA InitDelivery == Init => Delivery
<1> SUFFICES ASSUME Init PROVE Delivery
  OBVIOUS
<1> USE BusAssumption DEF Init
<1>1. Bounded
  BY DEF Bounded
<1>2. Attempted
  BY DEF Attempted
<1>3. \A n : Covered(n)
  BY DEF Covered, Wanted
<1>4. ASSUME NEW t \in Sub PROVE Sound(t)
  BY DEF Sound
<1>5. ASSUME NEW s \in Store PROVE Ordered(s)
  BY DEF Ordered
<1> QED BY <1>1, <1>2, <1>3, <1>4, <1>5 DEF Delivery

\* The invariant of the delivery holds in every reachable state.
LEMMA DeliveryHolds == Spec => []Delivery
<1>1. Delivery /\ BusInv /\ BusInv' /\ [Next]_vars => Delivery'
  BY DeliveryStep
<1> QED BY <1>1, InitDelivery, BusInvHolds, PTL DEF Spec

\* At least once: whichever loops race for the cursor, however stale the one
\* that writes it, whatever is open, pruned or rolled back, the cursor has not
\* passed an event that was neither handled nor given up.
THEOREM AtLeastOnce == Spec => []NothingSkipped
<1>1. Delivery => NothingSkipped
  BY DEF Delivery, Covered, Done, NothingSkipped
<1> QED BY <1>1, DeliveryHolds, PTL

\* In order: no event of the log is handled while an earlier one is not.
THEOREM InOrder == Spec => []DeliveredInOrder
<1>1. ASSUME BusInv, Delivery PROVE DeliveredInOrder
  <2>1. SUFFICES ASSUME NEW r \in Wanted, NEW q \in Wanted, q.seq \in handled, r.seq < q.seq
                 PROVE  r.seq \in handled \cup skipped
    BY DEF DeliveredInOrder
  <2>2. PICK s \in Store : q.seq \in Known(s)
    BY <1>1, <2>1 DEF Delivery, Bounded
  <2>3. Ordered(s)
    BY <1>1 DEF Delivery
  <2> QED BY <2>1, <2>3 DEF Ordered, Visible, Wanted, Done
<1> QED BY <1>1, BusInvHolds, DeliveryHolds, PTL

-----------------------------------------------------------------------------
(* Poison events.                                                          *)

\* The count a live loop keeps of an event is never more than the attempts
\* that failed at it, and it gives up at MaxFailures.
Counted(t) == bad[t][1] # 0 => /\ bad[t][1] \in Known(StoreOf[t]) \cap Seq1
                               /\ bad[t][2] <= failures[bad[t][1]]
Patience ==
    /\ \A n \in skipped : n \in Seq1 /\ failures[n] = MaxFailures
    /\ \A t \in Sub : pc[t] # "off" => Counted(t)
    /\ \A t \in Sub : pc[t] = "skip" => bad[t] = <<Current(t), MaxFailures>>

\* Failed attempts are only added, but for the end of a process.
LEMMA FailuresStay ==
    ASSUME TypeOK, BusyLoops, [Next]_vars, NEW n \in Seq1,
           \A s \in Store : Ends(s) => n \notin Seqs(tx[s])
    PROVE  failures[n] <= failures'[n]
<1> USE BusAssumption DEF readVars
<1>0. failures \in [Seq1 -> 0..MaxFailures] /\ failures[n] \in Nat
  BY DEF TypeOK
<1>1. ASSUME NEW s \in Store, Crash(s) \/ Unwinds(s) PROVE failures'[n] = failures[n]
  BY <1>0, <1>1 DEF Crash, Unwinds, Ends
<1>2. ASSUME NEW t \in Sub,
             \/ Subscribe(t) \/ Stop(t) \/ Exit(t) \/ GetOffset(t) \/ ReadSince(t)
             \/ HandlerReturns(t) \/ SkipRaises(t) \/ CommitOffset(t) \/ Skip(t)
      PROVE  failures' = failures
  BY <1>2 DEF Subscribe, Stop, Exit, GetOffset, ReadSince, HandlerReturns, SkipRaises,
              CommitOffset, Skip
<1>3. ASSUME NEW t \in Sub, HandlerRaises(t) \/ CommitRaises(t)
      PROVE  failures[n] <= failures'[n]
  <2>1. failures' = [failures EXCEPT ![Current(t)] = IF @ < MaxFailures THEN @ + 1 ELSE @]
    BY <1>3 DEF HandlerRaises, CommitRaises, Failed
  <2>2. failures'[n] = failures[n] \/ failures'[n] = failures[n] + 1
    BY <1>0, <2>1
  <2> QED BY <1>0, <2>2
<1>4. ASSUME NEW p \in Pub, Append(p) \/ AppendManyRaises(p) PROVE failures' = failures
  BY <1>4 DEF Append, AppendManyRaises
<1>5. ASSUME (\E r \in rows : GetsOld(r)) \/ PruneArchives \/ PruneDeletes \/ PruneDies
             \/ UNCHANGED vars
      PROVE  failures' = failures
  BY <1>5 DEF GetsOld, PruneArchives, PruneDeletes, PruneDies, vars
<1>6. failures' = failures \/ failures'[n] = failures[n] => failures[n] <= failures'[n]
  BY <1>0
<1> QED BY <1>1, <1>2, <1>3, <1>4, <1>5, <1>6 DEF Next, LoopStep

\* What a step does to the count a loop keeps.
LEMMA CountCases ==
    ASSUME TypeOK, [Next]_vars, NEW t \in Sub
    PROVE  \/ Failed(t) /\ pc[t] \in {"handle", "commit"}
           \/ bad'[t] = <<0, 0>> /\ pc'[t] # "skip"
           \/ bad'[t] = bad[t] /\ pc'[t] # "skip" /\ (pc'[t] = "off" \/ pc[t] # "off")
           \/ bad'[t] = bad[t] /\ pc'[t] = pc[t] /\ batch'[t] = batch[t]
<1> USE DEF loopVars, Goto
<1> DEFINE Rest == \/ bad'[t] = <<0, 0>> /\ pc'[t] # "skip"
                   \/ bad'[t] = bad[t] /\ pc'[t] # "skip" /\ (pc'[t] = "off" \/ pc[t] # "off")
                   \/ bad'[t] = bad[t] /\ pc'[t] = pc[t] /\ batch'[t] = batch[t]
<1>0. pc \in [Sub -> {"off", "poll", "read", "handle", "commit", "skip"}]
      /\ batch \in [Sub -> SUBSET (Nat \ {0})]
      /\ bad \in [Sub -> Nat \X (0..MaxFailures)]
  BY DEF TypeOK
<1>1. ASSUME NEW s \in Store, Crash(s) \/ Unwinds(s) PROVE Rest
  BY <1>0, <1>1 DEF Crash, Unwinds, Ends
<1>2. ASSUME NEW u \in Sub, Subscribe(u) \/ CommitOffset(u) \/ Skip(u) PROVE Rest
  BY <1>0, <1>2 DEF Subscribe, CommitOffset, Skip
<1>3. ASSUME NEW u \in Sub, \/ Stop(u) \/ Exit(u) \/ GetOffset(u)
                            \/ SkipRaises(u) \/ ReadSince(u) \/ HandlerReturns(u)
      PROVE  Rest
  BY <1>0, <1>3 DEF Stop, Exit, GetOffset, SkipRaises, ReadSince, HandlerReturns
<1>4. ASSUME NEW u \in Sub, HandlerRaises(u) \/ CommitRaises(u)
      PROVE  Rest \/ (Failed(t) /\ pc[t] \in {"handle", "commit"})
  <2>1. Failed(u) /\ pc[u] \in {"handle", "commit"}
    BY <1>4 DEF HandlerRaises, CommitRaises
  <2>2. u # t => Rest
    BY <1>0, <2>1 DEF Failed
  <2> QED BY <2>1, <2>2
<1>5. ASSUME NEW p \in Pub, Append(p) \/ AppendManyRaises(p) PROVE Rest
  BY <1>5 DEF Append, AppendManyRaises
<1>6. ASSUME (\E r \in rows : GetsOld(r)) \/ PruneArchives \/ PruneDeletes \/ PruneDies
             \/ UNCHANGED vars
      PROVE  Rest
  BY <1>6 DEF GetsOld, PruneArchives, PruneDeletes, PruneDies, vars
<1> QED BY <1>1, <1>2, <1>3, <1>4, <1>5, <1>6 DEF Next, LoopStep

\* The event a busy loop is at has a number the bound allows.
LEMMA CurrentInRange ==
    ASSUME BusInv, Bounded, NEW t \in Sub, pc[t] \in {"handle", "commit", "skip"}
    PROVE  Current(t) \in Known(StoreOf[t]) \cap Seq1 /\ Current(t) # 0
<1>1. StoreOf[t] \in Store /\ TypeOK /\ BusyLoops /\ Numbering
  BY BusAssumption DEF BusInv
<1>2. Current(t) \in Known(StoreOf[t]) /\ Current(t) \in Nat \ {0}
  BY <1>1, CurrentType DEF Bounded
<1>3. Current(t) <= Top(StoreOf[t]) /\ Top(StoreOf[t]) \in Nat /\ Top(StoreOf[t]) <= MaxEvents
  BY <1>1, <1>2, KnownTypes DEF Numbering
<1>4. Current(t) \in 1..MaxEvents
  BY <1>2, <1>3, BusAssumption
<1> QED BY <1>2, <1>4 DEF Seq1

\* No step counts a failure that has not happened, or gives up before the last of them.
LEMMA PatienceStep ==
    ASSUME BusInv, BusInv', Delivery, Delivery', Patience, [Next]_vars
    PROVE  Patience'
<1> USE BusAssumption
<1>0. TypeOK /\ BusyLoops /\ Numbering /\ TypeOK' /\ Bounded /\ Bounded'
      /\ failures \in [Seq1 -> 0..MaxFailures] /\ failures' \in [Seq1 -> 0..MaxFailures]
      /\ bad \in [Sub -> Nat \X (0..MaxFailures)] /\ bad' \in [Sub -> Nat \X (0..MaxFailures)]
  BY DEF BusInv, Delivery, TypeOK
<1>1. ASSUME NEW n \in skipped' PROVE n \in Seq1 /\ failures'[n] = MaxFailures
  <2>1. CASE n \in skipped
    <3>1. n \in Seq1 /\ failures[n] = MaxFailures /\ n <= last
      BY <1>0, <2>1 DEF Patience, Bounded
    <3>2. \A s \in Store : Ends(s) => n \notin Seqs(tx[s])
      BY <1>0, <3>1, TakenBack
    <3>3. failures[n] <= failures'[n]
      BY <1>0, <3>1, <3>2, FailuresStay
    <3>4. failures'[n] \in 0..MaxFailures
      BY <1>0, <3>1
    <3> QED BY <3>1, <3>3, <3>4
  <2>2. ASSUME NEW t \in Sub, Skip(t), n \notin skipped
        PROVE  n \in Seq1 /\ failures'[n] = MaxFailures
    <3>1. pc[t] = "skip" /\ n = Current(t) /\ failures' = failures
      BY <2>2 DEF Skip
    <3>2. n \in Seq1 /\ n # 0
      BY <1>0, <3>1, CurrentInRange
    <3>3. bad[t] = <<n, MaxFailures>> /\ Counted(t)
      BY <3>1 DEF Patience
    <3>4. MaxFailures <= failures[n]
      BY <3>2, <3>3 DEF Counted
    <3>5. failures[n] \in 0..MaxFailures
      BY <1>0, <3>2
    <3> QED BY <3>1, <3>2, <3>4, <3>5
  <2> QED BY <1>0, <2>1, <2>2, CursorCases
<1>2. ASSUME NEW t \in Sub, Failed(t), pc[t] \in {"handle", "commit"}
      PROVE  /\ Counted(t)'
             /\ pc'[t] = "skip" => bad'[t] = <<Current(t), MaxFailures>>' 
  <2> DEFINE c == Current(t)
  <2>1. c \in Known(StoreOf[t]) \cap Seq1 /\ c # 0 /\ c \in Nat
    BY <1>0, <1>2, CurrentInRange DEF Seq1
  <2>2. /\ bad' = [bad EXCEPT ![t] = <<c, Count(t)>>]
        /\ failures' = [failures EXCEPT ![c] = IF @ < MaxFailures THEN @ + 1 ELSE @]
        /\ UNCHANGED <<rows, last, tx>>
    BY <1>2 DEF Failed, logVars
  <2>3. bad'[t] = <<c, Count(t)>> /\ bad'[t][1] = c /\ bad'[t][2] = Count(t)
    BY <1>0, <2>2
  <2>4. /\ failures[c] \in 0..MaxFailures /\ bad[t][2] \in 0..MaxFailures
        /\ failures'[c] = IF failures[c] < MaxFailures THEN failures[c] + 1 ELSE failures[c]
    BY <1>0, <2>1, <2>2
  <2>5. Count(t) <= failures'[c] /\ Count(t) \in Nat /\ Count(t) <= MaxFailures
    <3>1. CASE bad[t][1] # c
      <4>1. Count(t) = 1
        BY <3>1 DEF Count
      <4> QED BY <2>4, <4>1
    <3>2. CASE bad[t][1] = c
      <4>1. bad[t][2] <= failures[c]
        BY <1>2, <2>1, <3>2 DEF Patience, Counted
      <4>2. Count(t) = IF bad[t][2] < MaxFailures THEN bad[t][2] + 1 ELSE MaxFailures
        BY <3>2 DEF Count
      <4> QED BY <2>4, <4>1, <4>2
    <3> QED BY <3>1, <3>2
  <2>6. Known(StoreOf[t])' = Known(StoreOf[t])
    BY <2>2 DEF Known
  <2>7. ASSUME pc'[t] = "skip" PROVE c' = c /\ Count(t) = MaxFailures
    <3>1. Count(t) >= MaxFailures
      BY <1>0, <1>2, <2>7 DEF Failed, Goto, TypeOK
    <3>2. batch' = batch
      BY <1>2, <3>1 DEF Failed
    <3> QED BY <2>5, <3>1, <3>2 DEF Current
  <2> HIDE DEF c
  <2>8. Counted(t)'
    BY <2>1, <2>3, <2>5, <2>6 DEF Counted
  <2>9. pc'[t] = "skip" => bad'[t] = <<c', MaxFailures>>
    BY <2>3, <2>7
  <2> QED BY <2>8, <2>9 DEF c
<1>3. ASSUME NEW t \in Sub, bad'[t] = bad[t], pc'[t] # "off", pc[t] # "off" PROVE Counted(t)'
  <2>1. SUFFICES ASSUME bad[t][1] # 0
                 PROVE  /\ bad[t][1] \in Known(StoreOf[t])' \cap Seq1
                        /\ bad[t][2] <= failures'[bad[t][1]]
    BY <1>3 DEF Counted
  <2> DEFINE n == bad[t][1]
  <2>2. n \in Known(StoreOf[t]) /\ n \in Seq1 /\ bad[t][2] <= failures[n]
    BY <1>3, <2>1 DEF Patience, Counted
  <2>3. StoreOf[t] \in Store /\ ~Ends(StoreOf[t])
    BY <1>0, <1>3 DEF Ends
  <2>4. n \in Known(StoreOf[t])'
    BY <1>0, <2>2, <2>3, OwnView
  <2>5. \A s \in Store : Ends(s) => n \notin Seqs(tx[s])
    BY <1>0, <2>3, <2>4, TakenBack
  <2>6. failures[n] <= failures'[n]
    BY <1>0, <2>2, <2>5, FailuresStay
  <2>7. bad[t][2] \in Nat /\ failures[n] \in Nat /\ failures'[n] \in Nat
    BY <1>0, <2>2
  <2> HIDE DEF n
  <2>8. bad[t][2] <= failures'[n]
    BY <2>2, <2>6, <2>7
  <2> QED BY <2>2, <2>4, <2>8 DEF n
<1>4. ASSUME NEW t \in Sub
      PROVE  /\ pc'[t] # "off" => Counted(t)'
             /\ pc'[t] = "skip" => bad'[t] = <<Current(t), MaxFailures>>' 
  <2>1. CASE bad'[t] = <<0, 0>> /\ pc'[t] # "skip"
    BY <2>1 DEF Counted
  <2>2. CASE bad'[t] = bad[t] /\ pc'[t] # "skip" /\ (pc'[t] = "off" \/ pc[t] # "off")
    BY <1>3, <2>2
  <2>3. CASE bad'[t] = bad[t] /\ pc'[t] = pc[t] /\ batch'[t] = batch[t]
    BY <1>3, <2>3 DEF Patience, Current
  <2> QED BY <1>0, <1>2, <2>1, <2>2, <2>3, CountCases
<1> QED BY <1>1, <1>4 DEF Patience

\* Poison events: an event is given up only after MaxFailures attempts at that
\* event have failed, however many loops, crashes and rollbacks interfere.
THEOREM GivenUpFairly == Spec => []PoisonPatience
<1>1. Init => Patience
  BY DEF Init, Patience, Counted
<1>2. Patience /\ BusInv /\ BusInv' /\ Delivery /\ Delivery' /\ [Next]_vars => Patience'
  BY PatienceStep
<1>3. Patience => PoisonPatience
  BY DEF Patience, PoisonPatience
<1> QED BY <1>1, <1>2, <1>3, BusInvHolds, DeliveryHolds, PTL DEF Spec

-----------------------------------------------------------------------------
(* Redelivery.                                                             *)

\* While nothing has gone wrong one loop runs, nothing is open, and what was
\* handled is below the cursor or about to be committed.
Calm ==
    /\ \A s \in Store : tx[s] = {}
    /\ \A t \in Sub : ~stop[t]
    /\ \A t, u \in Sub : pc[t] # "off" /\ pc[u] # "off" => t = u
    /\ \A t \in Sub : pc[t] \in {"off", "poll", "read"} => batch[t] = {}
    /\ \A n \in handled : \/ n <= offset
                          \/ \E t \in Sub : pc[t] = "commit" /\ n = Current(t)
    /\ \A t \in Sub : \A n \in batch[t] : offset < n
    /\ \A t \in Sub : pc[t] = "read" => off[t] = offset
    /\ again = {}

\* What a step that is no fault leaves of Calm's parts, when it is no step of
\* a poll loop.
LEMMA CalmBackground ==
    ASSUME Calm, [Next]_vars, faults = 0, faults' = 0,
           ~\E t \in Sub : Subscribe(t) \/ LoopStep(t)
    PROVE  Calm'
<1> USE DEF loopVars, readVars
<1>0. ~Fault
  BY DEF Fault
<1>1. ASSUME NEW p \in Pub, Append(p)
      PROVE  (\A s \in Store : tx'[s] = {}) /\ UNCHANGED <<offset, loopVars, readVars>>
  BY <1>1 DEF Append, Commit, Calm
<1>2. ASSUME NEW p \in Pub, AppendManyRaises(p) PROVE FALSE
  BY <1>0, <1>2 DEF AppendManyRaises
<1>3. ASSUME NEW s \in Store, Crash(s) \/ Unwinds(s) PROVE FALSE
  BY <1>0, <1>3 DEF Crash, Unwinds, Calm
<1>4. ASSUME NEW t \in Sub, Stop(t) \/ CommitRaises(t) \/ SkipRaises(t) PROVE FALSE
  <2>1. ~Locked(StoreOf[t])
    BY DEF Locked, Calm
  <2> QED BY <1>0, <1>4, <2>1 DEF Stop, CommitRaises, SkipRaises
<1>5. ASSUME (\E r \in rows : GetsOld(r)) \/ PruneArchives \/ PruneDeletes \/ PruneDies
             \/ UNCHANGED vars
      PROVE  UNCHANGED <<tx, offset, loopVars, readVars>>
  BY <1>5 DEF GetsOld, PruneArchives, PruneDeletes, PruneDies, vars, logVars
<1>6. (\A s \in Store : tx'[s] = {}) /\ UNCHANGED <<offset, loopVars, readVars>>
  BY <1>1, <1>2, <1>3, <1>4, <1>5 DEF Next, Calm
<1> QED BY <1>6 DEF Calm, Current

\* The only loop that runs takes its next step.
LEMMA CalmLoop ==
    ASSUME BusInv, Calm, faults = 0, faults' = 0,
           NEW t \in Sub, Subscribe(t) \/ LoopStep(t)
    PROVE  Calm'
<1> USE BusAssumption DEF Goto
<1>0. /\ pc \in [Sub -> {"off", "poll", "read", "handle", "commit", "skip"}]
      /\ stop \in [Sub -> BOOLEAN] /\ off \in [Sub -> Nat] /\ offset \in Nat
      /\ batch \in [Sub -> SUBSET (Nat \ {0})]
      /\ rows \subseteq Event /\ TypeOK /\ BusyLoops
  BY DEF BusInv, TypeOK
<1>1. ~Fault /\ ~stop[t] /\ ~Locked(StoreOf[t]) /\ tx[StoreOf[t]] = {}
  BY DEF Fault, Calm, Locked
\* Every loop but t is off and stays off.
<1>2. ASSUME NEW u \in Sub, u # t PROVE pc[u] = "off" /\ batch[u] = {}
  <2>1. pc[u] = "off"
    <3>1. CASE Subscribe(t)
      BY <1>1, <3>1 DEF Subscribe
    <3>2. CASE LoopStep(t)
      <4>1. pc[t] # "off"
        BY <1>1, <3>2 DEF LoopStep, Exit, GetOffset, ReadSince, HandlerReturns,
                          HandlerRaises, CommitOffset, Skip
      <4> QED BY <1>2, <4>1 DEF Calm
    <3> QED BY <3>1, <3>2
  <2> QED BY <2>1 DEF Calm
\* So Calm comes down to what t does.
<1>3. ASSUME \A s \in Store : tx'[s] = {}, again' = {},
             \A u \in Sub \ {t} : pc'[u] = pc[u] /\ batch'[u] = batch[u],
             \A u \in Sub : stop'[u] = stop[u] \/ stop'[u] = FALSE,
             pc'[t] \in {"off", "poll", "read"} => batch'[t] = {},
             \A m \in batch'[t] : offset' < m,
             pc'[t] = "read" => off'[t] = offset',
             \A m \in handled' : m <= offset' \/ (pc'[t] = "commit" /\ m = Current(t)')
      PROVE  Calm'
  <2>1. \A u \in Sub \ {t} : pc'[u] = "off" /\ batch'[u] = {}
    BY <1>2, <1>3
  <2>2. \A u, v \in Sub : pc'[u] # "off" /\ pc'[v] # "off" => u = v
    BY <2>1
  <2>3. \A u \in Sub : ~stop'[u]
    BY <1>3 DEF Calm
  <2>4. \A u \in Sub : /\ pc'[u] \in {"off", "poll", "read"} => batch'[u] = {}
                       /\ \A m \in batch'[u] : offset' < m
                       /\ pc'[u] = "read" => off'[u] = offset'
    BY <1>3, <2>1
  <2> QED BY <1>3, <2>2, <2>3, <2>4 DEF Calm
\* Below the cursor, unless t is between the handler and the commit.
<1>4. pc[t] # "commit" => \A m \in handled : m <= offset
  BY <1>2 DEF Calm
<1>5. \A m \in handled : m <= offset \/ (pc[t] = "commit" /\ m = Current(t))
  BY <1>2 DEF Calm
<1>6. CASE Subscribe(t)
  BY <1>0, <1>3, <1>4, <1>6 DEF Subscribe, Calm, logVars, readVars
<1>7. CASE Exit(t)
  BY <1>1, <1>7 DEF Exit
<1>8. CASE GetOffset(t)
  BY <1>0, <1>3, <1>4, <1>8 DEF GetOffset, Calm, logVars, readVars
<1>9. CASE ReadSince(t)
  <2>1. /\ pc[t] = "read" /\ off[t] = offset
        /\ batch' = [batch EXCEPT ![t] = { n \in Unread(t) :
                        Cardinality({ m \in Unread(t) : m < n }) < BatchSize }]
        /\ pc' = [pc EXCEPT ![t] = IF Unread(t) = {} THEN "poll" ELSE "handle"]
        /\ UNCHANGED <<tx, offset, stop, handled, again>>
    BY <1>9 DEF ReadSince, Calm, logVars, readVars
  <2>2. batch'[t] \subseteq Unread(t)
    BY <1>0, <2>1
  <2>3. \A n \in Unread(t) : offset < n
    BY <2>1 DEF Unread
  <2>4. pc'[t] \in {"poll", "handle"} /\ (pc'[t] = "poll" => batch'[t] = {})
    BY <1>0, <2>1, <2>2
  <2>5. \A u \in Sub \ {t} : pc'[u] = pc[u] /\ batch'[u] = batch[u]
    BY <1>0, <2>1
  <2> QED BY <1>3, <1>4, <2>1, <2>2, <2>3, <2>4, <2>5 DEF Calm
<1>10. CASE HandlerReturns(t)
  <2>1. pc[t] = "handle" /\ Current(t) \in batch[t]
    BY <1>0, <1>10, CurrentType DEF HandlerReturns
  <2>2. Current(t) \notin handled
    <3>1. offset < Current(t) /\ Current(t) \in Nat
      BY <1>0, <2>1 DEF Calm
    <3>2. ~(Current(t) <= offset)
      BY <1>0, <3>1
    <3> QED BY <1>4, <2>1, <3>2
  <2>3. /\ handled' = handled \cup {Current(t)} /\ again' = again
        /\ pc' = [pc EXCEPT ![t] = "commit"]
        /\ UNCHANGED <<tx, offset, stop, off, batch>>
    BY <1>10, <2>2 DEF HandlerReturns, logVars
  <2>4. Current(t)' = Current(t) /\ pc'[t] = "commit"
        /\ \A u \in Sub \ {t} : pc'[u] = pc[u]
    BY <1>0, <2>3 DEF Current
  <2> QED BY <1>3, <1>4, <2>1, <2>3, <2>4 DEF Calm
<1>11. CASE HandlerRaises(t)
  <2>1. /\ pc[t] = "handle" /\ UNCHANGED <<tx, offset, stop, off, handled, again>>
        /\ \/ pc' = [pc EXCEPT ![t] = "skip"] /\ batch' = batch
           \/ pc' = [pc EXCEPT ![t] = "poll"] /\ batch' = [batch EXCEPT ![t] = {}]
    BY <1>11 DEF HandlerRaises, Failed, logVars
  <2> QED BY <1>0, <1>3, <1>4, <2>1 DEF Calm
<1>12. CASE CommitOffset(t) \/ Skip(t)
  <2> DEFINE c == Current(t)
  <2>1. /\ c \in batch[t] /\ c \in Nat /\ offset < c /\ \A m \in batch[t] : c <= m
    BY <1>0, <1>12, CurrentType DEF CommitOffset, Skip, Calm
  <2>2. /\ offset' = c /\ tx' = [tx EXCEPT ![StoreOf[t]] = {}]
        /\ UNCHANGED <<stop, off, handled, again>>
        /\ \/ batch' = [batch EXCEPT ![t] = {}] /\ pc' = [pc EXCEPT ![t] = "poll"]
           \/ /\ batch' = [batch EXCEPT ![t] = @ \ {c}]
              /\ pc' = [pc EXCEPT ![t] = IF batch'[t] = {} THEN "poll" ELSE "handle"]
    BY <1>12 DEF CommitOffset, Skip, Commit, WriteOffset, readVars
  <2>3. \A m \in handled : m <= c
    <3>1. handled \subseteq Nat
      BY <1>0, HistoryTypes
    <3>2. \A m \in handled : m <= offset \/ m = c
      BY <1>5
    <3> QED BY <1>0, <2>1, <3>1, <3>2
  <2> HIDE DEF c
  <2>4. batch'[t] \subseteq batch[t] \ {c} /\ (pc'[t] = "poll" => batch'[t] = {})
        /\ pc'[t] \in {"poll", "handle"}
        /\ \A u \in Sub \ {t} : pc'[u] = pc[u] /\ batch'[u] = batch[u]
    BY <1>0, <2>2
  <2>5. \A m \in batch'[t] : c < m
    <3>1. \A m \in batch[t] : m \in Nat
      BY <1>0
    <3> QED BY <2>1, <2>4, <3>1
  <2>6. \A s \in Store : tx'[s] = {}
    BY <1>0, <2>2 DEF TypeOK, Calm
  <2> QED BY <1>3, <2>2, <2>3, <2>4, <2>5, <2>6 DEF Calm
<1>13. CASE Locked(StoreOf[t]) /\ (CommitRaises(t) \/ SkipRaises(t))
  BY <1>1, <1>13
<1> QED BY <1>6, <1>7, <1>8, <1>9, <1>10, <1>11, <1>12, <1>13 DEF LoopStep

\* What is free of faults after a step was so before it.
LEMMA FaultsAddUp ==
    ASSUME TypeOK, [Next]_vars, faults' = 0
    PROVE  faults = 0
<1>1. faults \in Nat /\ (Fault => faults' = faults + 1)
  BY BusAssumption DEF TypeOK, Fault
<1>2. Fault \/ faults' = faults
  BY DEF Next, LoopStep, Append, AppendManyRaises, Crash, Unwinds, Subscribe, Stop, Exit,
         GetOffset, ReadSince, HandlerReturns, HandlerRaises, CommitRaises, CommitOffset,
         Skip, SkipRaises, GetsOld, PruneArchives, PruneDeletes, PruneDies, vars
<1> QED BY <1>1, <1>2

\* Exactly once on a calm day: without a crash, a stop, a second loop or a
\* database that raises, no event is handled twice.
THEOREM NoRedelivery == Spec => []NoNeedlessRedelivery
<1> DEFINE Inv == faults = 0 => Calm
<1>1. Init => Inv
  BY BusAssumption DEF Init, Calm
<1>2. ASSUME Inv, BusInv, [Next]_vars PROVE Inv'
  <2>1. SUFFICES ASSUME faults' = 0 PROVE Calm'
    OBVIOUS
  <2>2. faults = 0
    BY <1>2, <2>1, FaultsAddUp DEF BusInv
  <2>3. Calm
    BY <1>2, <2>2
  <2> QED BY <1>2, <2>1, <2>2, <2>3, CalmLoop, CalmBackground
<1>3. Inv => NoNeedlessRedelivery
  BY DEF Calm, NoNeedlessRedelivery
<1> HIDE DEF Inv
<1> QED BY <1>1, <1>2, <1>3, BusInvHolds, PTL DEF Spec

=============================================================================
