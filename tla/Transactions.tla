---------------------------- MODULE Transactions ----------------------------
(***************************************************************************)
(* The life of a transaction on one node, from the answer to the client to *)
(* its row in the DAG: consensus/mempool.js, the batch narwhal.js drains   *)
(* from it and puts back, and consensus/commit-handler.js, which commits,  *)
(* refuses or holds what bullshark.js hands it.                            *)
(*                                                                         *)
(* The peers are the certificates they publish.  Time is left out: entries *)
(* and tombstones may expire at any drain, but not those just put back.    *)
(***************************************************************************)
EXTENDS Naturals, FiniteSets, SequencesExt

CONSTANTS
    Tx,
    Key,         \* what two transactions must agree on to exclude each other
    Holding,     \* types whose in-batch duplicates are held (duplicateOf)
    Refused,     \* transactions that fail the checks of a commit
    MaxPending,  \* MEMPOOL_MAX_SIZE
    BatchLimit,  \* transactions in a batch
    PeerBatches, \* the batches of peers a run follows
    MaxCerts,    \* bound on certificates under way at a time
    MaxCrashes   \* bound on crashes

ASSUME KeysAreTotal == DOMAIN Key = Tx
ASSUME KindsAreOfTransactions == Holding \subseteq Tx /\ Refused \subseteq Tx
ASSUME PeersBatchTransactions == PeerBatches \subseteq Seq(Tx)
ASSUME LimitsAreNumbers ==
    {MaxPending, BatchLimit, MaxCerts} \subseteq Nat \ {0} /\ MaxCrashes \in Nat

VARIABLES
    pool,       \* the mempool and the rejection rows, a record
    batch,      \* drained, and not yet in a certificate (_myBatch)
    certs,      \* certificates in the store, not yet ordered
    away,       \* certificates of peers this node does not have
    committed,  \* transactions in the DAG
    crashes     \* crashes so far

vars == <<pool, batch, certs, away, committed, crashes>>

Cert == [author : {"own", "peer"}, txs : Seq(Tx)]

Init ==
    /\ pool = [pending |-> <<>>, disk |-> <<>>, dead |-> {}, rows |-> {}]
    /\ batch = <<>> /\ certs = {} /\ away = {} /\ committed = {} /\ crashes = 0
----------------------------------------------------------------------------
(* The operations of mempool.js, on its state p: _pending in drain order,  *)
(* the rows of the mempool table by received_at, _tombstones, and the      *)
(* tx_rejections it has written.                                           *)

Pending(p) == ToSet(p.pending)
Row(t, reason) == [tx |-> t, reason |-> reason]

\* s without the members of T.
Without(s, T) ==
    LET Left[i \in 0 .. Len(s)] ==
            IF i = 0 THEN <<>>
            ELSE IF s[i] \in T THEN Left[i - 1] ELSE Append(Left[i - 1], s[i])
    IN  Left[Len(s)]

Knows(p) == p.dead \cup Pending(p)
Known(p, t) == t \in Knows(p)
Full(p) == Len(p.pending) >= MaxPending

\* add, when it admits.
Added(p, t) == [p EXCEPT !.pending = Append(@, t), !.disk = Append(@, t)]

\* add, when it does not: only a full mempool leaves a row.
Turned(p, t) == IF Known(p, t) THEN p ELSE [p EXCEPT !.rows = @ \cup {Row(t, "dropped")}]

RemovedBroken(p, T) == [p EXCEPT !.pending = Without(@, T)]    \* not from disk
Removed(p, T) == [p EXCEPT !.pending = Without(@, T), !.disk = Without(@, T)]

TombstonedBroken(p, T) == [p EXCEPT !.dead = @ \cup T]    \* leaves the entry
Tombstoned(p, T) == [Removed(p, T) EXCEPT !.dead = @ \cup T]

PutBackBroken(p, ts) ==    \* first to last
    LET fresh == Without(ts, Knows(p)) IN
    [p EXCEPT !.pending = Reverse(fresh) \o @, !.disk = @ \o fresh]

\* addFront for each of ts, from the last to the first.  What finds the
\* mempool full gets a row, so the first ones are those refused.
PutBack(p, ts) ==
    LET fresh == Without(ts, Knows(p))
        room == MaxPending - Len(p.pending)
        over == IF Len(fresh) > room THEN Len(fresh) - room ELSE 0
        kept == SubSeq(fresh, over + 1, Len(fresh))
    IN  [p EXCEPT !.pending = kept \o @, !.disk = @ \o Reverse(kept),
                  !.rows = @ \cup {Row(fresh[i], "dropped") : i \in 1 .. over}]

\* _evictStale
Evicted(p, stale, expired) ==
    [Removed(p, stale) EXCEPT !.dead = @ \ expired,
                              !.rows = @ \cup {Row(t, "dropped") : t \in stale}]

\* What drain takes.
Oldest(p) ==
    SubSeq(p.pending, 1, IF Len(p.pending) < BatchLimit THEN Len(p.pending) ELSE BatchLimit)
----------------------------------------------------------------------------
\* helpers.submitTx
Submit(t) ==
    /\ ~Known(pool, t)
    /\ pool' = IF Full(pool) THEN Turned(pool, t) ELSE Added(pool, t)
    /\ UNCHANGED <<batch, certs, away, committed, crashes>>

RolledBackBroken(p, t, u) == Removed(Turned(Added(p, t), u), {t, u})

\* helpers.submitBatch, when a later transaction is not admitted: those added
\* before it are removed.  (When all are, it is one Submit after another.)
RolledBack(p, t, u) == Removed(Turned(Added(p, t), u), {t})
SubmitBatch(t, u) ==
    /\ ~Known(pool, t) /\ ~Full(pool)
    /\ Known(Added(pool, t), u) \/ Full(Added(pool, t))
    /\ pool' = RolledBack(pool, t, u)
    /\ UNCHANGED <<batch, certs, away, committed, crashes>>

\* _beginRound: _resetRoundState puts back a batch that was not certified,
\* then drain evicts and takes the oldest.
BeginRound(stale, expired) ==
    LET p == Evicted(PutBack(pool, batch), stale, expired)
    IN  /\ batch' = Oldest(p)
        /\ pool' = Removed(p, ToSet(Oldest(p)))
        /\ UNCHANGED <<certs, away, committed, crashes>>

UnderWay == Cardinality(certs) + Cardinality(away)

\* _tryCreateCertificate, with acknowledgements from a quorum.
Seal ==
    /\ batch # <<>> /\ UnderWay < MaxCerts
    /\ certs' = certs \cup {[author |-> "own", txs |-> batch]}
    /\ batch' = <<>>
    /\ UNCHANGED <<pool, away, committed, crashes>>

\* A peer certifies a batch: other transactions, or the same ones, from
\* clients that asked several nodes.
PeerCertifies(txs) ==
    /\ UnderWay < MaxCerts
    /\ [author |-> "peer", txs |-> txs] \notin certs
    /\ away' = away \cup {[author |-> "peer", txs |-> txs]}
    /\ UNCHANGED <<pool, batch, certs, committed, crashes>>

\* _processVerifiedCertificate takes the transactions of a certificate out of
\* the mempool, even if the save was put off because the store was busy.
Receive(c, saved) ==
    /\ pool' = Removed(pool, ToSet(c.txs))
    /\ IF saved THEN away' = away \ {c} /\ certs' = certs \cup {c}
                ELSE UNCHANGED <<away, certs>>
    /\ UNCHANGED <<batch, committed, crashes>>

\* Sync stores certificates and leaves the mempool alone.
Pull(c) ==
    /\ away' = away \ {c} /\ certs' = certs \cup {c}
    /\ UNCHANGED <<pool, batch, committed, crashes>>
----------------------------------------------------------------------------
(* commitOrderedTxs.  ts is what bullshark.js extracts from the            *)
(* certificates of a commit, in their order, copies included.              *)

Ordered(order) == FlattenSeq([i \in DOMAIN order |-> order[i].txs])

Clashes(t, T) == \E u \in T : Key[u] = Key[t]

\* Phase 1, by position: what is new and sound, then what no committed
\* transaction excludes, then the first of those with the same key.
Sound(ts) == {i \in 1 .. Len(ts) : ts[i] \notin committed \cup Refused}
Unsound(ts) == {i \in 1 .. Len(ts) : ts[i] \in Refused \ committed}
Late(ts) == {i \in Sound(ts) : Clashes(ts[i], committed)}
RivalsBroken(ts, i) == {}
Rivals(ts, i) == {j \in Sound(ts) \ Late(ts) : Key[ts[j]] = Key[ts[i]] /\ j < i}
First(ts) == {i \in Sound(ts) \ Late(ts) : Rivals(ts, i) = {}}

\* Later ones are duplicates: of some types they are held back until it is
\* known whether the first one was committed.
HeldBroken(ts) == {}
Held(ts) ==
    {i \in Sound(ts) \ (Late(ts) \cup First(ts)) : ts[i] \in Holding}

\* addFront for the held ones in their order; a copy finds the other pending.
Restored(p, ts, I) ==
    LET again == {i \in DOMAIN ts : i \notin I \/ \E j \in I : ts[j] = ts[i] /\ j < i}
        once == Without([i \in DOMAIN ts |-> i], again)
    IN  PutBack(p, Reverse([k \in DOMAIN once |-> ts[once[k]]]))

\* Phase 2 writes all of the first ones, or on an error none of them.
Commit(order, ok) ==
    LET ts == Ordered(order)
        new == IF ok THEN {ts[i] : i \in First(ts)} ELSE {}
        unsettled == {i \in Held(ts) : ~Clashes(ts[i], new)}
        Rows(I, reason) == {Row(ts[i], reason) : i \in I}
        p == Tombstoned(pool, {ts[i] : i \in Unsound(ts)})
        q == [p EXCEPT !.disk = Without(@, new),
                       !.rows = @ \cup Rows(Unsound(ts), "dropped")
                                  \cup (IF ok THEN {} ELSE Rows(First(ts), "dropped"))
                                  \cup Rows(Sound(ts) \ (First(ts) \cup unsettled), "duplicate")]
    IN  /\ committed' = committed \cup new
        /\ certs' = certs \ ToSet(order)
        /\ pool' = Restored(q, ts, unsettled)
        /\ UNCHANGED <<batch, away, crashes>>

\* The process dies.  createMempool reads its table back; createBullshark
\* marks what is in the store as ordered, and the node gets the outcome of it
\* with a peer's state.
Restart ==
    /\ crashes < MaxCrashes
    /\ crashes' = crashes + 1
    /\ pool' = [pool EXCEPT !.pending = pool.disk, !.dead = {}]
    /\ batch' = <<>> /\ certs' = {}
    /\ UNCHANGED <<away, committed>>
----------------------------------------------------------------------------
Next ==
    \/ \E t \in Tx : Submit(t)
    \/ \E t, u \in Tx : SubmitBatch(t, u)
    \/ \E stale \in SUBSET Pending(pool), expired \in SUBSET pool.dead :
          BeginRound(stale, expired)
    \/ Seal
    \/ \E txs \in PeerBatches : PeerCertifies(txs)
    \/ \E c \in away : Pull(c) \/ \E saved \in BOOLEAN : Receive(c, saved)
    \/ \E order \in SetToAllKPermutations(certs) \ {<<>>}, ok \in BOOLEAN : Commit(order, ok)
    \/ Restart

Spec == Init /\ [][Next]_vars
----------------------------------------------------------------------------
(* Properties.                                                             *)

\* Why: a duplicate, or anything else (full, expired, refused, rolled back).
Reasons == {"duplicate", "dropped"}
Rejected == {r.tx : r \in pool.rows}
Certified(C) == UNION {ToSet(c.txs) : c \in C}

\* Types, the sizes of mempool and batch included.
TypeOK ==
    /\ pool.pending \in Seq(Tx) /\ IsInjective(pool.pending) /\ Len(pool.pending) <= MaxPending
    /\ pool.disk \in Seq(Tx) /\ IsInjective(pool.disk)
    /\ pool.dead \subseteq Tx /\ pool.rows \subseteq [tx : Tx, reason : Reasons]
    /\ batch \in Seq(Tx) /\ Len(batch) <= BatchLimit
    /\ certs \subseteq Cert /\ away \subseteq Cert
    /\ committed \subseteq Tx
    /\ crashes \in Nat

\* Nothing disappears: a transaction that has been taken in stays somewhere,
\* on its way, committed or recorded as rejected.  Only a crash loses what is
\* in the batch, and leaves to the peers what is in certificates.
Traced == Pending(pool) \cup ToSet(batch) \cup Certified(certs \cup away) \cup committed \cup Rejected
NoSilentLoss ==
    [][Traced \subseteq Traced' \cup (IF crashes' = crashes THEN {}
                                     ELSE ToSet(batch) \cup Certified(certs))]_vars

\* No two transactions that exclude each other are in the DAG, whatever
\* certificates and commits they came in.
OnePerKey == \A t, u \in committed : Key[t] = Key[u] => t = u

\* A transaction of a type that is held back is only rejected as a duplicate
\* of something that was committed, also when the commit it lost in failed.
DuplicatesHaveAWinner ==
    \A t \in Holding : Row(t, "duplicate") \in pool.rows => Clashes(t, committed)

\* A transaction refused for good does not come back while it is remembered.
DeadStaysOut == pool.dead \cap Pending(pool) = {}

\* A crash finds in the mempool table what is in the mempool, but for what
\* is already committed, and nothing else.
DiskFollowsMemory ==
    /\ ToSet(pool.disk) \subseteq Pending(pool)
    /\ Pending(pool) \subseteq ToSet(pool.disk) \cup committed

\* Two transactions waiting at this node never change places, whether they
\* wait in a batch or in the mempool: what is put back goes to the front, in
\* its order (tests/consensus/mempool.test.js).  One that a client submitted
\* again while it was in the batch may lose its place.
Queue == batch \o pool.pending
KeepsOrder ==
    [][crashes' = crashes /\ IsInjective(Queue) /\ IsInjective(Queue') =>
        Without(Queue, Tx \ ToSet(Queue')) = Without(Queue', Tx \ ToSet(Queue))]_vars
============================================================================
