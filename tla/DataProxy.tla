------------------------------- MODULE DataProxy -------------------------------
(***************************************************************************)
(* The data proxy (libgda/gda-data-proxy.c): a data model that keeps the   *)
(* changes made to another one, the proxied model, until they are applied, *)
(* and that shows a sample of its rows.                                    *)
(*                                                                         *)
(* Three numberings of rows are used: that of the proxied model, that of   *)
(* the proxy, and absolute numbers, which continue the first one with the  *)
(* new rows.  The operations map the state of a proxy to another state; a  *)
(* method is one step, as it holds the proxy's mutex.  The proxied model   *)
(* is one that adds rows at its end, as GdaDataModelArray and GdaDataSelect*)
(* do.  It may also be changed by others, its number of rows is known, and *)
(* the application is told of each change of the rows by signals.          *)
(*                                                                         *)
(* A name that ends in _mutant is a wrong version of the definition after  *)
(* it, used to confirm that the properties notice such a mistake.          *)
(***************************************************************************)
EXTENDS Integers, FiniteSets, Sequences, SequencesExt

CONSTANTS
    Columns, Values,
    NULL,         \* the NULL value, and no RowModif
    NoChunk,      \* chunk or chunk_to is NULL
    Direct,       \* a chunk without a mapping
    SampleSizes,  \* bound: sizes of the sample
    NullEntries, Defers, Caches,  \* bound: values of the properties of these names
    IDLE_STEP,    \* rows synchronised at a time in the background
    NRowsAtStart, \* bound: rows of the proxied model
    Ids,          \* bound: identities of rows
    MaxModifs     \* bound: RowModif objects alive

ASSUME ProxyAssumption ==
    /\ SampleSizes \subseteq Nat /\ SampleSizes # {}
    /\ NullEntries \subseteq BOOLEAN /\ Defers \subseteq BOOLEAN /\ Caches \subseteq BOOLEAN
    /\ IDLE_STEP \in Nat \ {0} /\ IsFiniteSet(Ids) /\ NRowsAtStart \in 0 .. Cardinality(Ids) /\ MaxModifs \in Nat
    /\ NULL \notin Values /\ NULL \notin 1 .. MaxModifs /\ NoChunk # Direct /\ Columns # {}
    /\ NoChunk \notin Seq(Int) /\ Direct \notin Seq(Int)

VARIABLE
    proxy     \* the proxy: the fields of its private data, and
              \*   model: the rows of the proxied model, with an identity each
              \*   mods: the RowModif objects, with the identity of their row
              \*   told: the number of rows for who follows the signals
              \*   faults: what has gone wrong; no more calls are made then

vars == <<proxy>>

Modifs == 1 .. MaxModifs
Contents == [Columns -> Values]

-----------------------------------------------------------------------------
(* Rows and their numbers                                                  *)

NbRows(p) == Len(p.model)
Settled(p) == p.chunk_to = NoChunk
Offset(p) == IF p.add_null_entry THEN 1 ELSE 0
HasMapping(c) == c \notin {NoChunk, Direct}
Position(s, e) == SelectInSeq(s, LAMBDA x : x = e)

\* gda_data_proxy_get_n_rows()
NRows(p) ==
    Offset(p) + (IF p.chunk # NoChunk THEN Len(p.chunk)
                 ELSE IF HasMapping(p.chunk_to) THEN p.chunk_proxy_nb_rows
                 ELSE NbRows(p) + Len(p.new_rows))

\* row_modif_to_absolute_row()
ModifToAbsolute(p, m) ==
    IF p.mods[m].model_row # -1 THEN p.mods[m].model_row
    ELSE IF Contains(p.new_rows, m) THEN NbRows(p) + Position(p.new_rows, m) - 1
    ELSE -1

\* absolute_row_to_model_row(), and the RowModif it finds
AbsoluteToModel(p, abs) == IF abs < NbRows(p) THEN abs ELSE -1
AbsoluteToModif(p, abs) ==
    IF abs < 0 THEN NULL
    ELSE IF abs < NbRows(p)
    THEN IF abs \in DOMAIN p.modify_rows THEN p.modify_rows[abs] ELSE NULL
    ELSE IF abs - NbRows(p) < Len(p.new_rows) THEN p.new_rows[abs - NbRows(p) + 1] ELSE NULL

\* proxy_row_to_absolute_row()
ProxyToAbsolute(p, row) ==
    LET k == row - Offset(p)
    IN  IF k < 0 THEN -1
        ELSE IF p.chunk # NoChunk THEN IF k < Len(p.chunk) THEN p.chunk[k + 1] ELSE -1
        ELSE IF HasMapping(p.chunk_to) /\ k < p.chunk_sep /\ k < Len(p.chunk_to)
        THEN p.chunk_to[k + 1]
        ELSE k
ProxyToModif(p, row) == AbsoluteToModif(p, ProxyToAbsolute(p, row))
ProxyToModel(p, row) == AbsoluteToModel(p, ProxyToAbsolute(p, row))

\* absolute_row_to_proxy_row(), when chunk is not needed or not NULL
AbsoluteToProxy(p, abs) ==
    IF abs < 0 THEN -1
    ELSE IF p.chunk # NoChunk
    THEN IF Contains(p.chunk, abs) THEN Position(p.chunk, abs) - 1 + Offset(p) ELSE -1
    ELSE IF abs + Offset(p) < NRows(p) THEN abs + Offset(p) ELSE -1

\* The values shown in a row, gda_data_proxy_get_value_at()
Shown(p, row) ==
    LET m == ProxyToModif(p, row)
        r == ProxyToModel(p, row)
    IN  [c \in Columns |-> IF m # NULL /\ c \in DOMAIN p.mods[m].values THEN p.mods[m].values[c]
                           ELSE IF r >= 0 THEN p.model[r + 1].val[c] ELSE NULL]

-----------------------------------------------------------------------------
(* RowModif objects                                                        *)

Unused(p) == Modifs \ DOMAIN p.mods
NewModif(p) == CHOOSE m \in Unused(p) : \A n \in Unused(p) : m <= n
Without(f, S) == [x \in DOMAIN f \ S |-> f[x]]
With(f, x, v) == [y \in DOMAIN f \cup {x} |-> IF y = x THEN v ELSE f[y]]

\* row_modifs_new() for a row of the proxied model, put in the hash table
AddModif(p, row, deleted) ==
    LET m == NewModif(p)
        r == ProxyToModel(p, row)
    IN  [p EXCEPT !.mods = With(@, m, [model_row |-> r, to_be_deleted |-> deleted, values |-> << >>,
                                       orig |-> p.model[r + 1].val, id |-> p.model[r + 1].id]),
                  !.modify_rows = With(@, r, m),
                  !.all_modifs = <<m>> \o @]

\* Taken out of the lists and freed; `key' is taken out of the hash table.
DropModif(p, m, key) ==
    [p EXCEPT !.mods = Without(@, {m}), !.modify_rows = Without(@, {key}),
              !.all_modifs = RemoveFirst(@, m), !.new_rows = RemoveFirst(@, m)]

\* A new row is taken out of the chunk.
UncoverNewRow(p, row) ==
    LET abs == ProxyToAbsolute(p, row)
        moved == [k \in DOMAIN p.chunk |-> IF p.chunk[k] > abs THEN p.chunk[k] - 1 ELSE p.chunk[k]]
    IN  IF p.chunk = NoChunk THEN p
        ELSE [p EXCEPT !.chunk = RemoveAt(moved, row - Offset(p) + 1)]

\* The RowModif of the rows after `row' follow them: they are put again in the
\* hash table one by one, in the order of all_modifs.
Moved(q, m, row, by) ==
    LET from == q.mods[m].model_row
        to   == from + by
    IN  IF from > row
        THEN [q EXCEPT !.mods[m].model_row = to, !.modify_rows = With(Without(@, {from}), to, m)]
        ELSE q
Rekey(p, row, by) ==
    LET after[k \in 0 .. Len(p.all_modifs)] ==
          IF k = 0 THEN p ELSE Moved(after[k - 1], p.all_modifs[k], row, by)
    IN  after[Len(p.all_modifs)]

-----------------------------------------------------------------------------
(* The sample: chunk is shown, chunk_to is to be shown                     *)

Quotient(a, b) == IF a < 0 THEN -((-a) \div b) ELSE a \div b
SampleFirst(p) ==
    IF p.sample_size = 0 THEN 0
    ELSE IF p.sample_first_row >= NbRows(p)
    THEN p.sample_size * Quotient(NbRows(p) - 1, p.sample_size)
    ELSE p.sample_first_row

\* compute_display_chunk()
DisplayChunk_mutant(p) ==
    LET last == IF SampleFirst(p) + p.sample_size >= NbRows(p) THEN NbRows(p) - 1
                ELSE SampleFirst(p) + p.sample_size - 1
    IN  IF p.sample_size = 0 THEN Direct
        ELSE [k \in 1 .. last - SampleFirst(p) + 1 |-> SampleFirst(p) + k - 1]
DisplayChunk(p) ==
    LET last == IF SampleFirst(p) + p.sample_size >= NbRows(p) THEN NbRows(p) - 1
                ELSE SampleFirst(p) + p.sample_size - 1
    IN  IF p.sample_size = 0 THEN Direct
        ELSE [k \in 1 .. last - SampleFirst(p) + 1 |-> SampleFirst(p) + k - 1]
               \o [k \in DOMAIN p.new_rows |-> NbRows(p) + k - 1]

\* One turn of the loop of chunk_sync_idle(): a row is replaced, removed or
\* inserted, or the rows have all been done.
SyncStep(p) ==
    LET at == p.chunk_sep
        cur == IF p.chunk # NoChunk THEN at >= 0 /\ at < Len(p.chunk)
               ELSE at >= 0 /\ at < p.chunk_proxy_nb_rows
        repl == at >= 0 /\ at < (IF p.chunk_to = Direct THEN NbRows(p) ELSE Len(p.chunk_to))
        new == IF p.chunk_to = Direct THEN at ELSE p.chunk_to[at + 1]
        Changed(chunk) == IF p.chunk = NoChunk THEN NoChunk ELSE chunk
    IN  IF p.chunk_to = NoChunk THEN p
        ELSE IF cur /\ repl
        THEN [p EXCEPT !.chunk = Changed(ReplaceAt(@, at + 1, new)), !.chunk_sep = at + 1]
        ELSE IF cur
        THEN [p EXCEPT !.chunk = Changed(RemoveAt(@, at + 1)), !.chunk_proxy_nb_rows = @ - 1,
                       !.told = @ - 1]
        ELSE IF repl
        THEN [p EXCEPT !.chunk = Changed(InsertAt(@, at + 1, new)), !.chunk_sep = at + 1,
                       !.told = @ + 1]
        ELSE [p EXCEPT !.chunk = IF p.chunk_to = Direct THEN NoChunk ELSE p.chunk_to,
                       !.chunk_to = NoChunk, !.chunk_sync_idle_id = FALSE,
                       !.chunk_sep = 0, !.chunk_proxy_nb_rows = 0,
                       !.faults = IF p.chunk # NoChunk /\ p.chunk_to = Direct /\ p.new_rows # << >>
                                  THEN @ \cup {"new rows not announced"} ELSE @]

\* The turns chunk_sync_idle() makes: one more than there are rows to do.
MaxSteps(p, deferred) ==
    LET left == {Len(c) - p.chunk_sep + 1 : c \in {d \in {p.chunk, p.chunk_to} : HasMapping(d)}}
                  \cup (IF HasMapping(p.chunk) /\ HasMapping(p.chunk_to) THEN {}
                        ELSE {p.chunk_proxy_nb_rows - p.chunk_sep + 1}) \cup {0}
        most == CHOOSE n \in left : \A i \in left : i <= n
    IN  IF deferred /\ IDLE_STEP < most THEN IDLE_STEP ELSE most

\* chunk_sync_idle(), called in the background or for the whole
Steps(q, n) ==
    LET after[k \in 0 .. n] == IF k = 0 THEN q ELSE SyncStep(after[k - 1])
    IN  after[n]
Sync(p, deferred) ==
    LET q == [p EXCEPT !.chunk_sync_idle_id = @ /\ deferred,
                       !.chunk_proxy_nb_rows = IF @ < 0 THEN NbRows(p) + Len(p.new_rows) ELSE @]
    IN  IF p.chunk_to = NoChunk THEN [p EXCEPT !.chunk_sync_idle_id = @ /\ deferred]
        ELSE Steps(q, MaxSteps(q, deferred))

\* ensure_chunk_sync()
EnsureSync(p) == IF p.chunk_sync_idle_id THEN Sync(p, FALSE) ELSE p

\* adjust_displayed_chunk()
Adjust(p) ==
    LET to == DisplayChunk(p)
        q  == [p EXCEPT !.sample_first_row = SampleFirst(p), !.chunk_sync_idle_id = FALSE,
                        !.chunk_to = to]
        changed == [q EXCEPT !.chunk_sep = 0, !.chunk_proxy_nb_rows = -1]
    IN  IF p.chunk = to \/ (p.chunk = NoChunk /\ to = Direct) THEN [q EXCEPT !.chunk_to = NoChunk]
        ELSE IF p.defer_sync THEN [changed EXCEPT !.chunk_sync_idle_id = TRUE]
        ELSE Sync(changed, FALSE)

-----------------------------------------------------------------------------
(* Signals of the proxied model                                            *)

\* The callbacks look at the mapping of chunk and of chunk_to when there is one.
NullMapping_mutant(p) == p.chunk = NoChunk \/ p.chunk_to = Direct
NullMapping(p) == p.chunk_to # NoChunk /\ (p.chunk = NoChunk \/ p.chunk_to = Direct)

Shift(chunk, row, by) ==
    IF ~HasMapping(chunk) THEN chunk
    ELSE [k \in DOMAIN chunk |-> IF chunk[k] >= row THEN chunk[k] + by ELSE chunk[k]]

\* proxied_model_row_inserted_cb(); `deferred' is defer_proxied_model_insert
RowInserted(p, new, deferred) ==
    LET row == NbRows(p)
        q   == Rekey(p, row, 1)
    IN  [q EXCEPT !.model = Append(@, new),
                  !.chunk = Shift(@, row, 1),
                  !.chunk_to = Shift(@, row, -1),
                  !.told = IF deferred \/ p.chunk # NoChunk \/ p.chunk_to # NoChunk
                           THEN @ ELSE @ + 1]

\* proxied_model_row_updated_cb()
RowUpdated_mutant(p, row, val) == [p EXCEPT !.model[row + 1].val = val]
RowUpdated(p, row, val) ==
    LET q == [p EXCEPT !.model[row + 1].val = val]
    IN  IF row \in DOMAIN p.modify_rows THEN DropModif(q, p.modify_rows[row], row) ELSE q

\* proxied_model_row_removed_cb()
Uncover(chunk, row) ==
    IF ~HasMapping(chunk) THEN chunk
    ELSE LET moved == [k \in DOMAIN chunk |-> IF chunk[k] > row THEN chunk[k] - 1 ELSE chunk[k]]
         IN  IF Contains(chunk, row) THEN RemoveAt(moved, Position(chunk, row)) ELSE moved
RowRemoved(p, row) ==
    LET at == AbsoluteToProxy(p, row)
        q  == [p EXCEPT !.chunk = Uncover(@, row), !.chunk_to = Uncover(@, row),
                        !.chunk_sep = IF ~Settled(p) /\ at >= 0 /\ @ >= at - Offset(p)
                                      THEN @ - 1 ELSE @,
                        !.chunk_proxy_nb_rows = IF Settled(p) THEN @ ELSE @ - 1,
                        !.told = IF at >= 0 THEN @ - 1 ELSE @]
        r  == IF row \in DOMAIN q.modify_rows THEN DropModif(q, q.modify_rows[row], row) ELSE q
    IN  [Rekey(r, row, -1) EXCEPT !.model = RemoveAt(@, row + 1)]

-----------------------------------------------------------------------------
(* What the methods do to the state                                        *)

\* gda_data_proxy_set_value_at(), of a row that exists
SetValueAt(p, row, col, v) ==
    LET q    == IF ProxyToModif(p, row) = NULL THEN AddModif(p, row, FALSE) ELSE p
        m    == ProxyToModif(q, row)
        rm   == q.mods[m]
        back == col \in DOMAIN rm.values /\ rm.orig # NULL /\ rm.orig[col] = v
        r    == [q EXCEPT !.mods[m].values = IF back THEN Without(@, {col}) ELSE With(@, col, v)]
    IN  IF Shown(p, row)[col] = v THEN p
        ELSE IF ~rm.to_be_deleted /\ r.mods[m].values = << >> /\ rm.model_row >= 0
        THEN DropModif(r, m, rm.model_row)
        ELSE r

\* gda_data_proxy_append(), without the signal
AppendNew_mutant(p, id) ==
    LET m == NewModif(p)
    IN  [p EXCEPT !.mods = With(@, m, [model_row |-> -1, to_be_deleted |-> FALSE,
                                       values |-> [c \in Columns |-> NULL],
                                       orig |-> NULL, id |-> id]),
                  !.all_modifs = <<m>> \o @, !.new_rows = Append(@, m)]
AppendNew(p, id) ==
    LET m == NewModif(p)
        q == [p EXCEPT !.mods = With(@, m, [model_row |-> -1, to_be_deleted |-> FALSE,
                                            values |-> [c \in Columns |-> NULL],
                                            orig |-> NULL, id |-> id]),
                       !.all_modifs = <<m>> \o @, !.new_rows = Append(@, m)]
    IN  [q EXCEPT !.chunk = IF @ = NoChunk THEN @ ELSE Append(@, ModifToAbsolute(q, m))]

\* gda_data_proxy_delete(): a new row is taken away, another one is marked.
Delete(p, row) ==
    LET m == ProxyToModif(p, row)
    IN  IF m = NULL THEN AddModif(p, row, TRUE)
        ELSE IF p.mods[m].model_row = -1
        THEN [UncoverNewRow(DropModif(p, m, -1), row) EXCEPT !.told = @ - 1]
        ELSE [p EXCEPT !.mods[m].to_be_deleted = TRUE]

\* gda_data_proxy_undelete()
Undelete(p, row) ==
    LET m == ProxyToModif(p, row)
    IN  IF m = NULL THEN p
        ELSE IF p.mods[m].values = << >> THEN DropModif(p, m, ProxyToModel(p, row))
        ELSE [p EXCEPT !.mods[m].to_be_deleted = FALSE]

\* gda_data_proxy_cancel_row_changes(), for some columns
CancelRow(p, row, cols) ==
    LET m    == ProxyToModif(p, row)
        rm   == p.mods[m]
        left == Without(rm.values, cols)
    IN  IF m = NULL THEN p
        ELSE IF DOMAIN rm.values \cap cols = {} THEN p
        ELSE IF left # << >> \/ rm.to_be_deleted THEN [p EXCEPT !.mods[m].values = left]
        ELSE IF rm.model_row < 0
        THEN [UncoverNewRow(DropModif(p, m, -1), row) EXCEPT !.told = @ - 1]
        ELSE DropModif(p, m, rm.model_row)

\* gda_data_proxy_cancel_all_changes(): chunk_to is chunk less the new rows, each
\* of them first in new_rows when its row is looked for.
Uncovered(q) ==
    LET row == AbsoluteToProxy(q, ModifToAbsolute(q, Head(q.new_rows)))
    IN  [q EXCEPT !.new_rows = Tail(@),
                  !.chunk_to = IF row < 0 THEN @ ELSE RemoveAt(@, row - Offset(q) + 1)]
AllUncovered(q) ==
    LET after[k \in 0 .. Len(q.new_rows)] == IF k = 0 THEN q ELSE Uncovered(after[k - 1])
    IN  after[Len(q.new_rows)]
CancelAll(p) ==
    LET less == AllUncovered([p EXCEPT !.chunk_to = p.chunk, !.chunk_sep = 0,
                                       !.chunk_proxy_nb_rows = -1])
        rid  == IF p.new_rows = << >> THEN p
                ELSE IF p.chunk = NoChunk
                THEN [p EXCEPT !.new_rows = << >>, !.told = @ - Len(p.new_rows)]
                ELSE Sync(less, FALSE)
    IN  [rid EXCEPT !.all_modifs = << >>, !.mods = Without(@, ToSet(p.all_modifs)),
                    !.modify_rows = Without(@, {p.mods[m].model_row : m \in ToSet(p.all_modifs)})]

\* commit_row_modif() when the proxied model accepts the change: the callbacks
\* drop the RowModif, or else it is dropped afterwards.
Written_mutant(p, rm) == [c \in Columns |-> IF c \in DOMAIN rm.values THEN rm.values[c] ELSE NULL]
Written(p, rm) == [c \in Columns |-> IF c \in DOMAIN rm.values THEN rm.values[c]
                                    ELSE IF rm.model_row >= 0 THEN rm.orig[c] ELSE NULL]
Commit(p, m) ==
    LET rm   == p.mods[m]
        done == IF rm.to_be_deleted THEN RowRemoved(p, rm.model_row)
                ELSE IF rm.model_row >= 0 THEN RowUpdated(p, rm.model_row, Written(p, rm))
                ELSE RowInserted(p, [id |-> rm.id, val |-> Written(p, rm)], TRUE)
    IN  IF m \in DOMAIN done.mods /\ Contains(done.all_modifs, m)
        THEN DropModif(done, m, done.mods[m].model_row) ELSE done
CommitFirst(p) == IF p.all_modifs = << >> THEN p ELSE Commit(p, Head(p.all_modifs))
CommitAll(p, n) ==
    LET after[k \in 0 .. n] == IF k = 0 THEN p ELSE CommitFirst(after[k - 1])
    IN  after[n]

-----------------------------------------------------------------------------
(* The cache of changes, kept when the proxied model is replaced           *)

\* migrate_current_changes_to_cache()
Cached(q) ==
    LET m == Head(q.all_modifs)
    IN  IF q.mods[m].model_row = -1
        THEN [q EXCEPT !.all_modifs = Tail(@), !.cached_inserts = <<m>> \o @]
        ELSE [q EXCEPT !.all_modifs = Tail(@), !.cached_modifs = <<m>> \o @]
AllCached(p) ==
    LET after[k \in 0 .. Len(p.all_modifs)] == IF k = 0 THEN p ELSE Cached(after[k - 1])
    IN  after[Len(p.all_modifs)]
Migrate(p) == [AllCached(p) EXCEPT !.new_rows = << >>, !.modify_rows = << >>]

\* fetch_current_cached_changes(): each row takes the first change that was made
\* to a row with its values.
Fetched_mutant(p, m) == p.cached_modifs
Fetched(p, m) == RemoveFirst(p.cached_modifs, m)
Match(q, val) == SelectInSeq(q.cached_modifs, LAMBDA m : q.mods[m].orig = val)
Taken(q, row) ==
    LET new == q.model[row]
        k   == Match(q, new.val)
        m   == q.cached_modifs[k]
    IN  IF k = 0 THEN q
        ELSE [q EXCEPT !.cached_modifs = Fetched(q, m), !.all_modifs = <<m>> \o @,
                       !.mods[m].model_row = row - 1, !.mods[m].id = new.id,
                       !.modify_rows = With(@, row - 1, m)]
AllTaken(q) ==
    LET after[row \in 0 .. Len(q.model)] == IF row = 0 THEN q ELSE Taken(after[row - 1], row)
    IN  after[Len(q.model)]
Fetch(p) == AllTaken([p EXCEPT !.all_modifs = Reverse(p.cached_inserts) \o @,
                               !.new_rows = @ \o p.cached_inserts, !.cached_inserts = << >>])

\* clean_proxy() and do_init(), the new rows of the model, its chunk (there is no
\* sample any more), the changes of the cache
Renew(p, model) ==
    LET q == CancelAll(EnsureSync(p))
        r == IF p.all_modifs = << >> THEN p ELSE q
        s == [r EXCEPT !.model = model, !.modify_rows = << >>, !.new_rows = << >>,
                       !.chunk = NoChunk, !.chunk_to = NoChunk, !.chunk_sync_idle_id = FALSE,
                       !.sample_size = 0, !.sample_first_row = 0]
        t == IF p.cache_changes THEN Fetch(s) ELSE s
    IN  [t EXCEPT !.told = NRows(t)]

-----------------------------------------------------------------------------
(* The methods.  Each first finishes a synchronisation that is under way,  *)
(* with a row number its caller chose before.                              *)

KeyOf(p, m) == LET r == p.mods[m].model_row
               IN  r \in DOMAIN p.modify_rows /\ p.modify_rows[r] = m
\* What is not as the struct's comments have it: modify_rows lost an entry when the
\* rows were put again, or a row -1 is shown (a sample of one row of no rows).
Broken(p) ==
    (IF \E m \in ToSet(p.all_modifs) : p.mods[m].model_row >= 0 /\ ~KeyOf(p, m)
     THEN {"lost entry"} ELSE {})
      \cup (IF HasMapping(p.chunk) /\ Contains(p.chunk, -1) THEN {"no row"} ELSE {})

Init ==
    \E size \in SampleSizes, null \in NullEntries, defer \in Defers, cache \in Caches,
          val \in [1 .. NRowsAtStart -> Contents] :
         LET p == [model |-> [k \in 1 .. NRowsAtStart |-> [id |-> SetToSeq(Ids)[k], val |-> val[k]]],
                   mods |-> << >>, all_modifs |-> << >>, new_rows |-> << >>, modify_rows |-> << >>,
                   cached_modifs |-> << >>, cached_inserts |-> << >>, cache_changes |-> cache,
                   chunk |-> NoChunk, chunk_to |-> NoChunk, chunk_sep |-> 0,
                   chunk_proxy_nb_rows |-> 0, chunk_sync_idle_id |-> FALSE,
                   sample_size |-> size, sample_first_row |-> 0,
                   add_null_entry |-> null, defer_sync |-> defer, told |-> 0, faults |-> {}]
             q == [p EXCEPT !.chunk = IF size = 0 THEN NoChunk ELSE DisplayChunk(p),
                            !.sample_first_row = SampleFirst(p)]
         IN  proxy = [q EXCEPT !.told = NRows(q), !.faults = Broken(q)]

Synced == EnsureSync(proxy)
Rows == 0 .. NRows(proxy) - 1
Running == proxy.faults = {}

Becomes(p) == proxy' = [p EXCEPT !.faults = @ \cup Broken(p)]
Crashes == proxy' = [proxy EXCEPT !.faults = {"crash"}]
HasRoom(p, row) == ProxyToModif(p, row) # NULL \/ Unused(p) # {}
IsNullEntry(row) == proxy.add_null_entry /\ row = 0
UsedIds == {proxy.model[k].id : k \in DOMAIN proxy.model}
             \cup {proxy.mods[m].id : m \in DOMAIN proxy.mods}
\* The identities are all alike: any that is not used will do.
FreshId == CHOOSE i \in Ids \ UsedIds : TRUE

\* A row number that is no longer a row: find_or_create_row_modif() asserts.
IsRow(p, row) == ProxyToModif(p, row) # NULL \/ ProxyToModel(p, row) >= 0

SetValue(row, col, v) ==
    /\ Running /\ HasRoom(Synced, row)
    /\ IF IsNullEntry(row) THEN Becomes(Synced)
       ELSE IF IsRow(Synced, row) THEN Becomes(SetValueAt(Synced, row, col, v)) ELSE Crashes

\* Where the code makes a RowModif that has no row, it crashes when it is applied.
DeleteRow(row) ==
    /\ Running /\ HasRoom(Synced, row)
    /\ IF IsNullEntry(row) THEN Becomes(Synced)
       ELSE IF IsRow(Synced, row) THEN Becomes(Delete(Synced, row)) ELSE Crashes

UndeleteRow(row) == Running /\ Becomes(Undelete(Synced, row))

\* gda_data_model_append_row() or gda_data_model_append_values()
AppendRow(val) ==
    /\ Running /\ Unused(proxy) # {} /\ UsedIds # Ids
    /\ LET q == AppendNew(Synced, FreshId)
       IN  Becomes([q EXCEPT !.mods[NewModif(Synced)].values = val, !.told = @ + 1])

CancelRowChanges(row, cols) == Running /\ Becomes(CancelRow(Synced, row, cols))
CancelAllChanges == Running /\ Becomes(CancelAll(Synced))

\* gda_data_proxy_apply_row_changes(): the RowModif is looked for first.  The
\* change may be refused by the application, or by the proxied model.
ApplyRowChanges(row) ==
    LET m == ProxyToModif(proxy, row)
    IN  /\ Running /\ m # NULL
        /\ \/ Becomes(Synced)
           \/ Becomes(Adjust(Synced))
           \/ Becomes(Adjust(Commit(Synced, m)))

\* gda_data_proxy_apply_all_changes(): up to the first one that is refused.
ApplyAllChanges(n) == Running /\ Becomes(Adjust(CommitAll(Synced, n)))

SetSampleSize(n) ==
    /\ Running
    /\ Becomes(IF Synced.sample_size = n THEN Synced ELSE Adjust([Synced EXCEPT !.sample_size = n]))
SetSampleStart(k) ==
    /\ Running
    /\ Becomes(IF Synced.sample_first_row = k THEN Synced
               ELSE Adjust([Synced EXCEPT !.sample_first_row = k]))

\* The properties "prepend-null-entry", "defer-sync" and "cache-changes"
SetPrependNull(b) ==
    /\ Running /\ b # proxy.add_null_entry
    /\ Becomes([proxy EXCEPT !.add_null_entry = b, !.told = IF b THEN @ + 1 ELSE @ - 1])
SetDeferSync(b) ==
    LET p == [proxy EXCEPT !.defer_sync = b]
    IN  Running /\ Becomes(IF ~b /\ p.chunk_sync_idle_id THEN Sync(p, FALSE) ELSE p)
SetCacheChanges(b) ==
    /\ Running
    /\ Becomes([proxy EXCEPT !.cache_changes = b,
                  !.cached_modifs = IF b THEN @ ELSE << >>, !.cached_inserts = IF b THEN @ ELSE << >>,
                  !.mods = IF b THEN @ ELSE Without(@, ToSet(proxy.cached_modifs \o proxy.cached_inserts))])

\* The main loop calls chunk_sync_idle().
IdleSync_mutant == /\ Running /\ proxy.chunk_sync_idle_id
                   /\ Becomes(Sync([proxy EXCEPT !.chunk_sep = 0], proxy.defer_sync))
IdleSync == /\ Running /\ proxy.chunk_sync_idle_id
            /\ \E p \in {Sync(proxy, proxy.defer_sync)} : Becomes(p)

\* The proxied model is changed by others.  When rows come and go while a
\* synchronisation is under way the numbers it works with are not kept right.
BecomesMoved(p) == Becomes(IF Settled(proxy) THEN p
                           ELSE [p EXCEPT !.faults = @ \cup {"moved while syncing"}])
OutsideInsert(val) ==
    /\ Running /\ UsedIds # Ids
    /\ IF NullMapping(proxy) THEN Crashes
       ELSE BecomesMoved(RowInserted(proxy, [id |-> FreshId, val |-> val], FALSE))
OutsideUpdate(row, val) ==
    /\ Running
    /\ IF proxy.chunk = NoChunk /\ HasMapping(proxy.chunk_to) THEN Crashes
       ELSE Becomes(RowUpdated(proxy, row, val))
\* The assertion that a row is at one place of a mapping.
Repeated(p, row) == \E c \in {p.chunk, p.chunk_to} :
                      HasMapping(c) /\ \E j, k \in DOMAIN c : j # k /\ c[j] = row /\ c[k] = row
OutsideRemove(row) ==
    /\ Running
    /\ IF NullMapping(proxy) \/ Repeated(proxy, row) THEN Crashes
       ELSE BecomesMoved(RowRemoved(proxy, row))

\* The proxied model is reset, or replaced by another, with rows like those of the
\* first one or others, and not more of them.
Renewed(p) ==
    LET id   == SetToSeq(Ids \ {p.mods[m].id : m \in DOMAIN p.mods})
        rows == {p.model[k].val : k \in DOMAIN p.model} \cup Contents
    IN  {[k \in DOMAIN val |-> [id |-> id[k], val |-> val[k]]] :
           val \in UNION {[1 .. n -> rows] : n \in 0 .. NbRows(p)}}
Reset ==
    /\ Running /\ Cardinality(Ids \ {proxy.mods[m].id : m \in DOMAIN proxy.mods}) >= NbRows(proxy)
    /\ \E model \in Renewed(proxy) : Becomes(Renew(proxy, model))
SetModel ==
    /\ Running /\ Cardinality(Ids \ {proxy.mods[m].id : m \in DOMAIN proxy.mods}) >= NbRows(proxy)
    /\ \E model \in Renewed(proxy) :
         Becomes(Renew(IF proxy.cache_changes THEN Migrate(proxy) ELSE proxy, model))

NullRow == [c \in Columns |-> NULL]

Editing ==
    \/ \E row \in Rows, col \in Columns, v \in Values \cup {NULL} : SetValue(row, col, v)
    \/ \E row \in Rows : DeleteRow(row) \/ UndeleteRow(row) \/ ApplyRowChanges(row)
    \/ \E row \in Rows, cols \in {Columns} \cup {{c} : c \in Columns} : CancelRowChanges(row, cols)
    \/ \E val \in Contents \cup {NullRow} : AppendRow(val)
    \/ CancelAllChanges
    \/ \E n \in 0 .. Len(Synced.all_modifs) : ApplyAllChanges(n)
Showing ==
    \/ \E n \in SampleSizes : SetSampleSize(n)
    \/ \E k \in 0 .. NRowsAtStart : SetSampleStart(k)
    \/ \E b \in NullEntries : SetPrependNull(b)
    \/ \E b \in Defers : SetDeferSync(b)
    \/ \E b \in Caches : SetCacheChanges(b)
    \/ IdleSync
Outside ==
    \/ \E val \in Contents : OutsideInsert(val) \/ \E k \in DOMAIN proxy.model : OutsideUpdate(k - 1, val)
    \/ \E k \in DOMAIN proxy.model : OutsideRemove(k - 1)
    \/ Reset \/ SetModel

Next == Editing \/ Showing \/ Outside

\* The main loop runs the idle callback.
Spec == Init /\ [][Next]_vars /\ WF_vars(IdleSync)

-----------------------------------------------------------------------------
(* Properties                                                              *)

Row == [Columns -> Values \cup {NULL}]
RowModif == [model_row : Int, to_be_deleted : BOOLEAN, orig : Row \cup {NULL}, id : Ids,
             values : UNION {[cols -> Values \cup {NULL}] : cols \in SUBSET Columns}]
TypeOK ==
    /\ proxy.model \in Seq([id : Ids, val : Row])
    /\ DOMAIN proxy.mods \subseteq Modifs /\ \A m \in DOMAIN proxy.mods : proxy.mods[m] \in RowModif
    /\ \A m \in ToSet(proxy.all_modifs) : proxy.mods[m].model_row \in -1 .. NbRows(proxy) - 1
    /\ {proxy.all_modifs, proxy.new_rows, proxy.cached_modifs, proxy.cached_inserts} \subseteq Seq(Modifs)
    /\ DOMAIN proxy.modify_rows \subseteq 0 .. NbRows(proxy) - 1
    /\ proxy.chunk \in Seq(Int) \cup {NoChunk} /\ proxy.chunk_to \in Seq(Int) \cup {NoChunk, Direct}
    /\ {proxy.chunk_sep, proxy.chunk_proxy_nb_rows, proxy.told, proxy.sample_first_row} \subseteq Int
    /\ proxy.sample_size \in Nat
    /\ {proxy.cache_changes, proxy.chunk_sync_idle_id, proxy.add_null_entry, proxy.defer_sync}
          \subseteq BOOLEAN

NoRepeat(s) == Cardinality(ToSet(s)) = Len(s)

\* A RowModif is in all_modifs or in one list of the cache, once; new_rows and
\* modify_rows have no other objects than those of all_modifs: none is used
\* after it has been freed, and none is freed twice.
NoDanglingModif ==
    LET lists == proxy.all_modifs \o proxy.cached_modifs \o proxy.cached_inserts
    IN  /\ NoRepeat(lists) /\ ToSet(lists) = DOMAIN proxy.mods
        /\ NoRepeat(proxy.new_rows)
        /\ ToSet(proxy.new_rows) = {m \in ToSet(proxy.all_modifs) : proxy.mods[m].model_row = -1}
        /\ \A r \in DOMAIN proxy.modify_rows :
              /\ proxy.modify_rows[r] \in ToSet(proxy.all_modifs)
              /\ proxy.mods[proxy.modify_rows[r]].model_row = r

\* Whatever rows come and go in the proxied model, a change stays with the row it
\* was made to, and keeps the values that row has in the proxied model.
EditsStayWithTheirRow ==
    \A m \in ToSet(proxy.all_modifs) :
       LET rm == proxy.mods[m]
       IN  rm.model_row >= 0 =>
             /\ proxy.model[rm.model_row + 1].id = rm.id
             /\ rm.orig = proxy.model[rm.model_row + 1].val

\* When no synchronisation is under way the rows shown exist, each once, and all
\* the new rows are shown.
ShownRowsExist ==
    Settled(proxy) /\ Running /\ proxy.chunk # NoChunk =>
       /\ NoRepeat(proxy.chunk)
       /\ ToSet(proxy.chunk) \subseteq 0 .. NbRows(proxy) + Len(proxy.new_rows) - 1
       /\ \A k \in DOMAIN proxy.new_rows : NbRows(proxy) + k - 1 \in ToSet(proxy.chunk)

\* Who follows row-inserted and row-removed knows the number of rows.
ListenersInSync == Settled(proxy) /\ Running => proxy.told = NRows(proxy)

\* An application that keeps the sample and the rows as they are sees in the end
\* the sample it asked for.
Asked == <<proxy.sample_size, proxy.sample_first_row, proxy.new_rows, proxy.model>>
SyncFinishes == <>[][UNCHANGED Asked]_vars => <>[](Settled(proxy) \/ ~Running)

\* Pointers and assertions only fail in a call made while a synchronisation was
\* under way.
CrashNeedsPendingSync == []["crash" \in proxy'.faults => ~Settled(proxy)]_vars

\* The proxy is a table with pending changes of its rows: a call changes one of
\* them, or applies some completely, and changes made by others disturb none but
\* those of their row.
ModifOf(id) == CHOOSE m \in ToSet(proxy.all_modifs) : proxy.mods[m].id = id
Table == INSTANCE EditedTable WITH
    Blank <- NullRow,
    base <- [id \in {proxy.model[k].id : k \in DOMAIN proxy.model} |->
               proxy.model[CHOOSE k \in DOMAIN proxy.model : proxy.model[k].id = id].val],
    pend <- [id \in {proxy.mods[m].id : m \in ToSet(proxy.all_modifs)} |->
               LET rm == proxy.mods[ModifOf(id)]
               IN  [deleted |-> rm.to_be_deleted, values |-> rm.values, new |-> rm.model_row = -1]]
KeepsEdits ==
    [][UNCHANGED vars \/ (proxy'.faults = {} =>
         UNCHANGED Table!vars \/ Table!Next \/ Reset \/ SetModel)]_vars
=============================================================================
