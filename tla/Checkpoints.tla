----------------------------- MODULE Checkpoints -----------------------------
(* The dense vectors of one extraction run on disk (embeddings.py and the
   embed handler of worker.py): a batch is encoded, its vectors are renamed
   into place, then their sidecar, and only then the row of embedding_batches
   is inserted; a later attempt reads what is there instead of encoding again,
   and the publisher reads it all back.

   A vector is the chunk it was made from and the attempt that made it: two
   encodings of one text need not agree to the last bit, so their files have
   different hashes. *)
EXTENDS Naturals, Sequences, FiniteSets, FiniteSetsExt, SequencesExt

CONSTANTS
    Thread,        \* worker threads, each with the handler of one embed job
    Lists,         \* what the run may be chunked into: sequences of chunk ids
    FirstList,
    Sizes,         \* values of embedding.batch_size
    FirstSize,
    Rooms,         \* how many texts the device may have room for at once
    MaxHalvings,   \* embedding.oom_max_halvings
    None,
    MaxEvents      \* crashes, lost leases, lost files and changed chunk lists

Chunk == UNION {ToSet(l) : l \in Lists}
Vectors == [ids : Seq(Chunk), by : Thread]

(* A run without chunks gets no embed job (worker.py:712). *)
ASSUME CheckpointsAssumption ==
    /\ IsFiniteSet(Lists) /\ \A l \in Lists : l \in Seq(Chunk) /\ l # <<>>
    /\ FirstList \in Lists /\ FirstSize \in Sizes
    /\ Sizes \subseteq Nat \ {0} /\ MaxHalvings \in Nat /\ Rooms \subseteq Nat
    /\ None \notin Seq(Chunk) \union Vectors \union [ids : Seq(Chunk), of : Vectors]

Index == 1 .. Max({Len(l) : l \in Lists})

VARIABLES
    chunks,      \* the chunk ids of the run, by position
    size,        \* the batch size of the running configuration
    hands,       \* worker.max_concurrent_jobs
    open,        \* the embed jobs not settled: the chunk lists they were queued for
    keys,        \* the embed jobs ever queued
    wanted,      \* a publish job is queued
    row,         \* embedding_batches: the chunk ids of each batch index
    bin,         \* the files batch_<i>.bin: chunk ids and the attempt that encoded them
    side,        \* their sidecars: chunk ids and the binary they hash
    thread,
    served,      \* the vectors the last publication loaded, by chunk
    overlapped,  \* history: two embed handlers were at work at once
    damaged,     \* history: a file was lost after it was written
    events

run == <<chunks, size, hands, open, keys, wanted>>
disk == <<row, bin, side>>
past == <<served, overlapped, damaged>>
checkpointVars == <<run, disk, thread, past, events>>

Happens == events < MaxEvents /\ events' = events + 1

Idle == [at |-> "idle", job |-> None, holds |-> FALSE,
         ids |-> <<>>, size |-> FirstSize, batch |-> 1, got |-> <<>>]

CheckpointsInit ==
    /\ chunks = FirstList /\ size = FirstSize /\ hands \in 1 .. Cardinality(Thread)
    /\ open = {FirstList} /\ keys = {FirstList} /\ wanted = FALSE
    /\ row = [i \in Index |-> None]
    /\ bin = [i \in Index |-> None]
    /\ side = [i \in Index |-> None]
    /\ thread = [w \in Thread |-> Idle]
    /\ served = <<>>
    /\ overlapped = FALSE /\ damaged = FALSE
    /\ events = 0

-----------------------------------------------------------------------------
(* Encoding *)

(* encode_batch_oom: the texts in calls of k, k halved and the same texts tried
   again whenever the device has no room. {} when the halvings are used up or a
   single text does not fit. *)
Calling == [room : Rooms, rest : Seq(Chunk), k : Nat \ {0}, left : Nat]

Calls[c \in Calling] ==
    LET call == SubSeq(c.rest, 1, Min({c.k, Len(c.rest)}))
        others == SubSeq(c.rest, Len(call) + 1, Len(c.rest))
    IN  IF c.rest = <<>> THEN {<<>>}
        ELSE IF Len(call) <= c.room
        THEN {call \o out : out \in Calls[[c EXCEPT !.rest = others]]}
        ELSE IF c.k = 1 \/ c.left = 0 THEN {}
        ELSE Calls[[c EXCEPT !.k = c.k \div 2, !.left = c.left - 1]]

Encoded(ids, n, room) == Calls[[room |-> room, rest |-> ids, k |-> n, left |-> MaxHalvings]]

-----------------------------------------------------------------------------
(* Reading back *)

SlipAccepts(i, ids) ==   \* the recorded hash is not compared
    /\ bin[i] # None /\ side[i] # None
    /\ Len(bin[i].ids) = Len(ids)
    /\ side[i].ids = ids

(* read_checkpoint: both files are there, the sidecar hashes this binary and
   lists these chunks. *)
Accepts(i, ids) ==
    /\ bin[i] # None /\ side[i] # None
    /\ side[i].of = bin[i]
    /\ side[i].ids = ids

Written == {i \in Index : row[i] # None}

(* _load_run_vectors: every row is read, by the chunk ids of the row; all chunks
   of the run must have a vector. The vector of a chunk is the chunk its text
   was taken from. *)
Loads ==
    /\ Written # {}
    /\ \A i \in Written : Accepts(i, row[i])
    /\ ToSet(chunks) \subseteq UNION {ToSet(row[i]) : i \in Written}

LastOf(c) == Max({i \in Written : c \in ToSet(row[i])})
Vector(c) == bin[LastOf(c)].ids[CHOOSE k \in DOMAIN row[LastOf(c)] : row[LastOf(c)][k] = c]

-----------------------------------------------------------------------------
(* The embed handler *)

Batch(ids, n, i) == SubSeq(ids, (i - 1) * n + 1, Min({i * n, Len(ids)}))
Batches(ids, n) == (Len(ids) + n - 1) \div n

At(w, place) == thread' = [thread EXCEPT ![w].at = place]
Leave(w) == thread' = [thread EXCEPT ![w] = Idle]
Busy == {w \in Thread : thread[w].at # "idle"}
Current(w) == Batch(thread[w].ids, thread[w].size, thread[w].batch)

(* _run_embed starts: the job is claimed, or taken over when its lease ran out;
   whichever list it was queued for, the chunks are those of now. *)
Begin(w) ==
    /\ thread[w].at = "idle" /\ Cardinality(Busy) < hands
    /\ \E job \in open :
        /\ \A u \in Thread : ~(thread[u].holds /\ thread[u].job = job)
        /\ thread' = [thread EXCEPT ![w] = [at |-> "look", job |-> job, holds |-> TRUE,
                                            ids |-> chunks, size |-> size, batch |-> 1,
                                            got |-> <<>>]]
    /\ overlapped' = (overlapped \/ Busy # {})
    /\ UNCHANGED <<run, disk, served, damaged, events>>

SlipLook(w) ==   \* what is recorded is not read back
    LET i == thread[w].batch
    IN  /\ thread[w].at = "look"
        /\ i <= Batches(thread[w].ids, thread[w].size)
        /\ At(w, "encode")
        /\ UNCHANGED <<run, disk, past, events>>

(* The row of the next batch is looked up and, if there, its files are read. *)
Look(w) ==
    LET h == thread[w]
        i == h.batch
    IN  /\ h.at = "look"
        /\ i <= Batches(h.ids, h.size)
        /\ thread' = [thread EXCEPT
              ![w] = IF row[i] = None THEN [h EXCEPT !.at = "encode"]
                     ELSE IF Accepts(i, Current(w)) THEN [h EXCEPT !.batch = i + 1]
                     ELSE [h EXCEPT !.at = "drop"]]
        /\ UNCHANGED <<run, disk, past, events>>

(* Unreadable: the row goes before the batch is encoded again. *)
SlipDrop(w) ==   \* the row stays, and the insert after the encoding does nothing
    /\ thread[w].at = "drop"
    /\ At(w, "encode")
    /\ UNCHANGED <<run, disk, past, events>>

Drop(w) ==
    /\ thread[w].at = "drop"
    /\ row' = [row EXCEPT ![thread[w].batch] = None]
    /\ At(w, "encode")
    /\ UNCHANGED <<run, bin, side, past, events>>

(* The vectors arrive and are renamed into place. *)
WriteVectors(w) ==
    /\ thread[w].at = "encode"
    /\ \E room \in Rooms : \E out \in Encoded(Current(w), thread[w].size, room) :
        /\ bin' = [bin EXCEPT ![thread[w].batch] = [ids |-> out, by |-> w]]
        /\ thread' = [thread EXCEPT ![w].at = "side", ![w].got = out]
    /\ UNCHANGED <<run, row, side, past, events>>

(* No room, or no server of the pool answers: the attempt fails and the job is
   claimed again later. *)
Fail(w) ==
    /\ thread[w].at = "encode"
    /\ Leave(w)
    /\ UNCHANGED <<run, disk, past, events>>

WriteSidecar(w) ==
    LET i == thread[w].batch
    IN  /\ thread[w].at = "side"
        \* the hash is of the bytes in memory, not of the file as it is by now
        /\ side' = [side EXCEPT ![i] = [ids |-> Current(w),
                                        of |-> [ids |-> thread[w].got, by |-> w]]]
        /\ thread' = [thread EXCEPT ![w].at = "row", ![w].got = <<>>]
        /\ UNCHANGED <<run, row, bin, past, events>>

(* INSERT OR IGNORE of the row, then the heartbeat: an attempt that lost its
   lease stops here. *)
InsertRow(w) ==
    LET i == thread[w].batch
    IN  /\ thread[w].at = "row"
        /\ row' = [row EXCEPT ![i] = IF @ = None THEN Current(w) ELSE @]
        /\ IF thread[w].holds
           THEN thread' = [thread EXCEPT ![w].batch = i + 1, ![w].at = "look"]
           ELSE Leave(w)
        /\ UNCHANGED <<run, bin, side, past, events>>

(* All batches done: the publish job is queued, then the embed job committed. *)
Finish(w) ==
    /\ thread[w].at = "look"
    /\ thread[w].batch > Batches(thread[w].ids, thread[w].size)
    /\ wanted' = TRUE
    /\ open' = IF thread[w].holds THEN open \ {thread[w].job} ELSE open
    /\ Leave(w)
    /\ UNCHANGED <<chunks, size, hands, keys, disk, past, events>>

(* A publication reads the vectors back; it fails, to be tried again, if that
   is not possible. *)
Publish ==
    /\ wanted /\ Loads
    /\ served' = [c \in ToSet(chunks) |-> Vector(c)]
    /\ wanted' = FALSE
    /\ UNCHANGED <<chunks, size, hands, open, keys, disk, thread, overlapped, damaged, events>>

(* A chunk job of another fingerprint commits its list and queues its embed job.
   A fingerprint that was there before has a settled chunk job, which is not
   queued a second time. *)
Rechunk ==
    /\ Happens
    /\ \E l \in Lists \ keys :
        /\ chunks' = l
        /\ open' = open \union {l}
        /\ keys' = keys \union {l}
    /\ Cardinality(Busy) < hands
    /\ UNCHANGED <<size, hands, wanted, disk, thread, past>>

(* A batch takes longer than the lease, and the job is free to be claimed. *)
LeaseLost(w) ==
    /\ Happens
    /\ thread[w].holds
    /\ thread' = [thread EXCEPT ![w].holds = FALSE]
    /\ UNCHANGED <<run, disk, past>>

(* The worker dies and is started again, maybe with another batch size. *)
Crash ==
    /\ Happens
    /\ thread' = [w \in Thread |-> Idle]
    /\ size' \in Sizes
    /\ UNCHANGED <<chunks, hands, open, keys, wanted, disk, past>>

(* A file is lost or goes bad on the disk. *)
Damage ==
    /\ Happens
    /\ \E i \in Index : bin[i] # None /\ bin' = [bin EXCEPT ![i] = None]
    /\ damaged' = TRUE
    /\ UNCHANGED <<run, row, side, thread, served, overlapped>>

Embeds(w) ==
    \/ Begin(w) \/ Look(w) \/ Drop(w) \/ WriteVectors(w) \/ Fail(w)
    \/ WriteSidecar(w) \/ InsertRow(w) \/ Finish(w)

CheckpointsNext ==
    \/ \E w \in Thread : Embeds(w) \/ LeaseLost(w)
    \/ Publish \/ Rechunk \/ Crash \/ Damage

CheckpointsSpec == CheckpointsInit /\ [][CheckpointsNext]_checkpointVars

-----------------------------------------------------------------------------
(* Every list of chunk ids and every place in the handler is one there is. *)
CheckpointsTypeOK ==
    LET Ids == {None} \union UNION {[1 .. n -> Chunk] : n \in Index}
    IN  /\ \A i \in Index : row[i] \in Ids
        /\ \A i \in Index : bin[i] # None => bin[i].ids \in Ids /\ bin[i].by \in Thread
        /\ \A w \in Thread : thread[w].batch \in 1 .. Cardinality(Index) + 1
        /\ open \subseteq keys /\ keys \subseteq Lists

(* "A replay must never silently reuse the wrong vectors" (embeddings.py:421):
   what a publication loads for a chunk was made from that chunk's text,
   however attempts overlap, lists change, files go bad and attempts die
   between the binary, the sidecar and the row. *)
ServedIsOwn == \A c \in DOMAIN served : served[c] = c

(* "A crash never leaves a manifest row pointing at missing or unverified
   bytes" (worker.py:745): a row can be read back with the chunk ids it lists,
   and once the embed jobs are settled the rows have a vector for every chunk,
   although the batch size and the chunk list may have changed half-way. Two
   attempts at work at once can break this for good (the files of the one, the
   row of the other), and so can the disk. *)
RunCanBeRead ==
    (~overlapped /\ ~damaged) =>
        /\ \A i \in Written : Accepts(i, row[i])
        /\ open = {} => Loads

(* Work that a crash interrupted is not done again: the vectors of a batch the
   run still has, readable and recorded, are not encoded a second time. *)
CheckpointsKept ==
    [][\A i \in Index :
         (/\ row[i] = Batch(chunks, size, i) /\ Accepts(i, row[i])
          /\ ~overlapped' /\ ~damaged')
            => bin'[i] = bin[i]]_checkpointVars

=============================================================================
