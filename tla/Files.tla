-------------------------------- MODULE Files --------------------------------
(***************************************************************************)
(* A particle file from fopen to the store: fake_file collects what the    *)
(* application writes, fclose hands it to shuffle_write, the shuffler      *)
(* carries it to the rank that owns the name (queue: enqueued, inq:        *)
(* decoded there), shuffle_handle and preload_write store it.  Application *)
(* threads run at the same time; preload_mtx makes fopen and the end of    *)
(* fclose atomic, write_mtx preload_write, and nothing the counters        *)
(* native_write and exotic_write add to.                                   *)
(*                                                                         *)
(* Every byte of a file is the file's number, so bytes that end up in the  *)
(* wrong file are seen.  Counters are sums over the ranks.  The queues'    *)
(* own behaviour is in OutQueue, DeliveryQueue, NNSend and NNWork, the     *)
(* order of flushes and barriers in Epoch: here closedir returns when the  *)
(* queues are empty.                                                       *)
(***************************************************************************)
EXTENDS Startup, FiniteSets, Bags

CONSTANTS
  Threads,     \* threads of the application
  Dirs, Names, \* where it opens files, and their names
  Chunks,      \* <<size, nitems>> it passes to fwrite
  MaxFiles,    \* bound: files it opens; env.files in an environment
  MaxEpochs,   \* bound: epochs
  Envs         \* the environments preload_init may find.  In a tidy one the
               \* application opens and closes files of the configured format
               \* only, and closes all of them before closedir

VARIABLES
  num_epochs,
  dir,         \* between opendir and closedir
  pc,          \* of a thread: "idle", "open", "count", "store", "free"
  app,         \* the file a thread has open: handle, number, bytes written
  opened,      \* files opened so far
  file,        \* directory, name and data of the fake_files
  isdeltafs, vpic_file,   \* vpic_file: the static buffer is free
  fnames,
  mctx,        \* nw, ncw, nlw, nfw
  nlw_read,    \* what a thread has read of nlw
  queue, inq,
  store,       \* records in the storage backend
  side,        \* what sideio has appended
  smap,        \* sampled names and their counts
  written,     \* history: records the application has closed
  raced        \* history: two threads were adding to nlw

fileVars  == <<app, opened, file, isdeltafs, vpic_file>>
countVars == <<mctx, nlw_read, raced>>
storeVars == <<store, side, smap, written>>
vars == <<phase, env, startVars, aborted, num_epochs, dir, pc, fileVars, fnames,
          countVars, queue, inq, storeVars>>

Buffer == 0    \* vpic_file_buffer; a file of its own has its number
NoFile == [h |-> -1, id |-> 0, n |-> 0]
NoData == [dir |-> <<>>, name |-> <<>>, data |-> <<>>]
Running == phase = "run" /\ aborted = "no"
Abort(where) ==
  /\ aborted' = where
  /\ UNCHANGED <<phase, startVars, num_epochs, dir, pc, fileVars, fnames,
                 countVars, queue, inq, storeVars>>

Init ==
  /\ env \in Envs
  /\ StartInit
  /\ num_epochs = 0 /\ dir = FALSE
  /\ pc = [t \in Threads |-> "idle"]
  /\ app = [t \in Threads |-> NoFile]
  /\ opened = 0
  /\ file = [h \in 0..MaxFiles |-> NoData]
  /\ isdeltafs = {} /\ vpic_file = TRUE
  /\ fnames = {}
  /\ mctx = [nw |-> 0, ncw |-> 0, nlw |-> 0, nfw |-> 0]
  /\ nlw_read = [t \in Threads |-> 0]
  /\ raced = FALSE
  /\ queue = <<>> /\ inq = <<>>
  /\ store = EmptyBag /\ side = EmptyBag /\ smap = EmptyBag /\ written = EmptyBag

-----------------------------------------------------------------------------
(* MPI_Init, opendir and closedir.                                         *)

\* the barrier after shuffle_init, then the directory
MPI_Init ==
  /\ phase = "start" /\ aborted = "no"
  /\ ShuffleOn => listening = LocalRanks
  /\ IF Mounted(env) /\ MPI_Init_aborts(env)
       THEN Abort("MPI_Init")
       ELSE /\ phase' = "run"
            /\ UNCHANGED <<startVars, aborted, num_epochs, dir, pc, fileVars,
                           fnames, countVars, queue, inq, storeVars>>
  /\ UNCHANGED env

\* "plfsdir not opened", at the epoch flush and at the pre-flush
NotOpened ==
  /\ Receiver(env) /\ ~IS_BYPASS(env, "write")
  /\ IF IS_BYPASS(env, "namespace") THEN ~plfshdl_opened(env)
     ELSE env.bypass \cap {"plfsdir", "deltafs"} = {} /\ ~plfsfd_opened(env)

Outside == \A t \in Threads : pc[t] \in {"idle", "open"}

\* opendir with monitoring on: mon_reinit, and fnames starts anew
opendir ==
  /\ Running /\ Mounted(env) /\ ~dir /\ Outside /\ num_epochs < MaxEpochs
  /\ IF num_epochs # 0 /\ NotOpened
       THEN Abort("not opened")
       ELSE /\ num_epochs' = num_epochs + 1
            /\ dir' = TRUE
            /\ mctx' = [c \in DOMAIN mctx |-> 0]
            /\ fnames' = {}
            /\ UNCHANGED <<phase, startVars, aborted, pc, fileVars, nlw_read,
                           raced, queue, inq, storeVars>>
  /\ UNCHANGED env

\* closedir with pre_flushing set, its flush of the shuffler included
closedir ==
  /\ Running /\ dir /\ Outside /\ queue = <<>> /\ inq = <<>>
  /\ env.tidy => \A t \in Threads : pc[t] = "idle"
  /\ IF env.checks /\ isdeltafs # {}
       THEN Abort("closedir")
     ELSE IF IS_BYPASS(env, "namespace") /\ NotOpened
       THEN Abort("not opened")
     ELSE /\ dir' = FALSE
          /\ fnames' = IF env.checks THEN {} ELSE fnames
          /\ UNCHANGED <<phase, startVars, aborted, num_epochs, pc, fileVars,
                         countVars, queue, inq, storeVars>>
  /\ UNCHANGED env

-----------------------------------------------------------------------------
(* fopen, fwrite, fputc.                                                   *)

\* stripped + len_plfsdir + 1; what is left of an absolute path is shorter
\* than that, and any string may follow it
Garbage == <<0>>
KeyOf(d, name) ==
  IF Below(plfsdir(env), stripped(env, d)) THEN {name} ELSE fnames \cup {Garbage}

Claimed(d) ==
  ~should_ignore(env, d) /\ claim_path(env, d) /\ under_plfsdir(env, d)

\* Fault: a name that was there is counted as a collision only.
CountOpenOnce(key) ==
  IF env.checks /\ key \in fnames THEN [mctx EXCEPT !.ncw = @ + 1]
  ELSE [mctx EXCEPT !.nw = @ + 1]

CountOpen(key) ==
  [mctx EXCEPT !.nw = @ + 1,
               !.ncw = @ + IF env.checks /\ key \in fnames THEN 1 ELSE 0]

\* under preload_mtx; h is the fake_file it takes
Fopen(t, d, name, h) ==
  /\ Running /\ dir /\ pc[t] = "idle" /\ opened < env.files /\ Claimed(d)
  /\ env.tidy => Len(name) = env.id
  /\ \E key \in KeyOf(d, name) :
       /\ fnames' = IF env.checks THEN fnames \cup {key} ELSE fnames
       /\ mctx' = CountOpen(key)
  /\ file' = [file EXCEPT ![h] =
                [dir |-> stripped(env, d), name |-> name, data |-> <<>>]]
  /\ isdeltafs' = isdeltafs \cup {h}
  /\ vpic_file' = FALSE
  /\ app' = [app EXCEPT ![t] = [h |-> h, id |-> opened + 1, n |-> 0]]
  /\ opened' = opened + 1
  /\ pc' = [pc EXCEPT ![t] = "open"]
  /\ UNCHANGED <<phase, env, startVars, aborted, num_epochs, dir, nlw_read,
                 raced, queue, inq, storeVars>>


fopen(t, d, name) ==
  Fopen(t, d, name, IF vpic_file THEN Buffer ELSE opened + 1)

\* fake_file::add_data: what does not fit is dropped
Takes(h, len) == AtMost(FILE_BUF - Len(file[h].data), len)

add_data(t, len) ==
  LET h == app[t].h
      n == Takes(h, len)
  IN  /\ file' = [file EXCEPT ![h].data = @ \o [i \in 1..n |-> app[t].id]]
      /\ app' = [app EXCEPT ![t].n = @ + len]
      /\ UNCHANGED <<phase, env, startVars, aborted, num_epochs, dir, pc, opened,
                     isdeltafs, vpic_file, fnames, countVars, queue, inq, storeVars>>

fwrite(t, size, nitems) ==
  Running /\ pc[t] = "open" /\ app[t].n < env.app_bytes /\ add_data(t, size * nitems)

fputc(t) == Running /\ pc[t] = "open" /\ app[t].n < env.app_bytes /\ add_data(t, 1)

-----------------------------------------------------------------------------
(* preload_write, at the rank that stores the record.                      *)

Record(name, data, epoch) == [name |-> name, data |-> data, epoch |-> epoch]

\* a paranoid check fails, or there is nowhere to write to
preload_write_aborts(rank, name, flen, data, epoch) ==
  \/ /\ env.checks
     /\ \/ flen # Len(CStr(name)) \/ flen # env.id
        \/ Len(data) # particle_size(env) \/ epoch # num_epochs - 1
  \/ /\ IS_BYPASS(env, "namespace") /\ ~IS_BYPASS(env, "write")
     /\ ~plfshdl_opened([env EXCEPT !.rank = rank])
  \/ env.bypass \cap {"write", "namespace", "deltafs"} = {}

\* the first epoch chooses the names to sample, at random
Sample(name) ==
  IF ~env.sampling THEN UNCHANGED smap
  ELSE IF num_epochs = 1
    THEN smap' \in {smap, IF BagIn(name, smap) THEN smap
                          ELSE smap (+) SetToBag({name})}
  ELSE smap' = IF BagIn(name, smap) THEN smap (+) SetToBag({name}) ELSE smap

preload_write(name, data, epoch) ==
  /\ store' = IF IS_BYPASS(env, "write") THEN store
              ELSE store (+) SetToBag({Record(CStr(name), data, epoch)})
  /\ Sample(CStr(name))

-----------------------------------------------------------------------------
(* fclose.                                                                 *)

\* before anything is written: the path, the format, the side io
fclose_aborts(f) ==
  \/ ~Below(plfsdir(env), f.dir)
  \/ env.checks /\ (Len(f.name) # env.id \/ Len(f.data) # particle_size(env))
  \/ /\ env.sideio /\ ~IS_BYPASS(env, "write")
     /\ ~IS_BYPASS(env, "namespace") \/ ~plfshdl_opened(env)

shuffle_write_aborts(name, data) ==
  \/ ~(particle_extra_size(env) + data_len(env) < UCHAR_MAX - env.id - 1)
  \/ uchar(Len(name)) # env.id
  \/ uchar(Len(data)) # data_len(env)

\* NN: the queue of a rank that is no receiver has no buffer
enqueue_aborts(dst, buf) ==
  /\ env.shuffler = "NN"
  /\ \/ ~shuffle_is_rank_receiver(env, dst)
     \/ Len(buf) + 1 > max_rpcq_sz(env)

Message(dst, buf) == [dst |-> dst, buf |-> buf, epoch |-> num_epochs - 1]

\* what the application has closed, as it wrote it
Intended(t) ==
  LET data == [i \in 1..AtMost(FILE_BUF, app[t].n) |-> app[t].id]
  IN  Record(file[app[t].h].name, IF env.sideio THEN Zeros(OFF_SZ) ELSE data,
             num_epochs - 1)

\* the shuffler owns the record, or preload_write has stored it
Closed(t) ==
  /\ written' = written (+) SetToBag({Intended(t)})
  /\ side' = IF env.sideio /\ ~IS_BYPASS(env, "write")
               THEN side (+) SetToBag({file[app[t].h].data}) ELSE side
  /\ UNCHANGED <<phase, startVars, aborted, num_epochs, dir, fileVars, fnames,
                 mctx, nlw_read, inq>>

native_write(t, name, data) ==
  IF preload_write_aborts(env.rank, name, uchar(Len(name)), data, num_epochs - 1)
    THEN Abort("preload_write")
    ELSE /\ preload_write(name, data, num_epochs - 1)
         /\ pc' = [pc EXCEPT ![t] = "count"]
         /\ Closed(t)
         /\ UNCHANGED <<raced, queue>>

Enqueue(t, dst, buf) ==
  IF enqueue_aborts(dst, buf)
    THEN Abort("enqueue")
    ELSE /\ queue' = Append(queue, Message(dst, buf))
         /\ pc' = [pc EXCEPT ![t] = "free"]
         /\ Closed(t)
         /\ UNCHANGED <<raced, store, smap>>

shuffle_write(t, name, data) ==
  LET buf == Pack(SubSeq(name, 1, env.id), data, particle_extra_size(env))
      dst == shuffle_target(env, SubSeq(name, 1, env.id))
  IN  IF shuffle_write_aborts(name, data) THEN Abort("shuffle_write")
      ELSE IF dst = env.rank /\ ~env.force_rpc THEN native_write(t, name, data)
      ELSE Enqueue(t, dst, buf)

fclose(t) ==
  /\ Running /\ dir /\ pc[t] = "open" /\ (env.tidy => app[t].n = particle_size(env))
  /\ LET f    == file[app[t].h]
         data == IF env.sideio THEN Zeros(OFF_SZ) ELSE f.data
     IN  IF fclose_aborts(f) THEN Abort("fclose")
         ELSE IF ShuffleOn THEN shuffle_write(t, f.name, data)
         ELSE native_write(t, f.name, data)
  /\ UNCHANGED env

\* pctx.mctx.nlw++ is a load and a store, under no lock
nlw_load(t) ==
  /\ Running /\ pc[t] = "count"
  /\ nlw_read' = [nlw_read EXCEPT ![t] = mctx.nlw]
  /\ raced' = (raced \/ \E u \in Threads \ {t} : pc[u] = "store")
  /\ pc' = [pc EXCEPT ![t] = "store"]
  /\ UNCHANGED <<phase, env, startVars, aborted, num_epochs, dir, fileVars,
                 fnames, mctx, queue, inq, storeVars>>

nlw_store(t) ==
  /\ Running /\ pc[t] = "store"
  /\ mctx' = [mctx EXCEPT !.nlw = nlw_read[t] + 1]
  /\ nlw_read' = [nlw_read EXCEPT ![t] = 0]
  /\ pc' = [pc EXCEPT ![t] = "free"]
  /\ UNCHANGED <<phase, env, startVars, aborted, num_epochs, dir, fileVars,
                 fnames, raced, queue, inq, storeVars>>

\* under preload_mtx: the file is forgotten, the buffer is free again
fclose_end(t) ==
  /\ Running /\ pc[t] = "free"
  /\ isdeltafs' = isdeltafs \ {app[t].h}
  /\ vpic_file' = (vpic_file \/ app[t].h = Buffer)
  /\ file' = [file EXCEPT ![app[t].h] = NoData]
  /\ app' = [app EXCEPT ![t] = NoFile]
  /\ pc' = [pc EXCEPT ![t] = "idle"]
  /\ UNCHANGED <<phase, env, startVars, aborted, num_epochs, dir, opened, fnames,
                 countVars, queue, inq, storeVars>>

-----------------------------------------------------------------------------
(* The shuffler and the rank that owns the name.                           *)

Bufs(n) == [i \in 1..n |-> queue[i].buf]
Reqs(n) == [i \in 1..n |-> [type |-> 0, src |-> env.rank, dst |-> queue[i].dst,
                            data |-> queue[i].buf]]

\* what the receiver has after decoding
Received(n) ==
  IF env.shuffler = "NN"
    THEN LET reqs == DecodeNN(EncodeNN(Bufs(n)))
         IN  [i \in DOMAIN reqs |-> [dst |-> queue[n].dst, buf |-> reqs[i],
                                     epoch |-> queue[n].epoch]]
    ELSE LET reqs == DecodeXN(EncodeXN(Reqs(n)))
         IN  [i \in DOMAIN reqs |-> [dst |-> reqs[i].dst, buf |-> reqs[i].data,
                                     epoch |-> -1]]

\* an RPC with the next n messages; a buffer of NN has no more than fit
Carry(n) ==
  /\ Running /\ inq = <<>> /\ n \in 1..Len(queue)
  /\ \A i \in 1..n : queue[i].dst = queue[1].dst
  /\ env.shuffler = "NN" => Len(EncodeNN(Bufs(n))) <= max_rpcq_sz(env)
  /\ inq' = Received(n)
  /\ queue' = SubSeq(queue, n + 1, Len(queue))
  /\ UNCHANGED <<phase, env, startVars, aborted, num_epochs, dir, pc, fileVars,
                 fnames, countVars, storeVars>>

\* shuffle_handle at the receiver, and exotic_write's nfw++; deliver passes
\* epoch -1, which means the current one
shuffle_handle ==
  /\ Running /\ inq # <<>>
  /\ LET m     == Head(inq)
         epoch == IF m.epoch = -1 THEN num_epochs - 1 ELSE m.epoch
         data  == SubSeq(m.buf, env.id + 2, env.id + 1 + data_len(env))
     IN  IF Len(m.buf) # particle_extra_size(env) + data_len(env) + env.id + 1
           THEN Abort("shuffle_handle")
         ELSE IF preload_write_aborts(m.dst, m.buf, env.id, data, epoch)
           THEN Abort("preload_write")
         ELSE /\ preload_write(m.buf, data, epoch)
              /\ mctx' = [mctx EXCEPT !.nfw = @ + 1]
              /\ inq' = Tail(inq)
              /\ UNCHANGED <<phase, startVars, aborted, num_epochs, dir, pc,
                             fileVars, fnames, nlw_read, raced, queue, side,
                             written>>
  /\ UNCHANGED env

-----------------------------------------------------------------------------
Start == StartNext /\ UNCHANGED <<env, num_epochs, dir, pc, fileVars, fnames,
                                  countVars, queue, inq, storeVars>>

Step(t) ==
  \/ \E d \in Dirs, name \in Names : fopen(t, d, name)
  \/ \E c \in Chunks : fwrite(t, c[1], c[2])
  \/ fputc(t) \/ fclose(t) \/ nlw_load(t) \/ nlw_store(t) \/ fclose_end(t)

Next ==
  \/ Start \/ MPI_Init \/ opendir \/ closedir
  \/ \E t \in Threads : Step(t)
  \/ \E n \in 1..Len(queue) : Carry(n)
  \/ shuffle_handle

Spec == Init /\ [][Next]_vars

-----------------------------------------------------------------------------
(* Properties.                                                             *)

\* What reaches the storage is what the application wrote.  At any time each
\* closed file is in exactly one place, stored or with the shuffler, with its
\* own name, the bytes of its own fwrite calls up to the size of fake_file,
\* and the epoch it was closed in; with sideio the bytes are in the side file.
\* Threads share vpic_file_buffer, and messages are packed, batched, encoded,
\* decoded and unpacked on the way.
OnTheWay ==
  LET all == queue \o inq
      Of(m) == Record(CStr(m.buf),
                      SubSeq(m.buf, env.id + 2, env.id + 1 + data_len(env)),
                      num_epochs - 1)
  IN  [r \in {Of(all[i]) : i \in DOMAIN all} |->
         Cardinality({i \in DOMAIN all : Of(all[i]) = r})]
StoreIntact ==
  Running /\ ~IS_BYPASS(env, "write") => store (+) OnTheWay = written

\* A configuration that the library supports never aborts under a tidy
\* application: no paranoid check, assertion or ABORT of fclose,
\* shuffle_write, the shuffler's enqueue, shuffle_handle, preload_write,
\* opendir or closedir fires once MPI_Init has returned.  Supported says what
\* the initialisation does not check: a message of 255 bytes passes
\* shuffle_init and fails shuffle_write's assertion; an NN buffer of 128
\* bytes may be smaller than a message; an absolute mount point fails
\* fclose's assertion; modes that leave the data to deltafs are not
\* implemented; sideio needs a handle, which a sender-only rank lacks, and
\* fails the check of the data size.
Supported ==
  /\ ~Absolute(plfsdir(env))
  /\ env.bypass \cap {"write", "namespace", "deltafs"} # {}
  /\ ShuffleOn => particle_extra_size(env) + data_len(env) < UCHAR_MAX - env.id - 1
  /\ ShuffleOn /\ env.shuffler = "NN" =>
       env.id + data_len(env) + particle_extra_size(env) + 2 <= max_rpcq_sz(env)
  /\ particle_size(env) <= FILE_BUF
  /\ env.sideio /\ ~IS_BYPASS(env, "write") =>
       IS_BYPASS(env, "namespace") /\ Receiver(env)
  /\ env.sideio /\ env.checks => OFF_SZ = particle_size(env)

\* The counters of an epoch add up: every fopen is counted once as local or
\* foreign write or still on its way, so the report's "lost writes" means
\* lost writes; and ncw counts the names opened twice.  Only two threads that
\* add to nlw at the same time lose a count, since native_write has no lock.
Counting == {t \in Threads : pc[t] \in {"open", "count", "store"}}
CountsTrue ==
  Running /\ dir /\ env.tidy =>
    LET counted == mctx.nlw + mctx.nfw + Len(queue) + Len(inq)
                   + Cardinality(Counting)
    IN  /\ IF raced THEN counted <= mctx.nw ELSE counted = mctx.nw
        /\ env.checks => mctx.nw = mctx.ncw + Cardinality(fnames)

=============================================================================
