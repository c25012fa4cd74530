------------------------------ MODULE Settings ------------------------------
(***************************************************************************)
(* What preload_init, MPI_Init, shuffle_init, nn_shuffler_init and         *)
(* xn_shuffler_init make of the environment: which settings they refuse,   *)
(* which they clamp, which handles they open, and which paths and ranks    *)
(* the library then takes for its own.                                     *)
(*                                                                         *)
(* env is the environment of a rank: a record with one field per variable  *)
(* (the default where the variable is not set), the rank and the number of *)
(* ranks, and the placement, hash.  A directory is the sequence of its     *)
(* components; an absolute one begins with "/", and one that is "/" or     *)
(* ends in "/" has "/" as its last component.  The name of a particle file *)
(* is the sequence of its bytes.                                           *)
(***************************************************************************)
EXTENDS Integers, Sequences, SequencesExt

CONSTANTS
  UCHAR_MAX,     \* 255: largest unsigned char, size of a shuffle message
  FILE_BUF,      \* 64: bytes a fake_file holds
  OFF_SZ,        \* 8: sizeof(uint64_t), what sideio leaves in the record
  MIN_RPCQ,      \* 128: smallest buffer of an NN queue
  MAX_RPCQ,      \* MAX_RPC_MESSAGE
  MAX_CB,        \* MAX_OUTSTANDING_RPC
  MIN_TARGET,    \* 24: smallest buffer target of an XN queue
  PORT_MAX       \* 65535

ASSUME SettingsAssumption ==
  /\ {UCHAR_MAX, FILE_BUF, OFF_SZ, MIN_RPCQ, MAX_RPCQ, MAX_CB, MIN_TARGET,
      PORT_MAX} \subseteq Nat \ {0}
  /\ MIN_RPCQ <= MAX_RPCQ /\ MIN_RPCQ <= UCHAR_MAX /\ OFF_SZ < UCHAR_MAX

AtLeast(lo, n) == IF n < lo THEN lo ELSE n
AtMost(hi, n)  == IF n > hi THEN hi ELSE n

-----------------------------------------------------------------------------
(* Paths.                                                                  *)

Absolute(p) == p # <<>> /\ p[1] = "/"
Below(dir, p) == dir # <<>> /\ IsPrefix(dir, p)

\* of a file in the directory dir
should_ignore(env, dir) == \E d \in env.ignore : Below(d, dir)

claim_path(env, dir) == Below(env.mntp, dir)

\* PRELOAD_Plfsdir is looked at only if deltafs is mounted; a relative mount
\* point is the default
plfsdir(env) ==
  IF env.mntp = <<>> THEN <<>>
  ELSE IF env.plfsdir # <<>> THEN env.plfsdir
  ELSE IF Absolute(env.mntp) THEN <<>>
  ELSE env.mntp

under_plfsdir(env, dir) == Below(plfsdir(env), dir)

\* relative paths pass through, absolute ones lose the mount point
stripped(env, dir) ==
  IF Absolute(dir) THEN <<"/">> \o SubSeq(dir, Len(env.mntp) + 1, Len(dir))
  ELSE dir

-----------------------------------------------------------------------------
(* preload_init.                                                           *)

BadDir(p)  == p # <<>> /\ Last(p) = "/"
BadRoot(p) == p = <<>> \/ p[1] # "/" \/ Last(p) = "/"

preload_init_aborts(env) ==
  \/ BadDir(env.mntp) \/ \E d \in env.ignore : BadDir(d)
  \/ BadRoot(env.log_home) \/ BadRoot(env.local_root)
  \/ env.buf_size <= 0 \/ env.id <= 0

particle_extra_size(env) == AtLeast(0, env.extra)
particle_size(env)       == AtLeast(0, env.size)

IS_BYPASS(env, what) == what \in env.bypass

-----------------------------------------------------------------------------
(* shuffle_init.                                                           *)

data_len(env) == IF env.sideio THEN OFF_SZ ELSE particle_size(env)

shuffle_init_aborts(env) ==
  \/ \E n \in {env.id, particle_extra_size(env), data_len(env)} : n > UCHAR_MAX
  \/ particle_extra_size(env) + data_len(env) > UCHAR_MAX - env.id - 1
  \/ env.id = 0

\* SHUFFLE_Recv_radix: one rank in receiver_rate is a receiver
receiver_rate(env) == 2 ^ AtMost(8, AtLeast(0, env.radix))
shuffle_is_rank_receiver(env, r) == r % receiver_rate(env) = 0

shuffle_target(env, name) ==
  LET rv == IF env.world = 1 THEN env.rank ELSE env.hash[name]
  IN  rv - (rv % receiver_rate(env))

-----------------------------------------------------------------------------
(* nn_shuffler_init and xn_shuffler_init.                                  *)

max_rpcq_sz(env) ==
  IF env.rpcq > MAX_RPCQ THEN MAX_RPCQ ELSE AtLeast(MIN_RPCQ, env.rpcq)


cb_allowed(env) ==
  IF env.cb > MAX_CB THEN MAX_CB ELSE AtLeast(1, env.cb)

xn_limits(env) ==
  [lsenderlimit |-> AtLeast(0, env.xn.lsenderlimit),
   rsenderlimit |-> AtLeast(0, env.xn.rsenderlimit),
   lomaxrpc     |-> AtLeast(1, env.xn.lomaxrpc),
   lrmaxrpc     |-> AtLeast(0, env.xn.lrmaxrpc),
   rmaxrpc      |-> AtLeast(1, env.xn.rmaxrpc),
   buftarget    |-> AtLeast(MIN_TARGET, env.xn.buftarget),
   deliverq_min |-> AtLeast(0, env.xn.dq_min),
   deliverq_max |-> IF env.xn.dq_max <= 0 THEN -1 ELSE env.xn.dq_max]

-----------------------------------------------------------------------------
(* MPI_Init, after the shuffler is up: the directory it creates and opens. *)

Mounted(env) == env.mntp # <<>> /\ plfsdir(env) # <<>>
Receiver(env) ==
  IS_BYPASS(env, "shuffle") \/ shuffle_is_rank_receiver(env, env.rank)

MPI_Init_aborts(env) ==
  /\ ~IS_BYPASS(env, "write")
  /\ \/ ~claim_path(env, plfsdir(env))
     \/ Absolute(plfsdir(env)) /\ plfsdir(env) = env.mntp

plfshdl_opened(env) ==
  /\ Mounted(env) /\ ~IS_BYPASS(env, "write")
  /\ Receiver(env) /\ IS_BYPASS(env, "namespace")

plfsfd_opened(env) ==
  /\ Mounted(env) /\ ~IS_BYPASS(env, "write")
  /\ Receiver(env) /\ env.bypass \cap {"namespace", "plfsdir", "deltafs"} = {}

=============================================================================
