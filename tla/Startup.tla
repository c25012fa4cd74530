------------------------------ MODULE Startup -------------------------------
(***************************************************************************)
(* The start of the shuffler at the ranks of one node: shuffle_prepare_uri *)
(* looks for a free port by binding it and closing the socket again, and   *)
(* HG_Init binds the port for good some time later.  The ranks run at the  *)
(* same time; ports of other processes are env.others.                     *)
(***************************************************************************)
EXTENDS Wire

VARIABLES
  phase,     \* of the program: "load", "start", "run"
  env,       \* the environment, the same at every rank but for rank
  probe,     \* the port a rank tries next
  port,      \* the port it has settled on, 0 before
  auto,      \* it came from the kernel, not from the range
  listening, \* ranks whose mercury class is up
  aborted    \* where ABORT or an assertion ended the run, or "no"

startVars == <<probe, port, auto, listening>>

LocalRanks == 0..env.ppn - 1
InUse == env.others \cup {port[r] : r \in listening}

bad_ports(e) ==
  e.min_port > e.max_port \/ e.min_port < 1 \/ e.max_port > PORT_MAX

\* Fault: the ranks of a node start at the same port.
FirstPortSame(e, r) == e.min_port

FirstPort(e, r) == e.min_port + (r % (1 + e.max_port - e.min_port))

StartInit ==
  /\ phase = "load" /\ aborted = "no"
  /\ probe = [r \in LocalRanks |->
                IF bad_ports(env) THEN 0 ELSE FirstPort(env, r)]
  /\ port = [r \in LocalRanks |-> 0]
  /\ auto = [r \in LocalRanks |-> FALSE]
  /\ listening = {}

ShuffleOn == Mounted(env) /\ ~IS_BYPASS(env, "shuffle")

\* preload_init at the first intercepted call, then shuffle_init
preload_init ==
  /\ phase = "load" /\ aborted = "no"
  /\ \/ /\ preload_init_aborts(env)
        /\ aborted' = "preload_init" /\ UNCHANGED phase
     \/ /\ ~preload_init_aborts(env)
        /\ ShuffleOn /\ (shuffle_init_aborts(env) \/ bad_ports(env))
        /\ aborted' = "shuffle_init" /\ UNCHANGED phase
     \/ /\ ~preload_init_aborts(env)
        /\ ShuffleOn => ~shuffle_init_aborts(env) /\ ~bad_ports(env)
        /\ phase' = "start" /\ UNCHANGED aborted
  /\ UNCHANGED startVars

Starting == phase = "start" /\ ShuffleOn /\ aborted = "no"

\* socket, bind, close: a port that is free now is taken
ProbePort(r) ==
  /\ Starting /\ port[r] = 0 /\ probe[r] <= env.max_port
  /\ IF probe[r] \in InUse
       THEN probe' = [probe EXCEPT ![r] = @ + env.ppn] /\ UNCHANGED port
       ELSE port' = [port EXCEPT ![r] = probe[r]] /\ UNCHANGED probe
  /\ UNCHANGED <<phase, auto, listening, aborted>>

\* "no free ports available within the specified range": the kernel chooses
AutoPort(r) ==
  /\ Starting /\ port[r] = 0 /\ probe[r] > env.max_port
  /\ \/ \E p \in env.ephemeral \ InUse :
          /\ port' = [port EXCEPT ![r] = p]
          /\ auto' = [auto EXCEPT ![r] = TRUE]
          /\ UNCHANGED aborted
     \/ /\ env.ephemeral \subseteq InUse
        /\ aborted' = "no free ports"
        /\ UNCHANGED <<port, auto>>
  /\ UNCHANGED <<phase, probe, listening>>

\* HG_Init or nexus_bootstrap_uri binds the port of the uri
Listen(r) ==
  /\ Starting /\ port[r] # 0 /\ r \notin listening
  /\ IF port[r] \in InUse
       THEN aborted' = "HG_Init" /\ UNCHANGED listening
       ELSE listening' = listening \cup {r} /\ UNCHANGED aborted
  /\ UNCHANGED <<phase, probe, port, auto>>

StartNext ==
  \/ preload_init
  \/ \E r \in LocalRanks : ProbePort(r) \/ AutoPort(r) \/ Listen(r)

\* Two ranks of a node never fight for a port as long as the range has a port
\* for every rank: they then probe different ports, whatever the order in
\* which they test, bind and close.  Only a port the kernel chose can be
\* taken again before HG_Init binds it.
PortsDistinct ==
  aborted = "HG_Init" =>
    \/ env.max_port - env.min_port + 1 < env.ppn
    \/ \E r \in LocalRanks : auto[r]

=============================================================================
