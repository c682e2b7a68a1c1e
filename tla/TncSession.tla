----------------------------- MODULE TncSession ------------------------------
(***************************************************************************)
(* The ARDOP TNC between its host and the modem: the data port's           *)
(* connections, which queue frames, the command port, which sets the       *)
(* connection's state, and the worker thread, which transmits, receives,   *)
(* identifies and drops idle connections.  Frames are their lengths.  The  *)
(* PTT around every emission is ArdopPtt's; here an emission may fail.     *)
(***************************************************************************)
EXTENDS Option, Integers, Sequences, FiniteSets, Functions

CONSTANTS
  DataClients,    \* connections of the data port
  Lengths,        \* lengths of their frames
  DataCap,        \* capacity of the queue to the worker
  MaxSent,        \* bound on the frames of one data client
  MaxCommands,    \* bound on the commands that change the state
  ArqTimeout,     \* ARQTIMEOUT, in ticks
  AdaptiveArq     \* values of enable_adaptive_arq

ASSUME FramesAssumption == IsFiniteSet(DataClients) /\ Lengths \subseteq Nat /\ None \notin Lengths

VARIABLES
  adaptive,       \* whether the engine has an adaptive session
  tnc_state,      \* TncState
  command,        \* where the command connection's dispatch is
  commands,       \* commands so far
  callsign,       \* whether MYID is a valid call
  sent,           \* frames read from each data client
  port,           \* the frame a data client's task is about to queue, or None
  tx_data,        \* the queue to the worker
  tx_pending,     \* bytes accepted and not finished
  worker,         \* where the worker is, and its frame
  fec_tx,         \* FECSEND
  id_requested,   \* SENDID
  tx_since_id,    \* the ID timer is armed
  idle,           \* ticks since last_activity
  connected_for   \* ticks since the connection was made

portVars == <<sent, port>>
hostVars == <<tnc_state, command, commands, callsign, fec_tx, id_requested, connected_for>>
tncVars == <<adaptive, hostVars, portVars, tx_data, tx_pending, worker, tx_since_id, idle>>

AtMost(x, y) == IF x <= y THEN x ELSE y

TncInit ==
  /\ adaptive \in AdaptiveArq
  /\ tnc_state = "Disc" /\ command = "none" /\ commands = 0 /\ callsign = FALSE
  /\ sent = [d \in DataClients |-> 0] /\ port = [d \in DataClients |-> None]
  /\ tx_data = <<>> /\ tx_pending = 0
  /\ worker = [pc |-> "id", len |-> 0, fec |-> FALSE, load |-> 0]
  /\ fec_tx = FALSE /\ id_requested = FALSE /\ tx_since_id = FALSE
  /\ idle = 0 /\ connected_for = 0

-----------------------------------------------------------------------------
(* Mutant: a frame is counted once it is queued.                           *)
CountWhenQueued(d) ==
  /\ \/ /\ port[d] = None /\ sent[d] < MaxSent
        /\ sent' = [sent EXCEPT ![d] = @ + 1]
        /\ \E len \in Lengths : port' = [port EXCEPT ![d] = len]
        /\ UNCHANGED <<tx_data, tx_pending>>
     \/ /\ port[d] # None /\ Len(tx_data) < DataCap
        /\ tx_data' = Append(tx_data, port[d]) /\ tx_pending' = tx_pending + port[d]
        /\ port' = [port EXCEPT ![d] = None]
        /\ UNCHANGED sent
  /\ UNCHANGED <<adaptive, hostVars, worker, tx_since_id, idle>>

(* The data port: a frame is counted, then queued, which waits for room.   *)
(* A frame may be empty.                                                   *)
DataPort(d) ==
  /\ \/ /\ port[d] = None /\ sent[d] < MaxSent
        /\ sent' = [sent EXCEPT ![d] = @ + 1]
        /\ \E len \in Lengths :
             port' = [port EXCEPT ![d] = len] /\ tx_pending' = tx_pending + len
        /\ UNCHANGED tx_data
     \/ /\ port[d] # None /\ Len(tx_data) < DataCap
        /\ tx_data' = Append(tx_data, port[d])
        /\ port' = [port EXCEPT ![d] = None]
        /\ UNCHANGED <<sent, tx_pending>>
  /\ UNCHANGED <<adaptive, hostVars, worker, tx_since_id, idle>>

-----------------------------------------------------------------------------
(* The command port: dispatch.  CONNECT and DISCONNECT pass through two    *)
(* states and then wait for the engine, as MYID does.                      *)
TncCommand(next) ==
  /\ command = "none" /\ commands < MaxCommands
  /\ commands' = commands + 1 /\ command' = next

TncConnect ==
  TncCommand("connect") /\ tnc_state' = "Connecting"
    /\ UNCHANGED <<callsign, fec_tx, id_requested, connected_for>>

TncDisconnect ==
  TncCommand("disconnect") /\ tnc_state' = "Disconnecting"
    /\ UNCHANGED <<callsign, fec_tx, id_requested, connected_for>>

Abort ==
  TncCommand("none") /\ tnc_state' = "Disc"
    /\ UNCHANGED <<callsign, fec_tx, id_requested, connected_for>>

Listen ==
  /\ \/ TncCommand("none") /\ tnc_state' = "Listen"
     \/ TncCommand(IF tnc_state = "Listen" THEN "unlisten" ELSE "none") /\ UNCHANGED tnc_state
  /\ UNCHANGED <<callsign, fec_tx, id_requested, connected_for>>

Myid ==
  TncCommand("myid") /\ UNCHANGED <<tnc_state, callsign, fec_tx, id_requested, connected_for>>

FecSend ==
  TncCommand("none") /\ fec_tx' = TRUE
    /\ UNCHANGED <<tnc_state, callsign, id_requested, connected_for>>

SendId ==
  TncCommand("none") /\ id_requested' = TRUE
    /\ UNCHANGED <<tnc_state, callsign, fec_tx, connected_for>>

(* The second write of a command, and its wait for the engine.             *)
Dispatched ==
  /\ \/ /\ command = "connect" /\ command' = "engine"
        /\ tnc_state' = "Connected" /\ connected_for' = 0
        /\ UNCHANGED callsign
     \/ /\ command \in {"disconnect", "unlisten"}
        /\ command' = IF command = "disconnect" THEN "engine" ELSE "none"
        /\ tnc_state' = "Disc"
        /\ UNCHANGED <<callsign, connected_for>>
     \/ /\ command = "myid" /\ command' = "engine"
        /\ callsign' \in BOOLEAN
        /\ UNCHANGED <<tnc_state, connected_for>>
     \/ /\ command = "engine" /\ command' = "none" /\ worker.pc # "burst"
        /\ UNCHANGED <<tnc_state, callsign, connected_for>>
  /\ UNCHANGED <<commands, fec_tx, id_requested>>

HostStep ==
  /\ TncConnect \/ TncDisconnect \/ Abort \/ Listen \/ Myid \/ FecSend \/ SendId \/ Dispatched
  /\ UNCHANGED <<adaptive, portVars, tx_data, tx_pending, worker, tx_since_id, idle>>

-----------------------------------------------------------------------------
(* The worker.  tx_callsign finds nothing while MYID is being written.     *)
tx_callsign == callsign /\ command # "myid"
Go(pc) == worker' = [worker EXCEPT !.pc = pc]

(* A station ID, only when nothing is queued.  When the timer is due is    *)
(* StationId's matter: here it may be whenever it is armed.                *)
WorkerId ==
  /\ worker.pc = "id" /\ Go("timeout")
  /\ IF tx_pending # 0
     THEN UNCHANGED <<id_requested, tx_since_id>>
     ELSE \E due \in {FALSE, tx_since_id} :
            /\ id_requested' = FALSE
            /\ tx_since_id' = (tx_since_id /\ ~((id_requested \/ due) /\ tx_callsign))
  /\ UNCHANGED <<tnc_state, tx_data, tx_pending, fec_tx, idle>>

(* ARQTIMEOUT.  Either lock may be taken: then nothing is dropped, or      *)
(* DISCONNECTED is sent and the state stays.                               *)
WorkerTimeout ==
  /\ worker.pc = "timeout" /\ Go("drain")
  /\ \/ UNCHANGED <<tnc_state, idle>>
     \/ /\ tnc_state = "Connected" /\ idle >= ArqTimeout
        /\ tnc_state' \in {"Disc", tnc_state}
        /\ idle' = 0
  /\ UNCHANGED <<tx_data, tx_pending, fec_tx, id_requested, tx_since_id>>

(* Mutant: a frame that is refused stays counted.                          *)
TakeKeepsCount ==
  /\ worker.pc = "drain" /\ tx_data # <<>>
  /\ tx_data' = Tail(tx_data)
  /\ fec_tx' = FALSE
  /\ worker' = IF tx_callsign
               THEN [pc |-> "burst", len |-> Head(tx_data), fec |-> fec_tx, load |-> 0]
               ELSE worker
  /\ UNCHANGED <<tnc_state, tx_pending, id_requested, tx_since_id, idle>>

(* The drain loop: a frame without MYID is refused; otherwise the engine   *)
(* is held for the burst.                                                  *)
WorkerTake ==
  /\ worker.pc = "drain" /\ tx_data # <<>>
  /\ tx_data' = Tail(tx_data)
  /\ fec_tx' = FALSE
  /\ worker' = [pc |-> IF tx_callsign THEN "burst" ELSE "load",
                len |-> Head(tx_data), fec |-> fec_tx, load |-> 0]
  /\ UNCHANGED <<tnc_state, tx_pending, id_requested, tx_since_id, idle>>

(* With adaptive ARQ a frame is acknowledged or given up after its         *)
(* attempts; otherwise it is transmitted once, and whatever comes back is  *)
(* passed on.                                                              *)
WorkerBurst ==
  /\ worker.pc = "burst" /\ Go("load")
  /\ \E keyed, acked \in BOOLEAN :
       /\ tx_since_id' = (tx_since_id \/ keyed)
       /\ idle' = IF adaptive /\ ~worker.fec /\ keyed /\ acked THEN 0 ELSE idle
  /\ UNCHANGED <<tnc_state, tx_data, tx_pending, fec_tx, id_requested>>

(* fetch_sub of what was loaded a moment before, at most.                  *)
WorkerLoad ==
  /\ worker.pc = "load" /\ worker' = [worker EXCEPT !.pc = "sub", !.load = tx_pending]
  /\ UNCHANGED <<tnc_state, tx_data, tx_pending, fec_tx, id_requested, tx_since_id, idle>>

WorkerSub ==
  /\ worker.pc = "sub"
  /\ worker' = [pc |-> "drain", len |-> 0, fec |-> FALSE, load |-> 0]
  /\ tx_pending' = tx_pending - AtMost(worker.len, worker.load)
  /\ UNCHANGED <<tnc_state, tx_data, fec_tx, id_requested, tx_since_id, idle>>

(* The queue is empty: one receive, answered if adaptive.                  *)
WorkerReceive ==
  /\ worker.pc = "drain" /\ tx_data = <<>> /\ Go("id")
  /\ idle' \in {idle, 0}
  /\ tx_since_id' \in {tx_since_id, tx_since_id \/ (adaptive /\ tx_callsign)}
  /\ UNCHANGED <<tnc_state, tx_data, tx_pending, fec_tx, id_requested>>

TncWorker ==
  /\ \/ WorkerId \/ WorkerTimeout \/ WorkerTake \/ WorkerBurst
     \/ WorkerLoad \/ WorkerSub \/ WorkerReceive
  /\ UNCHANGED <<adaptive, command, commands, callsign, portVars, connected_for>>

TncClock ==
  /\ idle < ArqTimeout \/ (tnc_state = "Connected" /\ connected_for < ArqTimeout)
  /\ idle' = AtMost(idle + 1, ArqTimeout)
  /\ connected_for' = IF tnc_state = "Connected" THEN AtMost(connected_for + 1, ArqTimeout)
                                                 ELSE connected_for
  /\ UNCHANGED <<adaptive, tnc_state, command, commands, callsign, portVars, tx_data,
                 tx_pending, worker, fec_tx, id_requested, tx_since_id>>

TncNext == (\E d \in DataClients : DataPort(d)) \/ HostStep \/ TncWorker \/ TncClock

TncSpec == TncInit /\ [][TncNext]_tncVars

-----------------------------------------------------------------------------
TncTypeOK ==
  /\ tnc_state \in {"Disc", "Listen", "Connecting", "Connected", "Disconnecting"}
  /\ command \in {"none", "connect", "disconnect", "unlisten", "myid", "engine"}
  /\ worker.pc \in {"id", "timeout", "drain", "burst", "load", "sub"}
  /\ Len(tx_data) <= DataCap
  /\ {idle, connected_for} \subseteq 0 .. ArqTimeout

(* BUFFER tells the host exactly the bytes it has handed over and the      *)
(* worker has not finished, although the data port's tasks count before    *)
(* they queue and the worker subtracts a minimum of a value it loaded      *)
(* before (data.rs, worker_loop).                                          *)
InHand == [d \in DataClients |-> IF port[d] = None THEN 0 ELSE port[d]]
Unfinished == SumFunction(tx_data) + SumFunction(InHand) + worker.len
BufferIsExact == tx_pending = Unfinished

(* Whatever the host queues is finished with, also without MYID or when    *)
(* the rig refuses, so that BUFFER comes back to zero, and with it the     *)
(* frame boundary at which a requested station ID is served.               *)
QueueDrains == []<>(tx_pending = 0 /\ ~id_requested)

(* "drop an idle connection after `arq_timeout` seconds with no successful *)
(* exchange": what ARQTIMEOUT drops has been up that long (worker_loop).   *)
TimeoutSparesNew ==
  [][TncWorker /\ tnc_state # tnc_state' => connected_for >= ArqTimeout]_tncVars
=============================================================================
