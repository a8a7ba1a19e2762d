----------------------------- MODULE DebugOutput ----------------------------
(***************************************************************************)
(* What the Lua debugger shows its clients (src/src/debug_server.cpp).     *)
(* Threads of the game report lines: statusf keeps the last kStatusHistory *)
(* of them for clients that attach later and sends each to those attached, *)
(* debug_server_output only sends.  A connection's thread attaches, is     *)
(* sent the history, serves, and is detached; the kernel hands the         *)
(* descriptor it closes to the next connection.                            *)
(*                                                                         *)
(* A packet is sent whole (g_send_mutex).  What the packets hold and the   *)
(* evaluations a connection asks for (DebugServer) are left out, and so is *)
(* a client that stops reading without closing.                            *)
(***************************************************************************)
EXTENDS Naturals, Sequences, SequencesExt

CONSTANTS Connections,     (* connections the listener accepts               *)
          Emitters,        (* threads that report                            *)
          Fds,             (* descriptors the kernel hands out               *)
          NoFd,            (* none of them                                   *)
          kStatusHistory,  (* lines kept for replay                          *)
          MaxLines         (* bound: lines reported                          *)

ASSUME DebugOutputAssumption ==
    /\ NoFd \notin Fds /\ kStatusHistory \in Nat \ {0} /\ MaxLines \in Nat

VARIABLES
    outputAt,          (* where each connection's handle_client is                 *)
    stages,      (* what it still does before it serves                      *)
    fd,          (* its descriptor, NoFd once closed                         *)
    up,          (* the other end has not hung up                            *)
    replay,      (* what is left to replay to it                             *)
    clients,     (* g_clients                                                *)
    status,      (* g_status                                                 *)
    statusLock,  (* g_status_mutex is held for a replay                      *)
    emission,    (* what each emitter is doing                               *)
    lines,       (* how many lines have been reported                        *)
    got,    (* history: how often each connection was sent each line    *)
    since        (* history: the lines reported when it attached             *)

connVars == <<outputAt, stages, fd, up, replay>>
outputVars == <<connVars, clients, status, statusLock, emission, lines, got, since>>

NotReading == [at |-> "idle", line |-> 0, to |-> <<>>]

\* Mutant: attached only once the history was sent.
ReplayThenAttach == <<"replay", "attach">>
Stages == <<"attach", "replay">>

OutputInit ==
    /\ outputAt = [c \in Connections |-> "new"] /\ stages = [c \in Connections |-> <<>>]
    /\ fd = [c \in Connections |-> NoFd] /\ up = [c \in Connections |-> TRUE]
    /\ replay = [c \in Connections |-> <<>>]
    /\ clients = <<>> /\ status = <<>> /\ statusLock = FALSE
    /\ emission = [e \in Emitters |-> NotReading] /\ lines = 0
    /\ got = [c \in Connections |-> [line \in 1..MaxLines |-> 0]]
    /\ since = [c \in Connections |-> 0]

GotoStep(c, to) == outputAt' = [outputAt EXCEPT ![c] = to]
AtStage(c, stage) == outputAt[c] = "setup" /\ stages[c] # <<>> /\ Head(stages[c]) = stage
StageDone(c) == stages' = [stages EXCEPT ![c] = Tail(@)]

(* send_packet: what is sent to a descriptor reaches whoever has it now.    *)
SentTo(f, line) ==
    [c \in Connections |-> IF fd[c] = f /\ up[c] THEN [got[c] EXCEPT ![line] = @ + 1]
                                                 ELSE got[c]]

-----------------------------------------------------------------------------
(* listener: accept, and a thread for the connection.                       *)
Accept(c) ==
    /\ outputAt[c] = "new"
    /\ \E f \in Fds : /\ \A d \in Connections : fd[d] # f
                      /\ fd' = [fd EXCEPT ![c] = f]
    /\ GotoStep(c, "setup")
    /\ stages' = [stages EXCEPT ![c] = Stages]
    /\ UNCHANGED <<up, replay, clients, status, statusLock, emission, lines, got, since>>

Attach(c) ==
    /\ AtStage(c, "attach")
    /\ clients' = Append(clients, fd[c])
    /\ since' = [since EXCEPT ![c] = lines]
    /\ StageDone(c)
    /\ UNCHANGED <<outputAt, fd, up, replay, status, statusLock, emission, lines, got>>

ReplayBegins(c) ==
    /\ AtStage(c, "replay") /\ ~statusLock
    /\ statusLock' = TRUE
    /\ replay' = [replay EXCEPT ![c] = status]
    /\ GotoStep(c, "replaying")
    /\ UNCHANGED <<stages, fd, up, clients, status, emission, lines, got, since>>

ReplaySends(c) ==
    /\ outputAt[c] = "replaying" /\ replay[c] # <<>> /\ up[c]
    /\ got' = SentTo(fd[c], Head(replay[c]))
    /\ replay' = [replay EXCEPT ![c] = Tail(@)]
    /\ UNCHANGED <<outputAt, stages, fd, up, clients, status, statusLock, emission, lines, since>>

(* A send that fails ends the thread there and then: the descriptor stays   *)
(* open and in g_clients.                                                   *)
ReplayFails(c) ==
    /\ outputAt[c] = "replaying" /\ replay[c] # <<>> /\ ~up[c]
    /\ statusLock' = FALSE
    /\ replay' = [replay EXCEPT ![c] = <<>>]
    /\ GotoStep(c, "lost")
    /\ UNCHANGED <<stages, fd, up, clients, status, emission, lines, got, since>>

ReplayEnds(c) ==
    /\ outputAt[c] = "replaying" /\ replay[c] = <<>>
    /\ statusLock' = FALSE
    /\ GotoStep(c, "setup") /\ StageDone(c)
    /\ UNCHANGED <<fd, up, replay, clients, status, emission, lines, got, since>>

Serve(c) ==
    /\ outputAt[c] = "setup" /\ stages[c] = <<>>
    /\ GotoStep(c, "serve")
    /\ UNCHANGED <<stages, fd, up, replay, clients, status, statusLock, emission, lines,
                   got, since>>

(* recv fails, or the packet is no packet.  A descriptor is attached once.  *)
Detached(c) ==
    LET at == {i \in DOMAIN clients : clients[i] = fd[c]}
    IN  IF at = {} THEN clients ELSE RemoveAt(clients, CHOOSE i \in at : TRUE)

DetachClient(c) ==
    /\ outputAt[c] = "serve"
    /\ clients' = Detached(c)
    /\ GotoStep(c, "close")
    /\ UNCHANGED <<stages, fd, up, replay, status, statusLock, emission, lines, got, since>>

Close(c) ==
    /\ outputAt[c] = "close"
    /\ fd' = [fd EXCEPT ![c] = NoFd]
    /\ GotoStep(c, "gone")
    /\ UNCHANGED <<stages, up, replay, clients, status, statusLock, emission, lines, got, since>>

HangUp(c) ==
    /\ fd[c] # NoFd /\ up[c]
    /\ up' = [up EXCEPT ![c] = FALSE]
    /\ UNCHANGED <<outputAt, stages, fd, replay, clients, status, statusLock, emission, lines,
                   got, since>>

-----------------------------------------------------------------------------
AllKept == Append(status, lines + 1)
Kept == IF Len(status) < kStatusHistory THEN AllKept ELSE Tail(AllKept)

(* statusf: the line is in the history before anyone is sent it.            *)
Statusf(e) ==
    /\ emission[e] = NotReading /\ lines < MaxLines /\ ~statusLock
    /\ lines' = lines + 1
    /\ status' = Kept
    /\ emission' = [emission EXCEPT ![e] = [at |-> "output", line |-> lines + 1, to |-> <<>>]]
    /\ UNCHANGED <<connVars, clients, statusLock, got, since>>

(* debug_server_output on its own: what scripts print.                      *)
Output(e) ==
    /\ emission[e] = NotReading /\ lines < MaxLines
    /\ lines' = lines + 1
    /\ emission' = [emission EXCEPT ![e] = [at |-> "output", line |-> lines + 1, to |-> <<>>]]
    /\ UNCHANGED <<connVars, clients, status, statusLock, got, since>>

Snapshot(e) ==
    /\ emission[e].at = "output"
    /\ emission' = [emission EXCEPT ![e].at = "sending", ![e].to = clients]
    /\ UNCHANGED <<connVars, clients, status, statusLock, lines, got, since>>

(* One by one, to descriptors that may be closed by now, or another's.      *)
SendNext(e) ==
    /\ emission[e].at = "sending" /\ emission[e].to # <<>>
    /\ got' = SentTo(Head(emission[e].to), emission[e].line)
    /\ emission' = [emission EXCEPT ![e].to = Tail(@)]
    /\ UNCHANGED <<connVars, clients, status, statusLock, lines, since>>

Sent(e) ==
    /\ emission[e].at = "sending" /\ emission[e].to = <<>>
    /\ emission' = [emission EXCEPT ![e] = NotReading]
    /\ UNCHANGED <<connVars, clients, status, statusLock, lines, got, since>>

OutputNext ==
    \/ \E c \in Connections : \/ Accept(c) \/ Attach(c)
                              \/ ReplayBegins(c) \/ ReplaySends(c) \/ ReplayFails(c)
                              \/ ReplayEnds(c) \/ Serve(c) \/ DetachClient(c) \/ Close(c) \/ HangUp(c)
    \/ \E e \in Emitters : Statusf(e) \/ Output(e) \/ Snapshot(e) \/ SendNext(e) \/ Sent(e)

OutputSpec == OutputInit /\ [][OutputNext]_outputVars
-----------------------------------------------------------------------------
(* Types of the variables.                                                  *)
OutputTypeOK ==
    /\ outputAt \in [Connections -> {"new", "setup", "replaying", "lost", "serve", "close", "gone"}]
    /\ stages \in [Connections -> Seq({"attach", "replay"})]
    /\ fd \in [Connections -> Fds \cup {NoFd}] /\ up \in [Connections -> BOOLEAN]
    /\ replay \in [Connections -> Seq(1..MaxLines)]
    /\ clients \in Seq(Fds) /\ status \in Seq(1..MaxLines) /\ statusLock \in BOOLEAN
    /\ Len(status) <= kStatusHistory
    /\ emission \in [Emitters -> [at : {"idle", "output", "sending"}, line : 0..MaxLines,
                                  to : Seq(Fds)]]
    /\ lines \in 0..MaxLines
    /\ got \in [Connections -> [1..MaxLines -> Nat]] /\ since \in [Connections -> 0..MaxLines]

(* A client that has been attached and replayed to has missed nothing once  *)
(* the emitters are quiet: every line kept when it came, "what the client   *)
(* missed" (src/src/debug_server.cpp:139), and every line reported since,   *)
(* wherever its arrival fell between the steps of a report.                 *)
NothingMissed ==
    \A c \in Connections :
        outputAt[c] = "serve" /\ up[c] /\ (\A e \in Emitters : emission[e] = NotReading) =>
            /\ \A i \in 1..Len(status) : got[c][status[i]] > 0
            /\ \A line \in (since[c] + 1)..lines : got[c][line] > 0

(* A line is shown at most twice to one client: by the replay and by the    *)
(* report that crossed it, even when a descriptor was another's before.     *)
AtMostTwice == \A c \in Connections : \A line \in 1..MaxLines : got[c][line] <= 2

(* Whoever is being served, or was dropped in its replay, is attached under *)
(* the descriptor it has, once; no descriptor is attached that is closed.   *)
AttachedIsOpen ==
    /\ IsInjective(clients)
    /\ \A i \in 1..Len(clients) : \E c \in Connections : fd[c] = clients[i]
    /\ \A c \in Connections : outputAt[c] \in {"serve", "lost"} => Contains(clients, fd[c])

\* A client gets every line, at most twice, over a descriptor that is its own
\* and open.
HeardAsReported ==
    NothingMissed /\ AtMostTwice /\ AttachedIsOpen
=============================================================================
