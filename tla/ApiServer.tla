------------------------------ MODULE ApiServer ------------------------------
(***************************************************************************)
(* A worker process of masakari-api: the eventlet server of wsgi.py behind *)
(* WSGIService (service.py), with its pool of green threads, connections   *)
(* that are kept alive, and the signals that reload or end the process     *)
(* while requests are handled.                                             *)
(*                                                                         *)
(* oslo.service and eventlet are external.  On SIGHUP the launcher calls   *)
(* stop, reset and start; on SIGTERM stop and wait, until its graceful     *)
(* shutdown times out.  A pool is a semaphore with a size: resizing adds   *)
(* the difference to the semaphore, so room is negative while more threads *)
(* run than the new size allows.                                           *)
(***************************************************************************)
EXTENDS Integers, FiniteSets

CONSTANTS
    Connections,
    pool_size,              \* CONF.wsgi.default_pool_size
    keep_alive,             \* CONF.wsgi.keep_alive
    client_socket_timeout,  \* CONF.wsgi.client_socket_timeout, 0 for none
    MaxReloads              \* bound on the signals to reload

VARIABLES
    connection,     \* where each connection is
    size,           \* size of the pool
    room,           \* its semaphore: threads that may be started
    acceptor,       \* the green thread of eventlet.wsgi.server
    pc,             \* what the launcher does with the service
    reloads,        \* signals to reload so far
    forced          \* the graceful shutdown timed out

pool == <<size, room>>
vars == <<connection, pool, acceptor, pc, reloads, forced>>

At(where) == {c \in Connections : connection[c] \in where}

\* A green thread of the pool stays with its connection between requests.
Running == At({"idle", "busy", "shut"})

Init ==
    /\ connection = [c \in Connections |-> "none"]
    /\ size = pool_size /\ room = pool_size
    /\ acceptor = "none"
    /\ pc = "reset" /\ reloads = 0 /\ forced = FALSE

Moves(c, where) == connection' = [connection EXCEPT ![c] = where]

Resize(n) == size' = n /\ room' = room + (n - size)

-----------------------------------------------------------------------------
(* The server. *)

\* Server.start: another acceptor, on a duplicate of the socket that __init__
\* bound.
Starts ==
    /\ pc = "reset" /\ pc' = "serving"
    /\ acceptor' = "accepting"
    /\ UNCHANGED <<connection, pool, reloads, forced>>

Accepts(c) ==
    /\ acceptor = "accepting" /\ connection[c] = "backlog"
    /\ Moves(c, "accepted") /\ acceptor' = "spawning"
    /\ UNCHANGED <<pool, pc, reloads, forced>>

\* The acceptor waits while there is no room in the pool.
Spawns(c) ==
    /\ acceptor = "spawning" /\ connection[c] = "accepted"
    /\ room > 0 /\ room' = room - 1
    /\ Moves(c, "idle") /\ acceptor' = "accepting"
    /\ UNCHANGED <<size, pc, reloads, forced>>

Ends(c) ==
    /\ Moves(c, "closed") /\ room' = room + 1
    /\ UNCHANGED <<size, acceptor, pc, reloads, forced>>

Answers(c) ==
    /\ connection[c] = "busy"
    /\ \/ /\ keep_alive /\ Moves(c, "idle")
          /\ UNCHANGED <<pool, acceptor, pc, reloads, forced>>
       \/ Ends(c)

\* Server.__init__: 0 stands for no timeout.
TimesOut(c) ==
    /\ connection[c] = "idle" /\ client_socket_timeout # 0
    /\ Ends(c)

\* Server.stop: no room for new requests, and the acceptor is killed, whatever it
\* waits for, with the connection it has in its hands.  On its way out it shuts
\* idle connections down, which versions of eventlet do or do not.
Stop ==
    /\ Resize(0)
    /\ acceptor' = "none"
    /\ \E shut \in SUBSET At({"idle"}) :
           connection' = [c \in Connections |->
               CASE connection[c] = "accepted" -> "dropped"
                 [] c \in shut -> "shut"
                 [] OTHER -> connection[c]]

\* The thread of a connection that was shut down ends.
Notices(c) == connection[c] = "shut" /\ Ends(c)

\* Mutant of Resets: the pool keeps its size.
ResetsNothing ==
    /\ pc = "stopped" /\ pc' = "reset"
    /\ UNCHANGED <<connection, pool, acceptor, reloads, forced>>

\* Server.reset.
Resets ==
    /\ pc = "stopped" /\ pc' = "reset"
    /\ Resize(pool_size)
    /\ UNCHANGED <<connection, acceptor, reloads, forced>>

-----------------------------------------------------------------------------
(* The launcher: signals, and the end of the process. *)

Reloads ==
    /\ pc = "serving" /\ pc' = "stopped"
    /\ reloads < MaxReloads /\ reloads' = reloads + 1
    /\ Stop
    /\ UNCHANGED forced

Terminates ==
    /\ pc = "serving" /\ pc' = "waiting"
    /\ Stop
    /\ UNCHANGED <<reloads, forced>>

\* What happens to the connections of a process that ends; other workers accept
\* those that wait on the socket.
Cut ==
    connection' = [c \in Connections |->
        CASE connection[c] = "busy" -> "cut"
          [] connection[c] \in {"idle", "shut"} -> "closed"
          [] OTHER -> connection[c]]

\* Server.wait returns when the pool is empty.
Exits ==
    /\ pc = "waiting" /\ Running = {} /\ pc' = "exited"
    /\ Cut
    /\ UNCHANGED <<pool, acceptor, reloads, forced>>

\* graceful_shutdown_timeout.
ExitsByForce ==
    /\ pc = "waiting" /\ pc' = "exited"
    /\ Cut /\ forced' = TRUE
    /\ UNCHANGED <<pool, acceptor, reloads>>

-----------------------------------------------------------------------------
(* The clients. *)

Connects(c) ==
    /\ connection[c] = "none" /\ pc # "exited"
    /\ Moves(c, "backlog")
    /\ UNCHANGED <<pool, acceptor, pc, reloads, forced>>

SendsRequest(c) ==
    /\ connection[c] = "idle" /\ Moves(c, "busy")
    /\ UNCHANGED <<pool, acceptor, pc, reloads, forced>>

HangsUp(c) == connection[c] = "idle" /\ Ends(c)

-----------------------------------------------------------------------------
ServerStep ==
    \/ Starts \/ Resets \/ Exits
    \/ \E c \in Connections : Accepts(c) \/ Spawns(c)

\* A green thread of the pool.
ThreadStep(c) == Answers(c) \/ TimesOut(c) \/ Notices(c)

Next ==
    \/ ServerStep
    \/ \E c \in Connections : ThreadStep(c) \/ Connects(c) \/ SendsRequest(c) \/ HangsUp(c)
    \/ Reloads \/ Terminates \/ ExitsByForce

Spec == Init /\ [][Next]_vars

\* The green threads run, and requests end, since every call that they make has
\* a timeout.  A client does not send one request after the other for ever: it
\* makes a pause longer than the timeout at some time.
FairSpec ==
    /\ Spec
    /\ WF_vars(ServerStep)
    /\ \A c \in Connections : WF_vars(ThreadStep(c)) /\ SF_vars(TimesOut(c))

-----------------------------------------------------------------------------
\* The pool, the connections and the launcher have their types, and the
\* semaphore counts the room that the running threads leave in the pool, also
\* when a resize falls between their start and their end.
TypeOK ==
    /\ connection \in [Connections ->
           {"none", "backlog", "accepted", "idle", "busy", "shut", "closed", "dropped", "cut"}]
    /\ size \in {0, pool_size}
    /\ pc # "exited" => room = size - Cardinality(Running)
    /\ acceptor \in {"none", "accepting", "spawning"}
    /\ pc \in {"reset", "serving", "stopped", "waiting", "exited"}
    /\ reloads \in 0..MaxReloads /\ forced \in BOOLEAN

\* Clients that connect are served, or the process ends: connections that are
\* kept alive do not fill the pool for ever, and reloads leave the pool as large
\* as it was.
ClientsAreServed ==
    At({"backlog", "accepted"}) # {} ~>
        At({"backlog", "accepted"}) = {} \/ pc \in {"waiting", "exited"}

\* A request that was begun is answered, across reloads and before the process
\* ends, unless the shutdown takes too long.
BegunIsAnswered == At({"cut"}) # {} => forced
=============================================================================
