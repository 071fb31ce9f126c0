--------------------------- MODULE FlashService ---------------------------
(***************************************************************************)
(* The subtraction service over UDP: flashClient (include/client.hpp) in   *)
(* every calling thread, and worker_func / process_requests                *)
(* (src/server/server.cpp) in one thread per flash device, all of them     *)
(* reading the same non-blocking socket.  A request carries nothing that   *)
(* identifies it: here a datagram is <<client, call, attempt>> so that the *)
(* properties can tell apart what the code cannot; no action looks at call *)
(* or attempt.  A response is the datagram it answers, which the client    *)
(* sees only as a number.                                                  *)
(*                                                                         *)
(* The round itself is NandCpu's: lane i of a batch yields the answer to   *)
(* the i-th request.                                                       *)
(***************************************************************************)
EXTENDS Integers, Sequences, SequencesExt, ClientTracker

CONSTANTS
    Clients,     \* threads that call flashClient, each with its own socket
    Workers,     \* one per flash device
    Crews,       \* the sets of devices that may be detected at the start
    Frail,       \* workers whose select may fail
    EN_GUI,      \* TRUE: built with the GUI and its switch
    LANES,       \* requests that share a round
    MaxRetries,  \* NAND_CLIENT_RETRIES
    MaxCalls,    \* client -> bound on its calls
    MaxLosses,   \* bound on lost datagrams and failed sends
    Spurious     \* TRUE: a timeout may fire although the answer is on its way

ASSUME ServiceAssumption ==
    /\ LANES \in Nat \ {0} /\ MaxRetries \in Nat /\ MaxCalls \in [Clients -> Nat] /\ MaxLosses \in Nat
    /\ Spurious \in BOOLEAN /\ EN_GUI \in BOOLEAN
    /\ IsFiniteSet(Clients) /\ IsFiniteSet(Workers)
    /\ Crews \subseteq SUBSET Workers /\ {} \notin Crews /\ Frail \subseteq Workers

\* Names of different things are different.
ASSUME NamesApart == Clients \cap Workers = {} /\ <<>> \notin Clients \cup Workers

VARIABLES
    at,       \* client -> where in flashClient it is
    calls,    \* client -> number of its latest call
    attempt,  \* client -> attempt of that call
    resp,     \* client -> the datagram its resp answers
    inbox,    \* client -> its socket's receive queue
    socket,   \* the server socket's receive queue
    wat,      \* worker -> where in worker_func or process_requests it is
    batch,    \* worker -> p[0 .. n - 1]
    sent,     \* worker -> responses of the batch sent
    crowded,  \* worker -> active > g_num_cpus, from its latest touch
    ent,      \* the slots of g_clients
    recent,   \* clients really seen within a second (no variable of the code)
    isboost,  \* the GUI's switch
    g_num_cpus,
    server_running,
    losses    \* datagrams lost so far

clientVars == <<at, calls, attempt, resp>>
tracker == <<ent, recent>>
workerVars == <<wat, batch, sent, crowded, tracker>>
server == <<isboost, g_num_cpus, server_running>>
vars == <<clientVars, inbox, socket, workerVars, server, losses>>

None == <<>>
Datagram(c) == <<c, calls[c], attempt[c]>>
Sender(d) == d[1]
CallOf(d) == <<d[1], d[2]>>
----------------------------------------------------------------------------
(* flashClient *)

Call(c) ==
    /\ at[c] = "idle" /\ calls[c] < MaxCalls[c]
    /\ at' = [at EXCEPT ![c] = "sending"]
    /\ calls' = [calls EXCEPT ![c] = @ + 1]
    /\ attempt' = [attempt EXCEPT ![c] = 0]
    /\ resp' = [resp EXCEPT ![c] = None]
    /\ UNCHANGED <<inbox, socket, workerVars, server, losses>>

MayLose == losses < MaxLosses
Lose == MayLose /\ losses' = losses + 1

\* The next attempt, or exit(1) after the last one.
Retry(c) ==
    \/ /\ attempt[c] < MaxRetries
       /\ attempt' = [attempt EXCEPT ![c] = @ + 1]
       /\ at' = [at EXCEPT ![c] = "sending"]
    \/ /\ attempt[c] >= MaxRetries
       /\ at' = [at EXCEPT ![c] = "exited"]
       /\ UNCHANGED attempt

Send(c) ==
    /\ at[c] = "sending"
    /\ \/ /\ socket' = IF server_running THEN Append(socket, Datagram(c)) ELSE socket
          /\ at' = [at EXCEPT ![c] = "waiting"]
          /\ UNCHANGED <<attempt, losses>>
       \/ /\ Lose
          /\ at' = [at EXCEPT ![c] = "waiting"]
          /\ UNCHANGED <<socket, attempt>>
       \/ Lose /\ Retry(c) /\ UNCHANGED socket
    /\ UNCHANGED <<calls, resp, inbox, workerVars, server>>

Receive(c) ==
    /\ at[c] = "waiting" /\ inbox[c] # <<>>
    /\ resp' = [resp EXCEPT ![c] = Head(inbox[c])]
    /\ inbox' = [inbox EXCEPT ![c] = Tail(@)]
    /\ at' = [at EXCEPT ![c] = "draining"]
    /\ UNCHANGED <<calls, attempt, socket, workerVars, server, losses>>

\* Datagrams of a worker that are not answered yet.
Unanswered(w) == SubSeq(batch[w], sent[w] + 1, Len(batch[w]))
InFlight == ToSet(socket) \cup UNION {ToSet(Unanswered(w)) : w \in Workers}
OnItsWay(c) == \E d \in InFlight : CallOf(d) = <<c, calls[c]>>

\* SO_RCVTIMEO expires.
Timeout(c) ==
    /\ at[c] = "waiting" /\ inbox[c] = <<>>
    /\ Spurious \/ ~OnItsWay(c)
    /\ Retry(c)
    /\ UNCHANGED <<calls, resp, inbox, socket, workerVars, server, losses>>

\* Old answers that have arrived are read and dropped, then the call returns.
Drain(c) ==
    /\ at[c] = "draining" /\ inbox[c] # <<>>
    /\ inbox' = [inbox EXCEPT ![c] = Tail(@)]
    /\ UNCHANGED <<clientVars, socket, workerVars, server, losses>>

Return(c) ==
    /\ at[c] = "draining" /\ inbox[c] = <<>>
    /\ at' = [at EXCEPT ![c] = "idle"]
    /\ UNCHANGED <<calls, attempt, resp, inbox, socket, workerVars, server, losses>>

ClientStep(c) == Send(c) \/ Receive(c) \/ Timeout(c) \/ Drain(c) \/ Return(c)
----------------------------------------------------------------------------
(* worker_func and process_requests *)

Go(w, from, to) == wat[w] = from /\ wat' = [wat EXCEPT ![w] = to]

\* select reports the socket readable to every worker that is waiting.
Select(w) ==
    /\ Go(w, "select", "first") /\ socket # <<>>
    /\ UNCHANGED <<clientVars, inbox, socket, batch, sent, crowded, tracker, server, losses>>

RoomForMore(w) == Len(batch[w]) <= LANES   \* mutant: n <= LANES
Room(w) == Len(batch[w]) < LANES

\* g_clients.touch, and the comparison that asks for its result.
Touch(w, c) ==
    /\ ent' = Touched(ent, c)
    /\ recent' = recent \cup {c}
    /\ crowded' = [crowded EXCEPT ![w] = Active(ent, c) > g_num_cpus]

\* mutant: MSG_PEEK
TakePeek(w) ==
    /\ UNCHANGED socket
    /\ batch' = [batch EXCEPT ![w] = Append(@, Head(socket))]
    /\ Touch(w, Sender(Head(socket)))

\* A successful recvfrom into p[n], and touch.
TakeRequest(w) ==
    /\ socket' = Tail(socket)
    /\ batch' = [batch EXCEPT ![w] = Append(@, Head(socket))]
    /\ Touch(w, Sender(Head(socket)))

\* The first request: another worker may have taken it in the meantime.
First(w) ==
    /\ \/ /\ socket = <<>> /\ Go(w, "first", "select")
          /\ UNCHANGED <<socket, batch, tracker, crowded>>
       \/ /\ socket # <<>> /\ Go(w, "first", IF isboost THEN "compute" ELSE "fill")
          /\ TakeRequest(w)
    /\ UNCHANGED <<clientVars, inbox, sent, server, losses>>

\* Requests that have arrived already fill the other lanes.
Fill(w) ==
    /\ \/ /\ Room(w) /\ socket # <<>> /\ Go(w, "fill", "fill")
          /\ TakeRequest(w)
       \/ /\ ~Room(w) \/ socket = <<>>
          /\ Go(w, "fill", "linger")
          /\ UNCHANGED <<socket, batch, tracker, crowded>>
    /\ UNCHANGED <<clientVars, inbox, sent, server, losses>>

\* With more clients than devices, wait a little for one more request.
Linger(w) ==
    /\ Room(w) /\ crowded[w] /\ socket # <<>>
    /\ Go(w, "linger", "joining")
    /\ UNCHANGED <<clientVars, inbox, socket, batch, sent, crowded, tracker, server, losses>>

Join(w) ==
    /\ Go(w, "joining", "linger")
    /\ \/ socket # <<>> /\ TakeRequest(w)
       \/ socket = <<>> /\ UNCHANGED <<socket, batch, tracker, crowded>>
    /\ UNCHANGED <<clientVars, inbox, sent, server, losses>>

\* mutant: no deadline
DepartFull(w) ==
    /\ ~Room(w) \/ ~crowded[w]
    /\ Go(w, "linger", "compute")
    /\ UNCHANGED <<clientVars, inbox, socket, batch, sent, crowded, tracker, server, losses>>

\* The lanes are full, nobody else is expected, or BATCH_WAIT_US have passed.
Depart(w) ==
    /\ Go(w, "linger", "compute")
    /\ UNCHANGED <<clientVars, inbox, socket, batch, sent, crowded, tracker, server, losses>>

Compute(w) ==
    /\ Go(w, "compute", "reply")
    /\ sent' = [sent EXCEPT ![w] = 0]
    /\ UNCHANGED <<clientVars, inbox, socket, batch, crowded, tracker, server, losses>>

\* The request whose lane fills resp[i], and the address it goes to.
InLane(w) == batch[w][sent[w] + 1]
LastAddress(w) == Sender(batch[w][Len(batch[w])])   \* mutant: one address for the batch
AddressOf(w) == Sender(batch[w][sent[w] + 1])

\* One response after the other.  A send that fails for good is given up.
Reply(w) ==
    /\ sent[w] < Len(batch[w]) /\ Go(w, "reply", "reply")
    /\ sent' = [sent EXCEPT ![w] = @ + 1]
    /\ \/ /\ inbox' = [inbox EXCEPT ![AddressOf(w)] = Append(@, InLane(w))]
          /\ UNCHANGED losses
       \/ Lose /\ UNCHANGED inbox
    /\ UNCHANGED <<clientVars, socket, batch, crowded, tracker, server>>

Served(w) ==
    /\ sent[w] = Len(batch[w]) /\ Go(w, "reply", "select")
    /\ batch' = [batch EXCEPT ![w] = <<>>]
    /\ sent' = [sent EXCEPT ![w] = 0]
    /\ UNCHANGED <<clientVars, inbox, socket, crowded, tracker, server, losses>>

WorkerStep(w) == \/ Select(w) \/ First(w) \/ Fill(w) \/ Linger(w) \/ Join(w)
                 \/ Depart(w) \/ Compute(w) \/ Reply(w) \/ Served(w)

\* mutant: the requests at hand are dropped with the worker
FailBusy(w) ==
    /\ w \in Frail /\ Go(w, "compute", "gone")
    /\ batch' = [batch EXCEPT ![w] = <<>>]
    /\ UNCHANGED <<clientVars, inbox, socket, sent, crowded, tracker, server, losses>>

\* select fails and the worker leaves its loop for good; the others go on.
Fail(w) ==
    /\ w \in Frail /\ Go(w, "select", "gone")
    /\ UNCHANGED <<clientVars, inbox, socket, batch, sent, crowded, tracker, server, losses>>

\* thread_func has joined all workers and closes the socket.  The process stays.
Close ==
    /\ server_running /\ \A w \in Workers : wat[w] = "gone"
    /\ server_running' = FALSE /\ socket' = <<>>
    /\ UNCHANGED <<clientVars, inbox, workerVars, isboost, g_num_cpus, losses>>

\* A second passes without a request of this client.
Forget(c) ==
    /\ c \in recent
    /\ recent' = recent \ {c} /\ ent' = Expire(ent, c)
    /\ UNCHANGED <<clientVars, inbox, socket, wat, batch, sent, crowded, server, losses>>

Toggle ==
    /\ EN_GUI /\ isboost' = ~isboost
    /\ UNCHANGED <<clientVars, inbox, socket, workerVars, g_num_cpus, server_running, losses>>
----------------------------------------------------------------------------
Init ==
    /\ at = [c \in Clients |-> "idle"] /\ calls = [c \in Clients |-> 0]
    /\ attempt = [c \in Clients |-> 0] /\ resp = [c \in Clients |-> None]
    /\ inbox = [c \in Clients |-> <<>>] /\ socket = <<>>
    /\ \E crew \in Crews : /\ wat = [w \in Workers |-> IF w \in crew THEN "select" ELSE "gone"]
                          /\ g_num_cpus = Cardinality(crew)
    /\ server_running = TRUE /\ batch = [w \in Workers |-> <<>>]
    /\ sent = [w \in Workers |-> 0] /\ crowded = [w \in Workers |-> FALSE]
    /\ ent = <<>> /\ recent = {} /\ isboost = FALSE /\ losses = 0

Next == \/ \E c \in Clients : Call(c) \/ ClientStep(c) \/ Forget(c)
        \/ \E w \in Workers : WorkerStep(w) \/ Fail(w)
        \/ Close \/ Toggle

\* Threads keep running, timers expire; nobody has to call, lose, or click.
Fairness == /\ \A c \in Clients : WF_vars(ClientStep(c))
            /\ \A w \in Workers : WF_vars(WorkerStep(w)) /\ WF_vars(Depart(w))
            /\ WF_vars(Close)

Spec == Init /\ [][Next]_vars /\ Fairness
----------------------------------------------------------------------------
(* Properties *)

Datagrams == UNION {{c} \X (1 .. MaxCalls[c]) \X (0 .. MaxRetries) : c \in Clients}

TypeOK ==
    /\ at \in [Clients -> {"idle", "sending", "waiting", "draining", "exited"}]
    /\ \A c \in Clients : calls[c] \in 0 .. MaxCalls[c]
    /\ attempt \in [Clients -> 0 .. MaxRetries]
    /\ \A c \in Clients : resp[c] = None \/ resp[c] \in Datagrams
    /\ \A c \in Clients : inbox[c] \in Seq(Datagrams)
    /\ socket \in Seq(Datagrams)
    /\ wat \in [Workers -> {"select", "first", "fill", "linger", "joining", "compute", "reply", "gone"}]
    /\ \A w \in Workers : batch[w] \in Seq(Datagrams) /\ Len(batch[w]) <= LANES
    /\ sent \in [Workers -> 0 .. LANES] /\ crowded \in [Workers -> BOOLEAN]
    /\ \A i \in DOMAIN ent : ent[i] \in [key : Clients, live : BOOLEAN]
    /\ Len(ent) <= MAXC /\ recent \subseteq Clients
    /\ isboost \in BOOLEAN /\ server_running \in BOOLEAN
    /\ g_num_cpus \in 1 .. Cardinality(Workers) /\ losses \in 0 .. MaxLosses

\* No client is ever handed what another one asked: neither the workers that
\* share the socket nor the lanes that share a round mix up addresses (the
\* confusion the comment at the top of flashClient is about).
OwnAnswers == \A c \in Clients : /\ resp[c] # None => Sender(resp[c]) = c
                                 /\ \A m \in 1 .. Len(inbox[c]) : Sender(inbox[c][m]) = c

\* Every request sent is computed once: a datagram is in the socket, in one
\* batch or answered, never in two of them.
QueueOf(q) == CASE q \in Workers -> Unanswered(q)
                [] q \in Clients -> inbox[q]
                [] q = None      -> socket
TakenOnce == \A p, q \in Workers \cup Clients \cup {None} :
    /\ IsInjective(QueueOf(p))
    /\ p # q => ToSet(QueueOf(p)) \cap ToSet(QueueOf(q)) = {}

\* flashClient gives up only when every attempt of the call lost its request
\* or its answer, or nobody is left to serve it: as long as one worker has not
\* left its loop, those that have take nothing with them.
GivesUpLate == \A c \in Clients : at[c] = "exited" =>
                   losses > MaxRetries \/ \A w \in Workers : wat[w] = "gone"

\* What touch counts is what it is for, the clients of the last second: never
\* one twice or one that is gone, so that nobody lingers when there are fewer
\* clients than devices ("waiting is a pure loss"); and all of them as long as
\* a slot was never taken.
CountsClients ==
    /\ \A i, j \in DOMAIN ent : ent[i].key = ent[j].key => i = j
    /\ Remembered(ent) \subseteq recent
    /\ Len(ent) < MAXC => Remembered(ent) = recent

\* The answer accepted by a call is the answer to its own request, not an old
\* one: what the reading loop at the end of flashClient is there for.
FreshAnswer == \A c \in Clients : resp[c] # None => CallOf(resp[c]) = <<c, calls[c]>>

Rpc == INSTANCE RemoteSubtract WITH
    NoAnswer <- None,
    status <- [c \in Clients |-> IF at[c] \in {"idle", "exited"} THEN at[c] ELSE "pending"],
    answer <- [c \in Clients |-> IF at[c] = "idle" /\ resp[c] # None THEN CallOf(resp[c]) ELSE None]

\* As long as no timeout fires before the answer is lost, flashClient keeps its
\* promise: every call ends, and a call that returns has its own answer.
RefinesRpc == Rpc!Spec
===========================================================================
