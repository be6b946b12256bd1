------------------------------ MODULE Dashboard -----------------------------
(***************************************************************************)
(* The live dashboard of the master (internal/distributed/master.go):      *)
(* setState stores the latest state and broadcasts it to the clients of    *)
(* /api/stream; handleSSE registers a client, sends it the state of the    *)
(* moment and then forwards what is broadcast.  setState takes the lock m.mu *)
(* three times, so the calls of different goroutines interleave.           *)
(*                                                                         *)
(* A run of Master.Run calls setState when it starts, once from the        *)
(* goroutine of each worker, and, after all of these, when it ends.  A     *)
(* call is the pair of its run and its place in it, and stands for the     *)
(* state it sets.                                                          *)
(***************************************************************************)
EXTENDS Naturals, Sequences, FiniteSets

CONSTANTS Runs,      \* the runs under way at the same time
          Workers,   \* the workers of a run
          Clients,   \* browsers that open /api/stream
          BufferCap, \* capacity of a client's channel: 16 in the code
          NoState    \* the zero DashboardState; nothing shown

ASSUME BufferCapAssumption == BufferCap \in Nat \ {0}
ASSUME PlacesAssumption == {"start", "final"} \cap Workers = {}

Calls == Runs \X ({"start", "final"} \cup Workers)

VARIABLES
    latest,      \* m.latest
    pc,          \* where each call of setState is
    data,        \* the state broadcastState read, for each call
    sseClients,  \* m.sseClients: the clients that are broadcast to
    channel,     \* the channel of each client
    cpc,         \* where the handler of each client is
    shown        \* the state each client received last

vars == <<latest, pc, data, sseClients, channel, cpc, shown>>
clientVars == <<sseClients, channel, cpc, shown>>

States == Calls \cup {NoState}

Init ==
    /\ latest = NoState
    /\ pc = [call \in Calls |-> "none"]
    /\ data = [call \in Calls |-> NoState]
    /\ sseClients = {}
    /\ channel = [c \in Clients |-> << >>]
    /\ cpc = [c \in Clients |-> "none"]
    /\ shown = [c \in Clients |-> NoState]

-----------------------------------------------------------------------------
(* setState and broadcastState.                                            *)

\* Mutant: the last call does not wait for the goroutines.
FollowsStart(call) == call[2] # "start" => pc[<<call[1], "start">>] = "done"

\* In Run the goroutines start after the first call and wg.Wait precedes the last.
Follows(call) ==
    /\ call[2] # "start" => pc[<<call[1], "start">>] = "done"
    /\ call[2] = "final" => \A w \in Workers : pc[<<call[1], w>>] = "done"

SetState(call) ==
    /\ pc[call] = "none" /\ Follows(call)
    /\ latest' = call
    /\ pc' = [pc EXCEPT ![call] = "set"]
    /\ UNCHANGED <<data, clientVars>>

\* broadcastState encodes m.latest, which another call may have replaced.
ReadLatest(call) ==
    /\ pc[call] = "set"
    /\ data' = [data EXCEPT ![call] = latest]
    /\ pc' = [pc EXCEPT ![call] = "read"]
    /\ UNCHANGED <<latest, clientVars>>

\* Mutant: a full channel loses the message and not the client.
BroadcastOrSkip(call) ==
    /\ pc[call] = "read"
    /\ pc' = [pc EXCEPT ![call] = "done"]
    /\ channel' = [c \in Clients |->
                     IF c \in sseClients /\ Len(channel[c]) < BufferCap
                     THEN Append(channel[c], data[call]) ELSE channel[c]]
    /\ UNCHANGED <<latest, data, sseClients, cpc, shown>>

\* Under the lock: every client whose channel has room gets the message, every
\* other one is removed from the map and is not told.
Broadcast(call) ==
    /\ pc[call] = "read"
    /\ pc' = [pc EXCEPT ![call] = "done"]
    /\ LET room == {c \in sseClients : Len(channel[c]) < BufferCap}
       IN  /\ channel' = [c \in Clients |-> IF c \in room THEN Append(channel[c], data[call])
                                            ELSE channel[c]]
           /\ sseClients' = room
    /\ UNCHANGED <<latest, data, cpc, shown>>

-----------------------------------------------------------------------------
(* handleSSE.                                                              *)

Register(c) ==
    /\ cpc[c] = "none"
    /\ sseClients' = sseClients \cup {c}
    /\ cpc' = [cpc EXCEPT ![c] = "registered"]
    /\ UNCHANGED <<latest, pc, data, channel, shown>>

SendInitial(c) ==
    /\ cpc[c] = "registered"
    /\ shown' = [shown EXCEPT ![c] = latest]
    /\ cpc' = [cpc EXCEPT ![c] = "loop"]
    /\ UNCHANGED <<latest, pc, data, sseClients, channel>>

Forward(c) ==
    /\ cpc[c] = "loop"
    /\ channel[c] # << >>
    /\ shown' = [shown EXCEPT ![c] = Head(channel[c])]
    /\ channel' = [channel EXCEPT ![c] = Tail(@)]
    /\ UNCHANGED <<latest, pc, data, sseClients, cpc>>

\* The browser closes the stream: the deferred function removes the client.
Leave(c) ==
    /\ cpc[c] = "loop"
    /\ cpc' = [cpc EXCEPT ![c] = "left"]
    /\ sseClients' = sseClients \ {c}
    /\ UNCHANGED <<latest, pc, data, channel, shown>>

-----------------------------------------------------------------------------
Publish(call) == SetState(call) \/ ReadLatest(call) \/ Broadcast(call)

Stream(c) == SendInitial(c) \/ Forward(c)

Next ==
    \/ \E call \in Calls : Publish(call)
    \/ \E c \in Clients : Register(c) \/ Stream(c) \/ Leave(c)

Spec == Init /\ [][Next]_vars

\* Goroutines that can run do run: a run that has begun publishes its states
\* and a handler forwards what is in its channel.
Fairness ==
    /\ \A call \in Calls : WF_vars(Publish(call))
    /\ \A c \in Clients : WF_vars(Stream(c))

FairSpec == Spec /\ Fairness

-----------------------------------------------------------------------------
(* Properties.                                                             *)

TypeOK ==
    /\ latest \in States
    /\ pc \in [Calls -> {"none", "set", "read", "done"}]
    /\ data \in [Calls -> States]
    /\ sseClients \subseteq Clients
    /\ channel \in [Clients -> Seq(Calls)]
    /\ \A c \in Clients : Len(channel[c]) <= BufferCap
    /\ cpc \in [Clients -> {"none", "registered", "loop", "left"}]
    /\ shown \in [Clients -> States]

\* The runs never leave an old state on display: once their last calls are
\* through, a client that is still broadcast to and has read its channel shows
\* the latest state, however registration, the initial message and the
\* broadcasts interleaved.  It holds of one run at a time, whose last call
\* follows all others; two runs at once can overtake each other between the
\* read and the broadcast of setState.
FinalShown ==
    (\A call \in Calls : pc[call] = "done") =>
        \A c \in sseClients :
            cpc[c] = "loop" /\ channel[c] = << >> => shown[c] = latest

\* A client that keeps its stream open gets the final state of a run in the
\* end, unless it was too slow and was dropped.
FinalReaches ==
    \A c \in Clients :
        (cpc[c] = "loop") ~>
            (\/ c \notin sseClients
             \/ \E r \in Runs : shown[c] = <<r, "final">>)
=============================================================================
