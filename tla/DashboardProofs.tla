--------------------------- MODULE DashboardProofs --------------------------
(***************************************************************************)
(* With one run at a time the dashboard of the master never leaves an old  *)
(* state on display, for any number of workers and of browsers and any     *)
(* capacity of a browser's channel.                                        *)
(***************************************************************************)
EXTENDS Dashboard, SequenceTheorems, TLAPS

USE BufferCapAssumption, PlacesAssumption

Final(r) == <<r, "final">>

\* What was read was set before.
ReadInv ==
    /\ (\E call \in Calls : pc[call] # "none") => latest \in Calls
    /\ \A call \in Calls : pc[call] = "read" => data[call] \in Calls

\* The last call waits for all the others.
OrderInv(r) ==
    pc[Final(r)] # "none" => \A call \in Calls : call # Final(r) => pc[call] = "done"

\* Nothing replaces the state that the last call has set.
LatestInv(r) ==
    /\ pc[Final(r)] # "none" => latest = Final(r)
    /\ pc[Final(r)] \in {"read", "done"} => data[Final(r)] = latest

\* A client that is broadcast to has a handler, and its channel starts empty.
ClientInv ==
    \A c \in Clients :
        /\ c \in sseClients => cpc[c] \in {"registered", "loop"}
        /\ cpc[c] = "none" => channel[c] = << >>

\* Once the last broadcast is over, what a client reads last is the latest
\* state: it is at the end of the channel, on display, or yet to be sent as
\* the initial message.
DeliveredInv(r) ==
    pc[Final(r)] = "done" =>
        \A c \in sseClients :
            /\ channel[c] = << >> => cpc[c] = "registered" \/ shown[c] = latest
            /\ channel[c] # << >> => channel[c][Len(channel[c])] = latest

TypeInv == TypeOK /\ ReadInv

OneRunInv(r) == OrderInv(r) /\ LatestInv(r) /\ ClientInv /\ DeliveredInv(r)

-----------------------------------------------------------------------------
\* What is last in a sequence stays last when the head is taken.
LEMMA LastOfTail ==
    ASSUME NEW S, NEW s \in Seq(S), s # << >>
    PROVE  /\ Tail(s) = << >> => Head(s) = s[Len(s)]
           /\ Tail(s) # << >> => Tail(s)[Len(Tail(s))] = s[Len(s)]
  <1>1. Len(s) \in Nat /\ Len(s) # 0 /\ Head(s) = s[1]
    BY EmptySeq, HeadTailProperties
  <1>2. /\ Tail(s) \in Seq(S) /\ Len(Tail(s)) = Len(s) - 1
        /\ \A i \in 1..Len(Tail(s)) : Tail(s)[i] = s[i + 1]
    BY HeadTailProperties
  <1>3. Tail(s) = << >> <=> Len(Tail(s)) = 0
    BY <1>2, EmptySeq
  <1> QED
    BY <1>1, <1>2, <1>3

\* The variables keep their types; in particular no channel overflows.
LEMMA TypeStep == TypeInv /\ [Next]_vars => TypeInv'
  <1> SUFFICES ASSUME TypeInv, [Next]_vars PROVE TypeInv'
    OBVIOUS
  <1> USE DEF TypeInv, TypeOK, ReadInv, States
  <1>1. ASSUME NEW call \in Calls, SetState(call) PROVE TypeInv'
    BY <1>1 DEF SetState, clientVars
  <1>2. ASSUME NEW call \in Calls, ReadLatest(call) PROVE TypeInv'
    BY <1>2 DEF ReadLatest, clientVars
  <1>3. ASSUME NEW call \in Calls, Broadcast(call) PROVE TypeInv'
    <2>1. data[call] \in Calls
      BY <1>3 DEF Broadcast
    <2>2. channel' \in [Clients -> Seq(Calls)] /\ \A c \in Clients : Len(channel'[c]) <= BufferCap
      BY <1>3, <2>1 DEF Broadcast
    <2>3. /\ latest' \in States /\ sseClients' \subseteq Clients
          /\ pc' \in [Calls -> {"none", "set", "read", "done"}] /\ data' = data
          /\ cpc' = cpc /\ shown' = shown
      BY <1>3 DEF Broadcast
    <2>4. ReadInv'
      BY <1>3 DEF Broadcast
    <2>5. TypeOK'
      BY <2>2, <2>3
    <2> QED
      BY <2>4, <2>5
  <1>4. ASSUME NEW c \in Clients, Register(c) \/ SendInitial(c) \/ Leave(c) PROVE TypeInv'
    BY <1>4 DEF Register, SendInitial, Leave
  <1>6. ASSUME NEW c \in Clients, Forward(c) PROVE TypeInv'
    <2>1. channel[c] \in Seq(Calls) /\ channel[c] # << >> /\ Len(channel[c]) <= BufferCap
      BY <1>6 DEF Forward
    <2>2. /\ Head(channel[c]) \in States /\ Tail(channel[c]) \in Seq(Calls)
          /\ Len(Tail(channel[c])) <= BufferCap
      BY <2>1, HeadTailProperties, LenProperties
    <2> QED
      BY <1>6, <2>2 DEF Forward
  <1>5. ASSUME UNCHANGED vars PROVE TypeInv'
    BY <1>5 DEF vars
  <1> QED
    BY <1>1, <1>2, <1>3, <1>4, <1>5, <1>6 DEF Next, Publish, Stream

LEMMA TypeInit == Init => TypeInv
  BY DEF Init, TypeInv, TypeOK, ReadInv, States

\* Every variable of the dashboard keeps its type, with any number of runs.
THEOREM TypeCorrect == Spec => []TypeOK
  <1>1. TypeInv => TypeOK
    BY DEF TypeInv
  <1> QED
    BY TypeInit, TypeStep, <1>1, PTL DEF Spec

-----------------------------------------------------------------------------
\* The last call of the only run follows all the others.
LEMMA OrderStep ==
    ASSUME NEW r, Runs = {r}, TypeInv, OrderInv(r), LatestInv(r), [Next]_vars
    PROVE  OrderInv(r)' /\ LatestInv(r)'
  <1> USE DEF OrderInv, LatestInv, Final, TypeInv, TypeOK
  <1>0. Final(r) \in Calls /\ \A call \in Calls : call[1] = r
    BY DEF Calls
  <1>5. \A call \in Calls : call = <<call[1], call[2]>>
    BY DEF Calls
  <1>6. \A call \in Calls : call[2] \in {"start", "final"} \cup Workers
    BY DEF Calls
  <1>1. ASSUME NEW call \in Calls, SetState(call) PROVE OrderInv(r)' /\ LatestInv(r)'
    <2>1. CASE call = Final(r)
      <3>1. pc[<<r, "start">>] = "done" /\ \A w \in Workers : pc[<<r, w>>] = "done"
        BY <1>1, <2>1 DEF SetState, Follows
      <3>2. ASSUME NEW other \in Calls, other # Final(r) PROVE pc[other] = "done"
        <4>1. other = <<r, other[2]>> /\ other[2] \in {"start", "final"} \cup Workers
          BY <1>0, <1>5, <1>6
        <4> QED
          BY <3>1, <3>2, <4>1
      <3> QED
        BY <1>1, <2>1, <3>2, <1>0 DEF SetState
    <2>2. CASE call # Final(r)
      BY <1>1, <2>2, <1>0 DEF SetState
    <2> QED
      BY <2>1, <2>2
  <1>2. ASSUME NEW call \in Calls, ReadLatest(call) PROVE OrderInv(r)' /\ LatestInv(r)'
    BY <1>2, <1>0 DEF ReadLatest
  <1>3. ASSUME NEW call \in Calls, Broadcast(call) PROVE OrderInv(r)' /\ LatestInv(r)'
    BY <1>3, <1>0 DEF Broadcast
  <1>4. ASSUME UNCHANGED <<latest, pc, data>> PROVE OrderInv(r)' /\ LatestInv(r)'
    BY <1>4
  <1> QED
    BY <1>1, <1>2, <1>3, <1>4
    DEF Next, Publish, Stream, Register, SendInitial, Forward, Leave, vars

\* The clients' side: the last state is in the channel or on display.
LEMMA DeliveredStep ==
    ASSUME NEW r, Runs = {r}, TypeInv, OneRunInv(r), [Next]_vars
    PROVE  ClientInv' /\ DeliveredInv(r)'
  <1> USE DEF OneRunInv, TypeInv, TypeOK
  <1>0. Final(r) \in Calls
    BY DEF Calls, Final
  <1>1. ASSUME NEW call \in Calls, SetState(call) PROVE ClientInv' /\ DeliveredInv(r)'
    BY <1>1, <1>0 DEF SetState, clientVars, ClientInv, DeliveredInv, OrderInv
  <1>2. ASSUME NEW call \in Calls, ReadLatest(call) PROVE ClientInv' /\ DeliveredInv(r)'
    BY <1>2, <1>0 DEF ReadLatest, clientVars, ClientInv, DeliveredInv, OrderInv
  <1>3. ASSUME NEW call \in Calls, Broadcast(call) PROVE ClientInv' /\ DeliveredInv(r)'
    <2>1. ClientInv'
      BY <1>3 DEF Broadcast, ClientInv
    <2>2. CASE call = Final(r)
      <3>1. data[call] = latest /\ latest \in Calls
        BY <1>3, <2>2, <1>0 DEF Broadcast, LatestInv, ReadInv
      <3>2. ASSUME NEW c \in sseClients'
            PROVE  channel'[c] = Append(channel[c], latest) /\ channel[c] \in Seq(Calls)
        BY <1>3, <3>1, <3>2 DEF Broadcast
      <3>3. ASSUME NEW c \in sseClients'
            PROVE  channel'[c] # << >> /\ channel'[c][Len(channel'[c])] = latest
        BY <3>1, <3>2, <3>3
      <3> QED
        BY <1>3, <2>1, <3>3 DEF Broadcast, DeliveredInv
    <2>3. CASE call # Final(r)
      <3>1. pc[Final(r)] = "none" /\ pc'[Final(r)] = pc[Final(r)]
        BY <1>3, <2>3, <1>0 DEF Broadcast, OrderInv
      <3> QED
        BY <2>1, <3>1 DEF DeliveredInv
    <2> QED
      BY <2>2, <2>3
  <1>4. ASSUME NEW c \in Clients, Register(c) PROVE ClientInv' /\ DeliveredInv(r)'
    BY <1>4 DEF Register, ClientInv, DeliveredInv
  <1>5. ASSUME NEW c \in Clients, SendInitial(c) PROVE ClientInv' /\ DeliveredInv(r)'
    BY <1>5 DEF SendInitial, ClientInv, DeliveredInv
  <1>6. ASSUME NEW c \in Clients, Forward(c) PROVE ClientInv' /\ DeliveredInv(r)'
    <2>1. ClientInv'
      BY <1>6 DEF Forward, ClientInv
    <2>2. /\ channel[c] \in Seq(Calls) /\ channel[c] # << >>
          /\ channel'[c] = Tail(channel[c]) /\ shown'[c] = Head(channel[c])
      BY <1>6 DEF Forward
    <2>3. /\ Tail(channel[c]) = << >> => Head(channel[c]) = channel[c][Len(channel[c])]
          /\ Tail(channel[c]) # << >> =>
                Tail(channel[c])[Len(Tail(channel[c]))] = channel[c][Len(channel[c])]
      BY <2>2, LastOfTail
    <2> QED
      BY <1>6, <2>1, <2>2, <2>3 DEF Forward, DeliveredInv
  <1>7. ASSUME NEW c \in Clients, Leave(c) PROVE ClientInv' /\ DeliveredInv(r)'
    BY <1>7 DEF Leave, ClientInv, DeliveredInv
  <1>8. ASSUME UNCHANGED vars PROVE ClientInv' /\ DeliveredInv(r)'
    BY <1>8 DEF vars, ClientInv, DeliveredInv
  <1> QED
    BY <1>1, <1>2, <1>3, <1>4, <1>5, <1>6, <1>7, <1>8 DEF Next, Publish, Stream

\* When the calls of the only run are through, a client that is still
\* broadcast to and has read its channel shows the latest state.
THEOREM FinalCorrect ==
    ASSUME NEW CONSTANT r, Runs = {r}
    PROVE  Spec => []FinalShown
  <1>1. Init => TypeInv /\ OneRunInv(r)
    <2>1. Final(r) \in Calls
      BY DEF Calls, Final
    <2> QED
      BY <2>1, TypeInit DEF Init, OneRunInv, OrderInv, LatestInv, ClientInv, DeliveredInv
  <1>2. TypeInv /\ OneRunInv(r) /\ [Next]_vars => (TypeInv /\ OneRunInv(r))'
    BY TypeStep, OrderStep, DeliveredStep DEF OneRunInv
  <1>3. TypeInv /\ OneRunInv(r) => FinalShown
    <2>1. Final(r) \in Calls
      BY DEF Calls, Final
    <2> QED
      BY <2>1 DEF OneRunInv, DeliveredInv, FinalShown
  <1> QED
    BY <1>1, <1>2, <1>3, PTL DEF Spec
=============================================================================
