----------------------------- MODULE ConnService ----------------------------
(***************************************************************************)
(* What an event loop of conv_event promises its clients, with none of its *)
(* tables, queues, threads or objects: it serves at most max_connect_count *)
(* connections at a time, turns a client away only when it is full, and    *)
(* ends a connection once.  ConvSingle is shown to implement it.           *)
(***************************************************************************)
EXTENDS Naturals, FiniteSets

CONSTANTS
  Clients,     \* the connections that peers open
  MaxConnect,  \* max_connect_count, a natural number
  Spare        \* places that failed accepts may have used up, 0 or 1

VARIABLES
  phase,  \* "away", "waiting" in the listen queue, "served" or "gone"
  left,   \* clients that have closed their side
  up      \* whether the service runs

vars == <<phase, left, up>>

In(p) == {c \in Clients : phase[c] = p}

Init == phase = [c \in Clients |-> "away"] /\ left = {} /\ up = TRUE

Arrive(c) ==
  /\ up /\ phase[c] = "away"
  /\ phase' = [phase EXCEPT ![c] = "waiting"]
  /\ UNCHANGED <<left, up>>

\* A client may close its side while it waits or is served.
Leave(c) ==
  /\ phase[c] \in {"waiting", "served"} /\ c \notin left
  /\ left' = left \cup {c}
  /\ UNCHANGED <<phase, up>>

Admit(c) ==
  /\ up /\ phase[c] = "waiting"
  /\ Cardinality(In("served")) < MaxConnect
  /\ phase' = [phase EXCEPT ![c] = "served"]
  /\ UNCHANGED <<left, up>>

\* A client is turned away only when every place is taken.
Refuse(c) ==
  /\ up /\ phase[c] = "waiting"
  /\ Cardinality(In("served")) + Spare >= MaxConnect
  /\ phase' = [phase EXCEPT ![c] = "gone"]
  /\ UNCHANGED <<left, up>>

End(c) ==
  /\ up /\ phase[c] = "served"
  /\ phase' = [phase EXCEPT ![c] = "gone"]
  /\ UNCHANGED <<left, up>>

\* The service stops listening: who still waits is turned away.
Stop ==
  /\ up /\ up' = FALSE
  /\ phase' = [c \in Clients |-> IF phase[c] = "waiting" THEN "gone" ELSE phase[c]]
  /\ UNCHANGED left

Next == Stop \/ \E c \in Clients :
                  Arrive(c) \/ Leave(c) \/ Admit(c) \/ Refuse(c) \/ End(c)

Spec == Init /\ [][Next]_vars

\* Nobody waits for ever: each client is admitted or turned away.
Attended == \A c \in Clients : (phase[c] = "waiting") ~> (phase[c] # "waiting")

\* A served client that has left is not kept for ever.
Reclaimed == \A c \in Clients :
               (up /\ phase[c] = "served" /\ c \in left) ~> (phase[c] = "gone" \/ ~up)
=============================================================================
