--------------------------- MODULE WebSocketFanout ---------------------------
(***************************************************************************)
(* WebSocketSink: the sockets of one conversation in a list that endpoints *)
(* change while emit() iterates over it.  Python iterates by position, and *)
(* every send is a suspension point.                                       *)
(***************************************************************************)
EXTENDS Integers, Sequences, FiniteSets, SequencesExt

CONSTANTS
  Sockets,      \* connections of clients to the conversation
  Emitters,     \* tasks that publish: the projector, requests, finished Runs
  Events        \* events each of them publishes

VARIABLES
  connections,  \* _connections[conversation_id]
  endpoint,     \* endpoint[s]: the handler of s: new, serving, gone, ended
  emitter,      \* the call of emit each task is in
  got,          \* got[s]: what was sent to s, as pairs emitter, event (history)
  owed          \* owed[t]: sockets that t's current event must reach (history)

list == <<connections, endpoint, emitter, got, owed>>

Idle(n) == [pc |-> "idle", n |-> n, at |-> 0, to |-> {}, dead |-> <<>>]

FanoutInit ==
  /\ connections = <<>>
  /\ endpoint = [s \in Sockets |-> "new"]
  /\ emitter = [t \in Emitters |-> Idle(0)]
  /\ got = [s \in Sockets |-> <<>>]
  /\ owed = [t \in Emitters |-> {}]

(* The endpoint registers its socket, and unregisters it when it has seen  *)
(* the disconnection; the peer may be gone long before.                    *)
MutantAdded(s) == <<s>> \o connections

Added(s) == Append(connections, s)

Registers(s) ==
  /\ endpoint[s] = "new"
  /\ connections' = Added(s)
  /\ endpoint' = [endpoint EXCEPT ![s] = "serving"]
  /\ UNCHANGED <<emitter, got, owed>>

PeerGoes(s) ==
  /\ endpoint[s] = "serving"
  /\ endpoint' = [endpoint EXCEPT ![s] = "gone"]
  /\ owed' = [t \in Emitters |-> owed[t] \ {s}]
  /\ UNCHANGED <<connections, emitter, got>>

(* What list.remove leaves of the list: the others, in their order.        *)
Left(removed) ==
  LET stay == {i \in DOMAIN connections : connections[i] \notin removed}
      place(j) == CHOOSE i \in stay : Cardinality({h \in stay : h <= i}) = j
  IN  [j \in 1..Cardinality(stay) |-> connections[place(j)]]

Unregister(s) ==
  /\ endpoint[s] = "gone"
  /\ connections' = Left({s})
  /\ endpoint' = [endpoint EXCEPT ![s] = "ended"]
  /\ UNCHANGED <<emitter, got, owed>>

-----------------------------------------------------------------------------
(* emit.  Continue goes on from a position of the list as it is now: it   *)
(* sends to the socket there, or behind the end removes the dead ones,     *)
(* where list.remove raises for the first that is no longer there.         *)

Present(dead) ==     \* how many of the dead are removed before one is not there
  CHOOSE k \in 0..Len(dead) :
    /\ \A i \in 1..k : dead[i] \in ToSet(connections)
    /\ k < Len(dead) => dead[k + 1] \notin ToSet(connections)

Continue(t, n, at, dead) ==
  IF at <= Len(connections)
  THEN /\ emitter' = [emitter EXCEPT ![t] =
            [pc |-> "sending", n |-> n, at |-> at, to |-> {connections[at]}, dead |-> dead]]
       /\ UNCHANGED connections
  ELSE LET k == Present(dead)
       IN  /\ connections' = Left(ToSet(SubSeq(dead, 1, k)))
           /\ emitter' = [emitter EXCEPT ![t] =
                [Idle(n) EXCEPT !.pc = IF k = Len(dead) THEN "idle" ELSE "raised"]]

Start(t) ==
  /\ emitter[t].pc = "idle" /\ emitter[t].n < Events
  /\ connections # <<>>
  /\ Continue(t, emitter[t].n + 1, 1, <<>>)
  /\ owed' = [owed EXCEPT ![t] = {s \in ToSet(connections) : endpoint[s] = "serving"}]
  /\ UNCHANGED <<endpoint, got>>

(* send_json returns, which it still may for a peer that has gone, or it   *)
(* raises for one.                                                         *)
Sent(t) ==
  /\ emitter[t].pc = "sending"
  /\ \E s \in emitter[t].to :
       \/ /\ got' = [got EXCEPT ![s] = Append(@, <<t, emitter[t].n>>)]
          /\ owed' = [owed EXCEPT ![t] = @ \ {s}]
          /\ Continue(t, emitter[t].n, emitter[t].at + 1, emitter[t].dead)
       \/ /\ endpoint[s] # "serving"
          /\ UNCHANGED <<got, owed>>
          /\ Continue(t, emitter[t].n, emitter[t].at + 1, Append(emitter[t].dead, s))
  /\ UNCHANGED endpoint

-----------------------------------------------------------------------------
Endpoints(s) == Registers(s) \/ PeerGoes(s) \/ Unregister(s)

FanoutNext ==
  \/ \E s \in Sockets : Endpoints(s)
  \/ \E t \in Emitters : Start(t) \/ Sent(t)

(* Endpoints see the disconnection in the end and sends return.            *)
FanoutSpec ==
  /\ FanoutInit /\ [][FanoutNext]_list
  /\ \A s \in Sockets : WF_list(Unregister(s))
  /\ \A t \in Emitters : WF_list(Sent(t))

-----------------------------------------------------------------------------
(* However the list moves under the iteration, a client gets an event at   *)
(* most once, and the events of one task in order.                         *)
OnceAndInOrder ==
  \A s \in Sockets : \A i, j \in 1..Len(got[s]) :
    i < j /\ got[s][i][1] = got[s][j][1] => got[s][i][2] < got[s][j][2]

(* A client that is gone leaves the list.                                  *)
Forgotten == \A s \in Sockets : endpoint[s] = "gone" ~> s \notin ToSet(connections)

(* A client that leaves does not stop who publishes ("不影响 Run 继续执行").   *)
PublishersSurvive == \A t \in Emitters : emitter[t].pc # "raised"

(* A client that was connected all the time an event was published, and    *)
(* still is, got it ("支持多客户端同时连接").                                    *)
NobodySkipped == \A t \in Emitters : emitter[t].pc = "idle" => owed[t] = {}
=============================================================================
