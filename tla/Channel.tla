------------------------------- MODULE Channel -------------------------------
(* lib/channel: the queue in front of the data channel, the command client *)
(* and its heartbeat.  What they share is abstracted in each of them (the  *)
(* queue sends any payload, sendData of the client fails or not, a ping of *)
(* the client comes at any time, the heartbeat's numbers are its own), so  *)
(* no step of one enables, disables or changes a step of another and a     *)
(* behaviour exercises one of them: what holds of the parts holds of their *)
(* sum.                                                                    *)
EXTENDS BackpressureQueue, CommandClient, Heartbeat

VARIABLE part  \* the part this behaviour exercises

ChannelInit ==
  /\ part \in {"queue", "client", "heartbeat"}
  /\ QueueInit /\ Init /\ HeartbeatInit

ChannelNext ==
  /\ UNCHANGED part
  /\ \/ part = "queue" /\ QueueNext /\ UNCHANGED <<vars, heartbeatVars>>
     \/ part = "client" /\ Next /\ UNCHANGED <<queueVars, heartbeatVars>>
     \/ part = "heartbeat" /\ HeartbeatNext /\ UNCHANGED <<queueVars, vars>>

channelVars == <<part, queueVars, vars, heartbeatVars>>

(* The fairness is that of the parts.  Nothing it asks for is enabled in   *)
(* the initial state of a part, so it asks nothing of one that rests.      *)
ChannelFairness == QueueFairness /\ CommandFairness
ChannelSpec == ChannelInit /\ [][ChannelNext]_channelVars /\ ChannelFairness
=============================================================================
