----------------------------- MODULE MCServices ------------------------------
(* The services that answer other processes and other machines, each on its *)
(* own: they share no state that the models keep, so a behaviour is one of  *)
(* one of them (part).                                                      *)
EXTENDS DebugServer, ExtenderNet, NetChannels

VARIABLE part

MCPartNames == {"evaluations", "handshake", "requests"}
MCVars == <<part, vars, netVars, channelVars>>

MCInit ==
    /\ part \in MCPartNames
    /\ Init
    /\ NetInit /\ (part # "handshake" => hostExtends)
    /\ ChannelInit

MCNext ==
    /\ UNCHANGED part
    /\ \/ /\ part = "evaluations" /\ Next
          /\ UNCHANGED <<netVars, channelVars>>
       \/ /\ part = "handshake" /\ NetNext
          /\ UNCHANGED <<vars, channelVars>>
       \/ /\ part = "requests" /\ ChannelNext
          /\ UNCHANGED <<vars, netVars>>

(* Each one's own fairness.                                                  *)
MCFairness ==
    /\ \A c \in Clients : WF_vars(part = "evaluations" /\ Handler(c))
    /\ \A p \in Pumps :
          /\ WF_vars(part = "evaluations" /\ (Take(p) \/ PumpEnds(p) \/ Subtract(p)))
          /\ SF_vars(part = "evaluations" /\ EvalEnds(p))
          /\ WF_vars(part = "evaluations" /\ PumpServer(p))
    /\ WF_vars(part = "evaluations" /\ PumpClient)
    /\ \A m \in Machines : WF_netVars(part = "handshake" /\ Receive(m))
    /\ \A s \in Sides : WF_channelVars(part = "requests" /\ Side(s))
    /\ WF_channelVars(part = "requests" /\ BuildClient)

MCSpec == MCInit /\ [][MCNext]_MCVars /\ MCFairness
==============================================================================
