------------------------------- MODULE Requests -------------------------------
(***************************************************************************)
(* A request on its way to a model: what the passes and the view leave of  *)
(* the session, the body a client builds of it, the provider it is routed  *)
(* to and the answer that is heard.  Each stage takes only the shape of    *)
(* its input from the one before, which its module describes; so one       *)
(* specification holds them side by side, and a behaviour of it exercises  *)
(* one of them, whichever `stage' says.                                    *)
(***************************************************************************)
EXTENDS ContextView, ContextPasses, ModelRequests, ModelRouting, ModelStream

VARIABLE stage   \* the stage a behaviour exercises

RequestStages == {"passes", "view", "body", "routing", "stream"}

requestsVars ==
  <<stage, passVars, contextVars, reqVars, routingVars, streamVars>>

RequestsInit ==
  /\ stage \in RequestStages
  /\ PassBlank /\ ContextInit /\ ReqBlank /\ RoutingInit /\ StreamInit

RequestsNext ==
  /\ UNCHANGED stage
  /\ \/ /\ stage = "passes" /\ PassNext
        /\ UNCHANGED <<contextVars, reqVars, routingVars, streamVars>>
     \/ /\ stage = "view" /\ ContextNext
        /\ UNCHANGED <<passVars, reqVars, routingVars, streamVars>>
     \/ /\ stage = "body" /\ ReqNext
        /\ UNCHANGED <<passVars, contextVars, routingVars, streamVars>>
     \/ /\ stage = "routing" /\ RoutingNext
        /\ UNCHANGED <<passVars, contextVars, reqVars, streamVars>>
     \/ /\ stage = "stream" /\ StreamNext
        /\ UNCHANGED <<passVars, contextVars, reqVars, routingVars>>

RequestsSpec == RequestsInit /\ [][RequestsNext]_requestsVars
===============================================================================
