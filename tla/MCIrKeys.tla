------------------------------ MODULE MCIrKeys ------------------------------
(* One key, whose task may have to be replaced, one handler, one request.   *)
EXTENDS IrKeys

Toggle == [what |-> "climate", to |-> "toggle"]
Climate(to) == [what |-> "climate", to |-> to]
Flip == [what |-> "switch", to |-> "toggle"]
TheScene == [what |-> "scene", to |-> "scene"]
AnOrder == [what |-> "order", to |-> Nil]
ACode == [what |-> "code", to |-> "code"]

MCCaller == {"task1", "task2", "request"}
MCDropped == {"request"}
MCCode == {"code"}
MCKey == {"key"}
MCChan == {"task1", "task2"}
MCReq == {"request"}
MCEvent == {"event"}
MCScene == {"scene"}
MCBinding == {[actions |-> <<Toggle>>, repeat |-> FALSE],
              [actions |-> <<TheScene, ACode>>, repeat |-> TRUE]}
MCSceneActions == {<<Flip, Climate("on")>>, <<TheScene>>}
MCFileActions == {<<TheScene, AnOrder>>}

=============================================================================
