------------------------------ MODULE MCEventLoop ------------------------------
(* Instances of EventLoop for TLC: the jobs there are. *)
EXTENDS EventLoop, TLC

AsyncCalls == {Routed("mcp", "direct", IndexesAsync), Routed("page", "02", CheckBloatAsync)}
PageCalls == {Routed("page", via, Straight) : via \in Instances}
ToolCalls == {Routed("thread", via, Straight) : via \in {"direct", "02"}}
SomeCalls == AsyncCalls \cup PageCalls \cup ToolCalls
===============================================================================
