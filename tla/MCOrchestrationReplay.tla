----------------------- MODULE MCOrchestrationReplay -----------------------
(* Programs for OrchestrationReplay. *)
EXTENDS OrchestrationReplay

CONSTANT go  \* an external event

One(call) == Statement("one", <<call>>, TRUE)
Quiet(call) == Statement("none", <<call>>, TRUE)
AllOf(calls) == Statement("all", calls, FALSE)
AnyOf(calls) == Statement("any", calls, TRUE)

Activity(name) == Call("activity", name, None)
Retried == Call("activity", "a", RetryPolicy(2, 1, 2, 3, 1000))
Sub == Call("sub", "s", None)
RetriedSub == Call("sub", "s", RetryPolicy(2, 2, 2, 1, 1000))
Timer == Call("timer", 1, None)
Wait == Call("event", go, None)
Entity(e) == Call("call", e, None)
Signal(e) == Call("signal", e, None)
Lock(entities) == Call("lock", entities, None)
Unlock == Call("unlock", 0, None)
Again == Call("continue", TRUE, None)

Chain == <<<<One(Activity("a")), One(Sub), One(Timer)>>>>
Renamed == <<<<One(Activity("b")), One(Sub), One(Timer)>>>>
FanOut == <<<<AllOf(<<Activity("a"), Sub>>), One(Wait)>>>>
Race == <<<<AnyOf(<<Activity("a"), Timer>>), One(Wait)>>>>
Approval == <<<<AnyOf(<<Wait, Timer>>), One(Activity("a")), One(Wait)>>>>
Retries == <<<<One(Retried), One(RetriedSub)>>>>
Section == <<<<One(Lock({2, 1})), Quiet(Signal(1)), Quiet(Signal(3)),
               One(Entity(1)), Quiet(Unlock),
               One(Activity("a"))>>>>
Caught == <<<<Statement("all", <<Activity("a"), Sub>>, TRUE)>>>>
Loop == <<<<One(Wait), Quiet(Again)>>, <<One(Wait), One(Activity("a"))>>>>

Hurry == <<<<One(Activity("a")), Quiet(Again)>>, <<One(Wait), One(Wait)>>>>

Quietly(p, host, events) == Scene(p, p, host, {}, {}, <<events, 0, 0, 0>>)

Everything ==
  {Scene(Chain, Renamed, "new", {}, {"scheduleTask", "createSub"}, <<0, 0, 1, 0>>),
   Scene(FanOut, FanOut, "new", {"terminate"}, {}, <<1, 0, 0, 0>>),
   Scene(Race, Race, "new", {"suspend"}, {}, <<1, 1, 0, 0>>),
   Scene(Approval, Approval, "new", {"suspend"}, {}, <<2, 1, 0, 0>>),
   Scene(Retries, Retries, "new", {}, {"scheduleTask"}, <<0, 0, 1, 1>>),
   Quietly(Section, "new", 0), Quietly(Section, "old", 0),
   Quietly(Hurry, "new", 2),
   Scene(Loop, Loop, "new", {"suspend", "terminate"}, {}, <<3, 1, 0, 0>>)}

SuspendedAnywhere == {Scene(Chain, Chain, "new", {"suspend"}, {}, <<0, 1, 0, 0>>)}
CaughtFailure == {Quietly(Caught, "new", 0)}
=============================================================================
