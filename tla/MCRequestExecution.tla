------------------------ MODULE MCRequestExecution ------------------------
EXTENDS RequestExecution, TLC

CONSTANTS a1, a2, a3, pa, pb, m1, m2

MCOrder == <<a1, a2, a3>>
MCProviderOf == a1 :> pa @@ a2 :> pa @@ a3 :> pb
MCPriorityOf == a1 :> 1 @@ a2 :> 1 @@ a3 :> 0
MCPool == a1 :> <<m1>> @@ a2 :> <<m1>> @@ a3 :> <<m1, m2>>
MCRetryOf == a1 :> 1 @@ a2 :> 0 @@ a3 :> 0
MCLists == {<<pa>>, <<pa, pb>>}

Call3(kind, list, pin, ws) == [kind |-> kind, list |-> list, pin |-> pin, ws |-> ws]
MCCalls == {Call3("stream", <<pa>>, NoAuth, TRUE),
            Call3("execute", <<pa, pb>>, NoAuth, FALSE),
            Call3("count", <<pa, pb>>, a1, FALSE)}
============================================================================
