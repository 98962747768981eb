------------------------------- MODULE MCCalls -------------------------------
(***************************************************************************)
(* Calls with the methods of the two clients, the exports of goneonize and *)
(* the declarations of _binder.py.                                         *)
(***************************************************************************)
EXTENDS ClientCalls, Exports

CONSTANTS a, b, x1, x2, x3

Sync == INSTANCE SyncMethods
Asyncio == INSTANCE AsyncMethods

MCMethod == ({"sync"} \X DOMAIN Sync!Methods)
              \union ({"asyncio"} \X DOMAIN Asyncio!Methods)
MCProgram == [m \in MCMethod |-> IF m[1] = "sync" THEN Sync!Methods[m[2]]
                                                  ELSE Asyncio!Methods[m[2]]]
\* ClientFactory.get_all_devices is not a coroutine.
MCCancellable == {m \in MCMethod : m[1] = "asyncio" /\ m[2] # "get_all_devices"}
MCExport == DOMAIN Answers

\* One caller calls any method, and again if it raises; the other allocates,
\* may be cancelled, and may find nothing to answer with.
MCApplications ==
  {[k \in Caller |-> IF k = a THEN m ELSE <<"asyncio", "get_joined_groups">>] :
     m \in MCMethod}
MCTries == [k \in Caller |-> IF k = a THEN 2 ELSE 1]
==============================================================================
