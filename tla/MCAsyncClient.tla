--------------------------- MODULE MCAsyncClient ---------------------------
(***************************************************************************)
(* Values for the constants of AsyncClient.                                *)
(***************************************************************************)
EXTENDS AsyncClient

CONSTANTS c1, c2

\* A handler that only logs, one that answers, and one that stops its
\* own client.
MCKind == {"Connected", "Message", "Shutdown"}
MCScript == [k \in MCKind |-> CASE k = "Connected" -> <<>>
                                [] k = "Message" -> <<"call">>
                                [] k = "Shutdown" -> <<"stop">>]

\* Two events for the first client, none for the second.
MCFewEvents == [c \in Client |-> IF c = c1 THEN 2 ELSE 0]

\* The application idles after a call of its own, or at once, or returns.
MCCallThenIdle == <<"call", "idle">>
MCIdle == <<"idle">>
MCReturn == <<>>
=============================================================================
