----------------------------- MODULE MCSession -----------------------------
(***************************************************************************)
(* Values for the constants of Session.                                    *)
(***************************************************************************)
EXTENDS Session

CONSTANTS s1, s2

\* The kinds of events the instances tell apart: the three the session logic
\* mentions, one ordinary kind, one nobody subscribes to, and one whose
\* message has no fields.
MCKind == {"Connected", "PairStatus", "Disconnected", "Message", "Restored"}
MCSubscribers == [s \in Session |-> {"Connected", "Message", "Restored"}]
\* Without the last two, for instances with two sessions.
MCLoginKind == {"Connected", "PairStatus", "Disconnected"}
MCLoginSubscribers == [s \in Session |-> {"Connected", "Disconnected"}]

\* One uuid for each session, and one uuid for all.
MCDistinct == [s \in Session |-> IF s = s1 THEN "a" ELSE "b"]
MCShared == [s \in Session |-> "a"]
=============================================================================
