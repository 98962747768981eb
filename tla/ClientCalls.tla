----------------------------- MODULE ClientCalls -----------------------------
(***************************************************************************)
(* What the exported calls promise to the users of the two clients.  A     *)
(* method is the name of its client and its own name.  Which methods keep  *)
(* the promises by the form of their paths is stated here for any tables,  *)
(* and which do not is an assumption about those of neonize.               *)
(***************************************************************************)
EXTENDS Calls

Client == {"sync", "asyncio"}
NameOf(k) == method[k][2]

\* The methods whose answer stays in C memory.
ASSUME NotClean ==
  {m[2] : m \in Method \ Clean} =
    {"set_privacy_setting", "upload_newsletter",
     "create_scheduler_template", "list_scheduler_templates",
     "create_scheduler_schedule", "list_scheduler_schedules"}

IsCall(s) == s.reads \in {"bytes", "text", "value"}

\* A step whose answer may report an error looks at it and raises, or its
\* exceptions are caught, or it raises anyway.
ReportingStep ==
  {s \in CallStep :
     IsCall(s) /\ ~s.caught /\ Readable(s) /\ GoAnswer[s.export].fails
       => s.onError = "raise"}
Reporting == {m \in Method : Program[m] \subseteq Seq(ReportingStep)}

\* Three methods that return the error (client.py, set_group_name, leave_group,
\* send_chat_presence), and one that parses its answer as another message.
NoReport == Client \X {"set_group_name", "leave_group", "send_chat_presence"}
              \union {<<"sync", "get_linked_group_participants">>}

ASSUME NotReporting == Method \ Reporting = NoReport

Changes(s) == IsCall(s) /\ GoAnswer[s.export].changes

MayRaise(s) ==
  /\ ~s.caught
  /\ \/ ~IsCall(s) \/ ~Readable(s)
     \/ GoAnswer[s.export].fails /\ s.onError \in {"raise", "garbled"}

\* Nothing is changed and nothing raises from step i of a path on.
QuietFrom(p, i) ==
  \A j \in i..Len(p) : ~Changes(p[j]) /\ ~MayRaise(p[j])

\* The step that changes something is the last that can raise, and does not
\* unless an error is reported.
Atomic(p) ==
  \A i \in 1..Len(p) :
    Changes(p[i]) => (Readable(p[i]) \/ p[i].caught) /\ QuietFrom(p, i + 1)

Repeatable == {m \in Method : \A p \in Program[m] : Atomic(p)}

\* They raise when they have succeeded.
Unreadable == {"put_contact_name", "link_group", "set_privacy_setting"}

ASSUME NotRepeatable == Method \ Repeatable = Client \X Unreadable
-----------------------------------------------------------------------------
\* A method that returns has met no error, unless it is one that is documented
\* to return the error, or the one that parses its answer as another message.
\* Lookups of mentioned groups do not count (client.py:431-438).
ErrorsReported ==
  \A k \in Caller : at[k] = "returned" /\ refused[k] => method[k] \in NoReport

\* A caller that repeats a method because it raised has not had it succeed
\* before: each time the method has done something again, Go had reported an
\* error to an attempt before, of which nobody knows what it has done.  Only
\* the methods that cannot read their answer raise when they have succeeded.
NotTwice ==
  \A k \in Caller : NameOf(k) \notin Unreadable => effects[k] <= failures[k] + 1

\* link_group and set_privacy_setting: raises the class's error if there is an
\* error while linking, or setting (client.py:1693, 1997).
RaisedMeansRefused ==
  \A k \in Caller :
    at[k] = "raised" /\ ~refused[k] => effects[k] <= failures[k]
==============================================================================
