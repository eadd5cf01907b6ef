------------------------------ MODULE McpPool -------------------------------
(***************************************************************************)
(* mcp::McpPool: the sessions it opens at start-up and the routing table   *)
(* built from their tool lists, and call, which holds the session's mutex  *)
(* over a request, a reopen and one retry, while servers fail and recover. *)
(***************************************************************************)
EXTENDS Naturals, Sequences, FiniteSets, SequencesExt

CONSTANTS
  NumServers,  (* the endpoints of MCP_SERVERS                           *)
  Tools,
  Calls,       (* concurrent callers of McpPool::call                    *)
  None,        (* no tool                                                *)
  MaxFaults    (* bound: how often servers and sessions fail             *)

ASSUME PoolAssumption ==
  /\ NumServers \in Nat \ {0}
  /\ MaxFaults \in Nat
  /\ None \notin Tools

Servers == 1..NumServers

VARIABLES
  provides,   (* the tools each server lists                             *)
  health,     (* of each server                                          *)
  live,       (* the servers that know the session opened to them last   *)
  faults,
  startup,    (* where McpPool::connect stands                           *)
  next,       (* the endpoint or session it comes to next                *)
  connected,  (* its local of that name                                  *)
  listed,     (* server_tools                                            *)
  keep_indices,  (* the places in connected of those that listed         *)
  sessions,   (* the pool's sessions, by server                          *)
  route,      (* tool_to_session_idx                                     *)
  queue,      (* the mutex of each session: its holder and who waits     *)
  call        (* the callers                                             *)

world == <<provides, health, live, faults>>
pool == <<startup, next, connected, listed, keep_indices, sessions, route>>
vars == <<world, pool, queue, call>>

-----------------------------------------------------------------------------
(* Types                                                                   *)

\* hung: connections are accepted and requests taken, and nothing is answered.
Health == {"up", "down", "hung"}
Startup == {"connecting", "listing", "ready", "bailed"}

\* waiting: for the mutex; first and retry: in call_tool; reopening: in
\* open_session; publishing: the outcome is known and tool_called goes out.
Attempting == {"first", "retry"}
Holding == Attempting \cup {"reopening"}
Stages == Holding \cup {"idle", "waiting", "publishing", "returned", "dropped"}

\* The tool counts until the session is released.  excused: something went wrong
\* while the call held the session.
Call == [stage : Stages, tool : Tools \cup {None}, sent : 0..2,
         outcome : {"none", "refused", "ok", "failed"}, excused : BOOLEAN]

TypeOK ==
  /\ provides \in [Servers -> SUBSET Tools]
  /\ health \in [Servers -> Health] /\ live \subseteq Servers
  /\ faults \in 0..MaxFaults
  /\ startup \in Startup /\ next \in 1..(NumServers + 1)
  /\ connected \in Seq(Servers) /\ listed \in Seq(Servers) /\ sessions \in Seq(Servers)
  /\ keep_indices \subseteq 1..Len(connected)
  /\ DOMAIN route \subseteq Tools /\ \A t \in DOMAIN route : route[t] \in 1..Len(sessions)
  /\ queue \in [Servers -> Seq(Calls)]
  /\ call \in [Calls -> Call]

Init ==
  /\ provides \in [Servers -> SUBSET Tools]
  /\ health \in [Servers -> {"up", "down"}] /\ live = {} /\ faults = 0
  /\ startup = "connecting" /\ next = 1
  /\ connected = <<>> /\ listed = <<>> /\ keep_indices = {} /\ sessions = <<>>
  /\ route = [t \in {} |-> 0]
  /\ queue = [i \in Servers |-> <<>>]
  /\ call = [c \in Calls |-> [stage |-> "idle", tool |-> None, sent |-> 0,
                              outcome |-> "none", excused |-> FALSE]]

-----------------------------------------------------------------------------
(* McpPool::connect                                                        *)

\* Faulty variant: open_session without CONNECT_TIMEOUT waits for a hung server.
OpenSessionUnbounded ==
  /\ startup = "connecting" /\ next <= NumServers /\ health[next] # "hung"
  /\ next' = next + 1
  /\ IF health[next] = "up"
     THEN connected' = Append(connected, next) /\ live' = live \cup {next}
     ELSE UNCHANGED <<connected, live>>
  /\ UNCHANGED <<provides, health, faults, startup, listed, keep_indices, sessions, route,
                 queue, call>>

\* open_session fails, or times out, on a server that is not up.
OpenSession ==
  /\ startup = "connecting" /\ next <= NumServers
  /\ next' = next + 1
  /\ IF health[next] = "up"
     THEN connected' = Append(connected, next) /\ live' = live \cup {next}
     ELSE UNCHANGED <<connected, live>>
  /\ UNCHANGED <<provides, health, faults, startup, listed, keep_indices, sessions, route,
                 queue, call>>

AllTried ==
  /\ startup = "connecting" /\ next > NumServers
  /\ startup' = IF connected = <<>> THEN "bailed" ELSE "listing"
  /\ next' = 1
  /\ UNCHANGED <<world, connected, listed, keep_indices, sessions, route, queue, call>>

\* list_tools has no time limit: on a hung server connect waits for it.
ListTools ==
  /\ startup = "listing" /\ next <= Len(connected)
  /\ \/ /\ health[connected[next]] = "up" /\ connected[next] \in live
        /\ listed' = Append(listed, connected[next])
        /\ keep_indices' = keep_indices \cup {next}
     \/ health[connected[next]] # "hung" /\ UNCHANGED <<listed, keep_indices>>
  /\ next' = next + 1
  /\ UNCHANGED <<world, startup, connected, sessions, route, queue, call>>

Collision ==
  \E i, j \in 1..Len(listed) : i < j /\ provides[listed[i]] \cap provides[listed[j]] # {}

\* Faulty variant: the servers without a tool list stay in the pool.
BuildRoutingTableUnfiltered ==
  /\ startup = "listing" /\ next > Len(connected)
  /\ IF listed = <<>> \/ Collision
     THEN startup' = "bailed" /\ UNCHANGED <<sessions, route>>
     ELSE /\ startup' = "ready"
          /\ sessions' = connected
          /\ route' = [t \in UNION {provides[s] : s \in Range(listed)} |->
                         CHOOSE i \in 1..Len(listed) : t \in provides[listed[i]]]
  /\ UNCHANGED <<world, next, connected, listed, keep_indices, queue, call>>

\* Where what stood at place i comes to stand when only keep_indices is kept.
Rank(i) == Cardinality({j \in keep_indices : j <= i})

\* connected.enumerate().filter(keep.contains): they stay in their order.
Kept ==
  [k \in 1..Cardinality(keep_indices) |-> connected[CHOOSE i \in keep_indices : Rank(i) = k]]

\* The servers without a tool list are dropped from connected, and
\* build_routing_table numbers the lists that are left.
BuildRoutingTable ==
  /\ startup = "listing" /\ next > Len(connected)
  /\ IF Kept = <<>> \/ Collision
     THEN startup' = "bailed" /\ UNCHANGED <<sessions, route>>
     ELSE /\ startup' = "ready"
          /\ sessions' = Kept
          /\ route' = [t \in UNION {provides[s] : s \in Range(listed)} |->
                         CHOOSE i \in 1..Len(listed) : t \in provides[listed[i]]]
  /\ UNCHANGED <<world, next, connected, listed, keep_indices, queue, call>>

-----------------------------------------------------------------------------
(* The servers                                                             *)

\* Whoever holds a session of s has an excuse.
Excused(s) ==
  [c \in Calls |->
     IF call[c].stage \in Holding /\ sessions[route[call[c].tool]] = s
     THEN [call[c] EXCEPT !.excused = TRUE] ELSE call[c]]

\* The connection breaks, or the server forgets the session.
BreakSession(s) ==
  /\ s \in live /\ faults < MaxFaults
  /\ live' = live \ {s} /\ faults' = faults + 1
  /\ call' = Excused(s)
  /\ UNCHANGED <<provides, health, pool, queue>>

ServerFails(s, how) ==
  /\ health[s] = "up" /\ faults < MaxFaults
  /\ health' = [health EXCEPT ![s] = how] /\ faults' = faults + 1
  /\ live' = IF how = "down" THEN live \ {s} ELSE live
  /\ call' = Excused(s)
  /\ UNCHANGED <<provides, pool, queue>>

ServerRecovers(s) ==
  /\ health[s] # "up"
  /\ health' = [health EXCEPT ![s] = "up"]
  /\ UNCHANGED <<provides, live, faults, pool, queue, call>>

-----------------------------------------------------------------------------
(* McpPool::call and call_with_reconnect                                   *)

Session(c) == route[call[c].tool]
Server(c) == sessions[Session(c)]
Healthy(c) == health[Server(c)] = "up" /\ Server(c) \in live

\* The guard of the session's mutex, or the place in its line, is dropped.
LeavesLine(c) ==
  \E i \in DOMAIN queue[Session(c)] :
    /\ queue[Session(c)][i] = c
    /\ queue' = [queue EXCEPT ![Session(c)] = RemoveAt(@, i)]

\* validate_args_against_schema fails, or no server provides the tool.
Refused(c) ==
  /\ startup = "ready" /\ call[c].stage = "idle"
  /\ call' = [call EXCEPT ![c] = [@ EXCEPT !.stage = "returned", !.outcome = "refused"]]
  /\ UNCHANGED <<world, pool, queue>>

Invoke(c, t) ==
  /\ startup = "ready" /\ call[c].stage = "idle" /\ t \in DOMAIN route
  /\ call' = [call EXCEPT ![c] = [@ EXCEPT !.stage = "waiting", !.tool = t]]
  /\ queue' = [queue EXCEPT ![route[t]] = Append(@, c)]
  /\ UNCHANGED <<world, pool>>

\* inner.lock(), in the order of arrival, and the first tools/call.
Acquire(c) ==
  /\ call[c].stage = "waiting" /\ Head(queue[Session(c)]) = c
  /\ call' = [call EXCEPT ![c] = [@ EXCEPT !.stage = "first", !.sent = 1]]
  /\ UNCHANGED <<world, pool, queue>>

Outcome(c, outcome, excuse) ==
  /\ call' = [call EXCEPT ![c] = [call[c] EXCEPT
       !.stage = "publishing", !.tool = None, !.outcome = outcome,
       !.excused = call[c].excused \/ excuse]]
  /\ LeavesLine(c)
  /\ UNCHANGED <<world, pool>>

\* The first failed attempt goes on to the reopen, the retry to its outcome.
AttemptFails(c, excuse) ==
  \/ /\ call[c].stage = "first"
     /\ call' = [call EXCEPT ![c] = [call[c] EXCEPT !.stage = "reopening",
                                                     !.excused = call[c].excused \/ excuse]]
     /\ UNCHANGED <<world, pool, queue>>
  \/ call[c].stage = "retry" /\ Outcome(c, "failed", excuse)

\* A result, also one with is_error, is Ok.
Answered(c) ==
  /\ call[c].stage \in Attempting /\ Healthy(c)
  /\ Outcome(c, "ok", FALSE)

\* An error of the protocol that is not the transport's.
ToolErrs(c) ==
  /\ call[c].stage \in Attempting /\ Healthy(c)
  /\ Outcome(c, "failed", TRUE)

\* A dead session answers with an error that is_transport_error recognises,
TransportError(c) ==
  /\ call[c].stage \in Attempting /\ Server(c) \notin live
  /\ AttemptFails(c, FALSE)

\* or with one that it does not.
Misread(c) ==
  /\ call[c].stage = "first" /\ Server(c) \notin live
  /\ Outcome(c, "failed", TRUE)

\* Slow or hung, though it knows the session.
SlowServer(c) == health[Server(c)] # "down" /\ Server(c) \in live

\* Faulty variants: only the retry has a time limit; there is a second retry.
TimedOutOnRetryOnly(c) ==
  /\ call[c].stage = "retry"
  /\ AttemptFails(c, SlowServer(c))

TimedOutRetryAgain(c) ==
  /\ call[c].stage \in Attempting
  /\ call' = [call EXCEPT ![c] = [@ EXCEPT !.stage = "reopening",
                                           !.excused = @ \/ SlowServer(c)]]
  /\ UNCHANGED <<world, pool, queue>>

\* TOOL_CALL_TIMEOUT, on a slow server, a hung one or a half-open session.
TimedOut(c) ==
  /\ call[c].stage \in Attempting
  /\ AttemptFails(c, SlowServer(c))

\* Faulty variant: the new session is not stored in the guard.
ReopenedNotStored(c) ==
  /\ call[c].stage = "reopening" /\ health[Server(c)] = "up"
  /\ call' = [call EXCEPT ![c] = [@ EXCEPT !.stage = "retry", !.sent = @ + 1]]
  /\ UNCHANGED <<world, pool, queue>>

\* *guard = new_svc, and the second tools/call.
Reopened(c) ==
  /\ call[c].stage = "reopening" /\ health[Server(c)] = "up"
  /\ live' = live \cup {Server(c)}
  /\ call' = [call EXCEPT ![c] = [call[c] EXCEPT !.stage = "retry", !.sent = call[c].sent + 1]]
  /\ UNCHANGED <<provides, health, faults, pool, queue>>

ReopenFails(c) ==
  /\ call[c].stage = "reopening" /\ health[Server(c)] # "up"
  /\ Outcome(c, "failed", TRUE)

\* publish_event("tool_called", ...), whose failure is only logged.
PublishToolCalled(c) ==
  /\ call[c].stage = "publishing"
  /\ call' = [call EXCEPT ![c] = [@ EXCEPT !.stage = "returned"]]
  /\ UNCHANGED <<world, pool, queue>>

\* The handler that calls is dropped, by its time limit, a disconnect or an abort:
\* the guard goes with it, or its place in the line.
Drop(c) ==
  /\ call[c].stage \in Holding \cup {"waiting", "publishing"}
  /\ call' = [call EXCEPT ![c] = [@ EXCEPT !.stage = "dropped", !.tool = None]]
  /\ IF call[c].stage = "publishing" THEN UNCHANGED queue ELSE LeavesLine(c)
  /\ UNCHANGED <<world, pool>>

-----------------------------------------------------------------------------
StartupStep == OpenSession \/ AllTried \/ ListTools \/ BuildRoutingTable

CallStep(c) ==
  \/ Acquire(c)
  \/ Answered(c) \/ ToolErrs(c) \/ TransportError(c) \/ Misread(c) \/ TimedOut(c)
  \/ Reopened(c) \/ ReopenFails(c)
  \/ PublishToolCalled(c)

Next ==
  \/ StartupStep
  \/ \E s \in Servers :
       \/ BreakSession(s) \/ ServerRecovers(s)
       \/ \E how \in {"down", "hung"} : ServerFails(s, how)
  \/ \E c \in Calls :
       \/ Refused(c) \/ \E t \in Tools : Invoke(c, t)
       \/ CallStep(c) \/ Drop(c)

Spec == Init /\ [][Next]_vars

\* The callers' tasks, connect and the timers run.  No server ever has to answer, and
\* publish_event, which has no limit, never has to return.
FairSpec ==
  /\ Spec /\ WF_vars(StartupStep)
  /\ \A c \in Calls : WF_vars(call[c].stage # "publishing" /\ CallStep(c))

-----------------------------------------------------------------------------
(* Properties                                                              *)

\* A tool's call is sent to a server that listed the tool, whatever servers were
\* unreachable or failed tools/list at start-up.
RoutedToProvider ==
  \A t \in DOMAIN route : t \in provides[sessions[route[t]]]

\* A dead session is not the caller's affair: a call fails only if something went
\* wrong while it held the session, or its error was not recognised.
NoCallFailsOnStaleSession ==
  \A c \in Calls : call[c].outcome = "failed" => call[c].excused

\* Every call comes back, behind hung servers and however many callers wait for
\* the same session; only the publishing of its tool_called can keep it, and then
\* holds no session.
EveryCallReturns ==
  \A c \in Calls : call[c].stage = "waiting" ~>
    (call[c].stage \in {"returned", "dropped"} \/ [](call[c].stage = "publishing"))

\* The one thing that connect waits for without a limit.
ListingHangs ==
  startup = "listing" /\ next <= Len(connected) /\ health[connected[next]] = "hung"

\* However servers fail meanwhile, the process is not kept from starting, except by
\* a server that takes the session, hangs in tools/list and stays so.
StartupEnds == []<>(startup \in {"ready", "bailed"} \/ ListingHangs)

-----------------------------------------------------------------------------
(* Refinement                                                              *)

Phase(c) ==
  CASE call[c].stage \in {"idle", "waiting"} -> "new"
    [] call[c].stage \in Holding \cup {"publishing"} -> "written"
    [] call[c].stage = "returned" -> "over"
    [] call[c].stage = "dropped" -> "gone"

Interface == INSTANCE ToolCall
  WITH phase <- [c \in Calls |-> Phase(c)],
       wire <- [c \in Calls |-> call[c].sent],
       result <- [c \in Calls |-> IF call[c].stage = "returned" THEN call[c].outcome ELSE "none"]

\* To its callers, the gate among them, the pool is ToolCall: nothing is written
\* for a refused call, one reopen means one more request, and none follows the
\* return.
ImplementsToolCall == Interface!Spec
=============================================================================
