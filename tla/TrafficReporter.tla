-------------------------- MODULE TrafficReporter --------------------------
(***************************************************************************)
(* The traffic reporter of the Agent (reporter.rs): the cores of the node  *)
(* count bytes since they started; the reporter samples the counters in    *)
(* every period, keeps the last sample in the Agent's memory, and sends    *)
(* the differences to the Hub, where ClientAccess charges them.            *)
(*                                                                         *)
(* sing-box has a total and one counter for every open connection, mihomo  *)
(* only a total, which its stream gives at once.  Up and down are counted  *)
(* alike and are one number here.  The legacy HTTP API, asked when gRPC    *)
(* fails, adds nothing: no core that the Hub configures answers it.        *)
(***************************************************************************)
EXTENDS FiniteSets, Integers

CONSTANTS Flow,        \* places for open connections of sing-box
          Payer,       \* users that connections are attributed to
          NoPayer,     \* the user of the others ("")
          MaxCarried,    \* bound: bytes carried
          MaxReports,  \* bound: reports in the channel to the Hub (128)
          MaxFailures  \* bound: APIs that fail or do not answer, streams, cores, Agents that end

Counted == {"sing-box", "mihomo"}

ASSUME ReporterAssumption ==
  IsFiniteSet(Flow) /\ NoPayer \notin Payer /\ (Payer \cup {NoPayer}) \intersect Counted = {}

Unsampled == -1

VARIABLES flow,       \* place -> whether a connection has it; its user; its bytes
          total,      \* core -> its cumulative counter
          prevTotal,  \* core -> its last sample (prev_total)
          prevFlows,  \* connection -> its counter in the last snapshot (prev_conns)
          stage,      \* of collect_traffic_report
          statusTotal, \* the total that the first Status message gave
          report,     \* the report being collected or waiting for room
          outgoing,   \* number of reports in the channel, and their sums
          streaming,  \* the Agent has a stream
          silent,     \* sing-box neither answers its gRPC calls nor ends them
          received,   \* what the Hub has received
          failures,   \* counter of MaxFailures
          carried,    \* history: what was carried, by user and by core
          spoiled,    \* history: users and cores with bytes that nobody counts
          outlived    \* history: a core has outlived the Agent that sampled it

reporterVars == <<flow, total, prevTotal, prevFlows, stage, statusTotal, report, outgoing,
                  streaming, silent, received, failures, carried, spoiled, outlived>>

NoLink == [open |-> FALSE, user |-> NoPayer, bytes |-> 0]
Account == Payer \cup Counted
Nothing == [a \in Account |-> 0]
Plus(f, g) == [a \in Account |-> f[a] + g[a]]
NotBelowZero(n) == IF n < 0 THEN 0 ELSE n

\* The sum of a function's values: the number of its units.
Units(f) == UNION {{c} \X (1 .. f[c]) : c \in DOMAIN f}
Sum(f) == Cardinality(Units(f))

ReporterInit ==
  /\ flow = [c \in Flow |-> NoLink]
  /\ total = [k \in Counted |-> 0]
  /\ prevTotal = [k \in Counted |-> Unsampled]
  /\ prevFlows = [c \in Flow |-> Unsampled]
  /\ stage = "idle" /\ statusTotal = 0 /\ report = Nothing
  /\ outgoing = [n |-> 0, sum |-> Nothing]
  /\ streaming = TRUE /\ silent = FALSE /\ received = Nothing /\ failures = 0
  /\ carried = Nothing /\ spoiled = {} /\ outlived = FALSE

Fails == failures < MaxFailures /\ failures' = failures + 1

(***************************************************************************)
(* The cores.                                                              *)
(***************************************************************************)
Room == carried["sing-box"] + carried["mihomo"] < MaxCarried

Connect(c, u) ==
  /\ ~flow[c].open /\ Room
  /\ flow' = [flow EXCEPT ![c] = [open |-> TRUE, user |-> u, bytes |-> 0]]
  /\ UNCHANGED <<total, prevTotal, prevFlows, stage, statusTotal, report, outgoing,
                 streaming, received, failures, carried, spoiled, outlived, silent>>

Carry(c) ==
  /\ flow[c].open /\ Room
  /\ flow' = [flow EXCEPT ![c].bytes = @ + 1]
  /\ total' = [total EXCEPT !["sing-box"] = @ + 1]
  /\ carried' = [a \in Account |->
       IF a \in {"sing-box", flow[c].user} THEN carried[a] + 1 ELSE carried[a]]
  /\ UNCHANGED <<prevTotal, prevFlows, stage, statusTotal, report, outgoing, streaming,
                 received, failures, spoiled, outlived, silent>>

CarryMihomo ==
  /\ Room
  /\ total' = [total EXCEPT !["mihomo"] = @ + 1]
  /\ carried' = [carried EXCEPT !["mihomo"] = @ + 1]
  /\ UNCHANGED <<flow, prevTotal, prevFlows, stage, statusTotal, report, outgoing,
                 streaming, received, failures, spoiled, outlived, silent>>

\* Users of connections with bytes since the last snapshot.
Unseen(C) == {flow[c].user : c \in {d \in C : flow[d].open /\
                flow[d].bytes > NotBelowZero(prevFlows[d])}} \ {NoPayer}

\* The id of a connection is never used again, so its entry in the last snapshot
\* is without effect: the place is free for another.
Disconnect(c) ==
  /\ flow[c].open
  /\ spoiled' = spoiled \cup Unseen({c})
  /\ flow' = [flow EXCEPT ![c] = NoLink]
  /\ prevFlows' = [prevFlows EXCEPT ![c] = Unsampled]
  /\ UNCHANGED <<total, prevTotal, stage, statusTotal, report, outgoing,
                 streaming, received, failures, carried, outlived, silent>>

\* A core ends and starts again: its counters are gone, and so are, for
\* sing-box, its connections.
CoreRestarts(k) ==
  /\ Fails
  /\ total' = [total EXCEPT ![k] = 0]
  /\ IF k = "mihomo" THEN UNCHANGED <<flow, prevFlows>>
     ELSE /\ flow' = [c \in Flow |-> NoLink]
          /\ prevFlows' = [c \in Flow |-> Unsampled]
  /\ silent' = (silent /\ k = "mihomo")
  /\ spoiled' = spoiled \cup {k} \cup (IF k = "mihomo" THEN {} ELSE Unseen(Flow))
  /\ UNCHANGED <<prevTotal, stage, statusTotal, report, outgoing, streaming,
                 received, carried, outlived>>

\* The API of sing-box stops answering without an end of the connection, or
\* answers again.
FallsSilent ==
  /\ ~silent /\ Fails /\ silent' = TRUE
  /\ UNCHANGED <<flow, total, prevTotal, prevFlows, stage, statusTotal, report, outgoing,
                 streaming, received, carried, spoiled, outlived>>

AnswersAgain ==
  /\ silent /\ silent' = FALSE
  /\ UNCHANGED <<flow, total, prevTotal, prevFlows, stage, statusTotal, report, outgoing,
                 streaming, received, failures, carried, spoiled, outlived>>

(***************************************************************************)
(* collect_traffic_report and spawn_traffic_reporter                       *)
(***************************************************************************)
TotalDelta(prev, cur) == IF prev = Unsampled THEN cur ELSE NotBelowZero(cur - prev)

\* The ticker fires: the first Status message.  The gRPC calls have no timeout: a
\* sing-box that does not answer holds the reporter here, or before the next.
ReadStatus ==
  /\ streaming /\ ~silent /\ stage = "idle"
  /\ stage' = "status" /\ statusTotal' = total["sing-box"]
  /\ UNCHANGED <<flow, total, prevTotal, prevFlows, report, outgoing, streaming,
                 received, failures, carried, spoiled, outlived, silent>>

\* connection_snapshot: open connections that have a user.
Shown(c) == flow[c].open /\ flow[c].user # NoPayer
Shows(c, u) == Shown(c) /\ flow[c].user = u
LinkDelta(c) == TotalDelta(prevFlows[c], flow[c].bytes)
UserDelta(u) == Sum([c \in Flow |-> IF Shows(c, u) THEN LinkDelta(c) ELSE 0])

\* The first ConnectionEvents message, and then the differences of both.
Snapshot ==
  /\ ~silent /\ stage = "status" /\ stage' = "mihomo"
  /\ prevTotal' = [prevTotal EXCEPT !["sing-box"] = statusTotal]
  /\ prevFlows' = [c \in Flow |-> IF Shown(c) THEN flow[c].bytes ELSE Unsampled]
  /\ report' = [a \in Account |->
       IF a = "sing-box" THEN TotalDelta(prevTotal[a], statusTotal)
       ELSE IF a = "mihomo" THEN 0
       ELSE UserDelta(a)]
  /\ statusTotal' = 0
  /\ UNCHANGED <<flow, total, outgoing, streaming, received, failures, carried,
                 spoiled, outlived, silent>>

\* Variant: an API that does not answer ends the reporter.
SingboxStops ==
  /\ streaming /\ ~silent /\ stage \in {"idle", "status"} /\ Fails
  /\ stage' = "stopped" /\ statusTotal' = 0
  /\ UNCHANGED <<flow, total, prevTotal, prevFlows, report, outgoing, streaming,
                 received, carried, spoiled, outlived, silent>>

\* Variant: the total is remembered before the connections are asked for.
SingboxFailsEarly ==
  /\ streaming /\ ~silent /\ stage \in {"idle", "status"} /\ Fails
  /\ stage' = "mihomo" /\ statusTotal' = 0
  /\ prevTotal' = IF stage = "idle" THEN prevTotal
                  ELSE [prevTotal EXCEPT !["sing-box"] = statusTotal]
  /\ UNCHANGED <<flow, total, prevFlows, report, outgoing, streaming, received,
                 carried, spoiled, outlived, silent>>

\* One of the two calls fails: no sample, and the last one stays.
SingboxFails ==
  /\ streaming /\ ~silent /\ stage \in {"idle", "status"} /\ Fails
  /\ stage' = "mihomo" /\ statusTotal' = 0
  /\ UNCHANGED <<flow, total, prevTotal, prevFlows, report, outgoing, streaming,
                 received, carried, spoiled, outlived, silent>>

SampleMihomo ==
  /\ stage = "mihomo" /\ stage' = "send"
  /\ report' = [report EXCEPT !["mihomo"] =
                  TotalDelta(prevTotal["mihomo"], total["mihomo"])]
  /\ prevTotal' = [prevTotal EXCEPT !["mihomo"] = total["mihomo"]]
  /\ UNCHANGED <<flow, total, prevFlows, statusTotal, outgoing, streaming, received,
                 failures, carried, spoiled, outlived, silent>>

\* (This API is asked with a timeout of five seconds, so a failure is also no
\* answer.)
MihomoFails ==
  /\ stage = "mihomo" /\ Fails /\ stage' = "send"
  /\ UNCHANGED <<flow, total, prevTotal, prevFlows, statusTotal, report, outgoing,
                 streaming, received, carried, spoiled, outlived, silent>>

\* send waits for room in the channel of the stream.
SendReport ==
  /\ stage = "send" /\ outgoing.n < MaxReports
  /\ outgoing' = [n |-> outgoing.n + 1, sum |-> Plus(outgoing.sum, report)]
  /\ stage' = "idle" /\ report' = Nothing
  /\ UNCHANGED <<flow, total, prevTotal, prevFlows, statusTotal, streaming, received,
                 failures, carried, spoiled, outlived, silent>>

\* The Hub reads the stream (handle_traffic); the order of the reports does not
\* matter to their sum, so it takes all of them.
ReceiveReports ==
  /\ streaming /\ outgoing.n > 0
  /\ received' = Plus(received, outgoing.sum)
  /\ outgoing' = [n |-> 0, sum |-> Nothing]
  /\ UNCHANGED <<flow, total, prevTotal, prevFlows, stage, statusTotal, report,
                 streaming, failures, carried, spoiled, outlived, silent>>

(***************************************************************************)
(* The stream and the Agent.                                               *)
(***************************************************************************)
Dropped == LET lost == Plus(outgoing.sum, report) IN {a \in Account : lost[a] > 0}

\* The stream breaks: what is in its channel is gone, and run aborts the reporter
\* wherever it is.
StreamFails ==
  /\ streaming /\ Fails
  /\ streaming' = FALSE /\ stage' = "idle" /\ statusTotal' = 0
  /\ spoiled' = spoiled \cup Dropped
  /\ report' = Nothing /\ outgoing' = [n |-> 0, sum |-> Nothing]
  /\ UNCHANGED <<flow, total, prevTotal, prevFlows, received, carried, outlived, silent>>

\* The Agent connects again and starts a reporter; the last sample is where it was.
Reconnect ==
  /\ ~streaming /\ streaming' = TRUE
  /\ UNCHANGED <<flow, total, prevTotal, prevFlows, stage, statusTotal, report, outgoing,
                 received, failures, carried, spoiled, outlived, silent>>

\* The Agent ends, its last sample with it; the cores end too (they start from
\* nothing) or, where the system cannot bind them to it, live on.
AgentRestarts(stay) ==
  /\ Fails
  /\ prevTotal' = [k \in Counted |-> Unsampled]
  /\ prevFlows' = [c \in Flow |-> Unsampled]
  /\ streaming' = FALSE /\ stage' = "idle" /\ statusTotal' = 0
  /\ report' = Nothing /\ outgoing' = [n |-> 0, sum |-> Nothing]
  /\ IF stay
     THEN /\ outlived' = TRUE /\ spoiled' = spoiled \cup Dropped
          /\ UNCHANGED <<flow, total, silent>>
     ELSE /\ total' = [k \in Counted |-> 0]
          /\ flow' = [c \in Flow |-> NoLink]
          /\ spoiled' = spoiled \cup Dropped \cup Unseen(Flow) \cup Counted
          /\ silent' = FALSE /\ UNCHANGED outlived
  /\ UNCHANGED <<received, carried>>

Collect == ReadStatus \/ Snapshot \/ SingboxFails \/ SampleMihomo \/ MihomoFails
           \/ SendReport

ReporterNext ==
  \/ \E c \in Flow : Carry(c) \/ Disconnect(c) \/ \E u \in Payer \cup {NoPayer} : Connect(c, u)
  \/ CarryMihomo \/ (\E k \in Counted : CoreRestarts(k)) \/ FallsSilent \/ AnswersAgain
  \/ Collect \/ ReceiveReports \/ StreamFails \/ Reconnect
  \/ \E stay \in BOOLEAN : AgentRestarts(stay)

\* The interval ticks, a call ends when sing-box answers or its connection breaks
\* and after five seconds for mihomo, the Hub reads its streams, and the Agent
\* reconnects for as long as it runs.  Nothing makes a silent sing-box answer.
ReporterFairness == WF_reporterVars(Collect) /\ WF_reporterVars(ReceiveReports) /\ WF_reporterVars(Reconnect)

ReporterSpec == ReporterInit /\ [][ReporterNext]_reporterVars /\ ReporterFairness

(***************************************************************************)
(* What the Hub is told of what was carried.                               *)
(***************************************************************************)
OnTheWay(a) == received[a] + outgoing.sum[a] + report[a]

\* What no sample has seen yet of a user's open connections, or of a core.
NotYet(a) == IF a \in Counted
             THEN total[a] - NotBelowZero(prevTotal[a])
             ELSE Sum([c \in Flow |->
                    IF Shows(c, a) THEN flow[c].bytes - NotBelowZero(prevFlows[c]) ELSE 0])

\* No byte is reported twice: with streams that break, cores that start again and
\* APIs that fail, nobody is charged for more than was carried; only a core that
\* lives longer than its Agent is counted from its beginning again.  And no byte is
\* forgotten, except where reporter.rs says so or the stream breaks: of a connection
\* that closed between two samples, of a core that started again, or in a report
\* that was not received.
ReportsAreExact ==
  outlived \/ \A a \in Account :
    /\ OnTheWay(a) <= carried[a]
    /\ a \notin spoiled => OnTheWay(a) + NotYet(a) = carried[a]

\* And what was carried reaches the Hub, as long as the connections stay open,
\* again and again: except while sing-box does not answer, when the reporter waits
\* for it and nothing is reported, of mihomo neither.
EverythingIsReported ==
  \A a \in Account : []<>(silent \/ outlived \/ a \in spoiled \/ received[a] = carried[a])
=============================================================================
