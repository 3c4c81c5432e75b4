---------------------------- MODULE MetricsQueries ----------------------------
(***************************************************************************)
(* What rayctl metrics says of a workload (cmd/metrics.go and              *)
(* metrics_resolver.go, internal/metrics): which workload it is, how often *)
(* its container was restarted, what its cards are worth, how much memory  *)
(* they use, and the kubectl that leads to the metrics.  A command asks    *)
(* for one of these.                                                       *)
(***************************************************************************)
EXTENDS Naturals, FiniteSets

CONSTANTS
  Slots,                   \* workspaces that are asked at the same time (12)
  MaxRestarts, Resets,     \* bounds: of the container, and of its counter
  Baseline, Since, LastScrape,  \* the first scrape that is asked for, the first that
                           \* counts (five minutes later), and the last
  Summands, Stamps,       \* the cards or containers of a pod, and the samples of each
  LastTime, Tolerance      \* of samples, and how near they may be (5 s)

ASSUME MetricsAssumption ==
  /\ Slots \in Nat \ {0} /\ {MaxRestarts, Resets} \subseteq Nat
  /\ LastScrape \in Nat /\ Since \in 0 .. LastScrape /\ Baseline \in 0 .. Since
  /\ {LastTime, Tolerance} \subseteq Nat

VARIABLES
  asking,   \* what the command asks for
  truth,    \* what there is of it
  read,     \* what of it has been read
  step      \* where the command is; at the end, its answer

metricsVars == <<asking, truth, read, step>>

Go(s) == step' = s /\ UNCHANGED <<asking, truth, read>>
-----------------------------------------------------------------------------
(***************************************************************************)
(* The workload: by its series, or, if it has none, by the platform.       *)
(***************************************************************************)
\* One in each region; who asks may name one of them, or one that is not there (3).
Workspaces == 1 .. 2

\* What may have the name in a workspace: a job with pods, a container with its one
\* pod, and a job that has no pods yet.
Kinds == {"ait", "aid", "pending"}

Unasked == [is |-> "open", kinds |-> {}]

ResolveInit ==
  /\ truth \in [owned : [Workspaces -> SUBSET Kinds], measured : SUBSET Workspaces,
                named : 0 .. 3]
  /\ truth.measured # {} => \A w \in Workspaces : truth.owned[w] = {}
  /\ read = [w \in Workspaces |-> Unasked] /\ step = "series"

Named(w) == truth.named \in {0, w}

Told(w, is, kinds) ==
  /\ read' = [read EXCEPT ![w] = [is |-> is, kinds |-> kinds]]
  /\ UNCHANGED <<asking, truth, step>>

ReadSeries ==
  LET measured == {w \in truth.measured : Named(w)}
  IN /\ asking = "workload" /\ step = "series"
     /\ \/ Go("failed")
        \/ Go(CASE Cardinality(measured) = 1 -> "measured"
                [] Cardinality(measured) > 1 -> "ambiguous"
                [] OTHER -> "regions")

\* metricsWorkspaces: a region that fails is left out, unless there is no other.
ReadRegion(w) ==
  /\ asking = "workload" /\ step = "regions" /\ read[w].is = "open"
  /\ \A v \in Workspaces : v < w => read[v].is # "open"
  /\ \/ Told(w, IF Named(w) THEN "listed" ELSE "not asked for", {})
     \/ Told(w, "region failed", {})

RegionsRead ==
  /\ asking = "workload" /\ step = "regions"
  /\ \A w \in Workspaces : read[w].is # "open"
  /\ Go(CASE \E w \in Workspaces : read[w].is = "listed" -> "workspaces"
          [] \E w \in Workspaces : read[w].is = "region failed" -> "failed"
          [] OTHER -> "no such workspace")

Asked == {w \in Workspaces : read[w].is = "asked"}

Resolving == asking = "workload" /\ step \in {"workspaces", "cancelled"}

TakeSlot(w) ==
  /\ Resolving /\ read[w].is = "listed" /\ Cardinality(Asked) < Slots
  /\ Told(w, "asked", {})

\* The context is over while it waits for a slot.
LeaveSlot(w) ==
  /\ asking = "workload" /\ step = "cancelled" /\ read[w].is = "listed"
  /\ Told(w, "partly", {})

\* metricsPodsInWorkspace: a kind that cannot be read does not stop the others.
PodsOfWorkspace(w) ==
  /\ Resolving /\ read[w].is = "asked"
  /\ \E failing \in SUBSET Kinds :
       Told(w, IF failing = {} THEN "whole" ELSE "partly", truth.owned[w] \ failing)

\* mergeMetricsPodCandidates.
PodCandidates == UNION {{w} \X (read[w].kinds \ {"pending"}) : w \in Workspaces}

MergeCandidates ==
  /\ Resolving
  /\ \A w \in Workspaces : read[w].is \notin {"listed", "asked"}
  /\ Go(CASE Cardinality(PodCandidates) = 1 -> "resolved"
          [] Cardinality(PodCandidates) > 1 -> "ambiguous"
          [] \E w \in Workspaces : read[w].is = "partly" -> "failed"
          [] OTHER -> "not found")

CancelResolve == asking = "workload" /\ step = "workspaces" /\ Go("cancelled")

ResolveStep ==
  \/ ReadSeries \/ RegionsRead \/ MergeCandidates
  \/ \E w \in Workspaces : ReadRegion(w) \/ TakeSlot(w) \/ LeaveSlot(w) \/ PodsOfWorkspace(w)
-----------------------------------------------------------------------------
(***************************************************************************)
(* The restarts: a counter that is scraped, sometimes missed, in two views *)
(* of the same series, from shortly before the time asked for.  A new pod  *)
(* starts at 0, and so may an old one that forgets.                        *)
(***************************************************************************)
\* "total" and "life" are the truth: restarts so far, and the counters there were.
RestartsInit ==
  /\ \E views \in {{"workspace", "other"}, {"other", "another"}} :
       truth = [views |-> views, pod |-> 0, count |-> 0, total |-> 0, life |-> 0,
                clock |-> Baseline]
  /\ read = {} /\ step = "scraped"

Scrape ==
  /\ asking = "restarts" /\ step = "scraped" /\ truth.clock <= LastScrape
  /\ \E views \in SUBSET truth.views :
       read' = read \cup {[at |-> truth.clock, pod |-> truth.pod, value |-> truth.count,
                           view |-> v, total |-> truth.total, life |-> truth.life]
                          : v \in views}
  /\ truth' = [truth EXCEPT !.clock = @ + 1]
  /\ UNCHANGED <<asking, step>>

Restarted ==
  /\ asking = "restarts" /\ step = "scraped" /\ truth.total < MaxRestarts
  /\ truth' = [views |-> truth.views, pod |-> truth.pod, count |-> truth.count + 1,
               total |-> truth.total + 1, life |-> truth.life, clock |-> truth.clock]
  /\ UNCHANGED <<asking, read, step>>

ResetCounter ==
  /\ asking = "restarts" /\ step = "scraped" /\ truth.life < Resets
  /\ \E pod \in truth.pod .. truth.pod + 1 :
       truth' = [views |-> truth.views, pod |-> pod, count |-> 0, total |-> truth.total,
                 life |-> truth.life + 1, clock |-> truth.clock]
  /\ UNCHANGED <<asking, read, step>>

\* preferWorkspaceSeries: of each pod the workspace's view, if there is one.
Preferred ==
  LET workspaces == {s.pod : s \in {s \in read : s.view = "workspace"}}
  IN {s \in read : s.pod \in workspaces => s.view = "workspace"}

\* mergeDuplicateRawSeries: one value for each time; here the views agree.
OneView == {[s EXCEPT !.view = "any"] : s \in Preferred}

\* buildRestartResult: the series of a pod, from its last value before the time
\* asked for on; each rise is that many restarts, and a fall is a new start.
InWindow(s) == s.at >= Since

Before(s) == {r \in OneView : r.pod = s.pod /\ r.at < s.at}

Rise(s) ==
  IF Before(s) = {} THEN 0
  ELSE LET r == CHOOSE r \in Before(s) : \A q \in Before(s) : q.at <= r.at
       IN IF s.value > r.value THEN s.value - r.value ELSE 0

CountedRestarts == UNION {{s} \X (1 .. Rise(s)) : s \in {s \in OneView : InWindow(s)}}

EventCount == Cardinality(CountedRestarts)

Report == asking = "restarts" /\ step = "scraped" /\ truth.clock > LastScrape /\ Go("reported")

RestartsStep == Scrape \/ Restarted \/ ResetCounter \/ Report
-----------------------------------------------------------------------------
(***************************************************************************)
(* The health of a card of the workload; another one is on the same host.  *)
(***************************************************************************)
Cards == {"own", "neighbour"}
Dimensions == {"ecc", "error_code"}

\* The exporter may tell pods, or only nodes; it, and the series of the card, may
\* tell which physical card it is, or only an index; and errors that are corrected
\* only.
HealthInit ==
  /\ truth \in [bad : [Dimensions -> SUBSET Cards], uuid : BOOLEAN,
                pods : BOOLEAN, uuids : BOOLEAN, severe : BOOLEAN]
  /\ read = [d \in Dimensions |-> "open"] /\ step = "cards"

ReadCards ==
  /\ asking = "health" /\ step = "cards"
  /\ \/ Go("failed")
     \/ Go("no cards")
     \/ Go("dimensions")

\* sameGPU: "Node-level totals/health must only attach to physical cards belonging
\* to this workload".
SameGPU(card) == truth.uuid /\ truth.uuids /\ card = "own"

Attached(series) == {card \in series : SameGPU(card)}

ReadTo(d, is) == read' = [read EXCEPT ![d] = is] /\ UNCHANGED <<asking, truth, step>>

DimensionsTurn(d) ==
  /\ asking = "health" /\ step = "dimensions"
  /\ d = "ecc" \/ read["ecc"] \notin {"open", "by node"}

\* queryGPU: by the pods, and if that gives nothing by the nodes.
ReadByPod(d) ==
  /\ DimensionsTurn(d) /\ read[d] = "open"
  /\ \/ ReadTo(d, "query_failed")
     \/ ReadTo(d, IF Attached(IF truth.pods THEN {"own"} ELSE {}) # {}
                  THEN "available" ELSE "by node")

ReadByNode(d) ==
  /\ DimensionsTurn(d) /\ read[d] = "by node"
  /\ \/ ReadTo(d, "query_failed")
     \/ ReadTo(d, IF Attached(Cards) # {} THEN "available" ELSE "no_data")

Errors(d) == read[d] = "available" /\ (d = "ecc" => truth.severe)

\* gpuHealth.
Classify ==
  /\ asking = "health" /\ step = "dimensions"
  /\ \A d \in Dimensions : read[d] \notin {"open", "by node"}
  /\ Go(IF \E d \in Dimensions : Errors(d) /\ Attached(truth.bad[d]) # {}
        THEN "anomaly"
        ELSE IF Errors("ecc") THEN "healthy" ELSE "unknown")

HealthStep ==
  \/ ReadCards \/ Classify
  \/ \E d \in Dimensions : ReadByPod(d) \/ ReadByNode(d)
-----------------------------------------------------------------------------
(***************************************************************************)
(* The memory: the samples of the cards of a pod, by several exporters     *)
(* whose clocks differ, or of its containers (for mem).                    *)
(***************************************************************************)
Times == 0 .. LastTime

\* The samples are raw, or those of a fixed step.
MemoryInit ==
  /\ truth \in [stamps : [Summands -> [Stamps -> Times]], command : {"gpu", "mem"},
                stepped : BOOLEAN]
  /\ read = {} /\ step = "samples"

\* How near to each other two times may be: "merging adjacent timestamps here would
\* silently discard a user's short --step", but mem always merges them.
Within == IF truth.command = "gpu" /\ truth.stepped THEN 0 ELSE Tolerance

\* coalesceNearbyPoints: a time stands for those that follow it closely.
Anchors(times, within) ==
  CHOOSE A \in SUBSET times :
    \A t \in times : t \in A <=> ~\E u \in A : u < t /\ t - u <= within

Near(a, t, within) == t >= a /\ t - a <= within

\* mergeRawSeries: a time is once in a series.  For gpu each card is thinned by
\* itself, "BEFORE summing memory"; for mem a container is not.
StampsOf(c) == {truth.stamps[c][i] : i \in Stamps}

PointsOf(c) ==
  IF truth.command = "gpu" THEN Anchors(StampsOf(c), Within) ELSE StampsOf(c)

AllPoints == UNION {{c} \X PointsOf(c) : c \in Summands}

\* aggregateSeries, by pod: the points that one sum is of.
SumAt(a) == [at |-> a, of |-> {p \in AllPoints : Near(a, p[2], Within)}]

Sums == {SumAt(a) : a \in Anchors({p[2] : p \in AllPoints}, Within)}

Aggregate ==
  /\ asking = "memory" /\ step = "samples"
  /\ read' = Sums /\ step' = "summed"
  /\ UNCHANGED <<asking, truth>>
-----------------------------------------------------------------------------
(***************************************************************************)
(* startPortForward, and Close: kubectl runs beside the command.           *)
(***************************************************************************)
ForwardInit ==
  /\ truth = [kubectl |-> "runs", cancelled |-> FALSE]
  /\ read = FALSE /\ step = "waiting"

\* kubectl says that it forwards, stops by itself, or is killed when the context is
\* over: by the deadline of the command, Ctrl-C, or cancel.
KubectlRuns ==
  /\ asking = "forward" /\ truth.kubectl = "runs"
  /\ \/ read' = TRUE /\ UNCHANGED truth
     \/ truth' = [truth EXCEPT !.kubectl = "gone"] /\ UNCHANGED read
  /\ UNCHANGED <<asking, step>>

InterruptForward ==
  /\ asking = "forward" /\ ~truth.cancelled
  /\ truth' = [truth EXCEPT !.cancelled = TRUE]
  /\ UNCHANGED <<asking, read, step>>

CancelForward(s) ==
  /\ truth' = [truth EXCEPT !.cancelled = TRUE] /\ step' = s
  /\ UNCHANGED <<asking, read>>

\* Whichever comes first: kubectl's end, the eight seconds, or its word.
Await ==
  /\ asking = "forward" /\ step = "waiting"
  /\ \/ truth.kubectl = "gone" /\ CancelForward("failed")
     \/ CancelForward("failed")
     \/ read /\ Go("forwarded")

CloseForward == asking = "forward" /\ step = "forwarded" /\ CancelForward("closing")

\* It waits for the end a second, and then makes one.
Closed ==
  /\ asking = "forward" /\ step = "closing"
  /\ truth' = [truth EXCEPT !.kubectl = "gone"] /\ step' = "closed"
  /\ UNCHANGED <<asking, read>>

ForwardStep == KubectlRuns \/ InterruptForward \/ Await \/ CloseForward \/ Closed
-----------------------------------------------------------------------------
MetricsInit ==
  \/ asking = "workload" /\ ResolveInit
  \/ asking = "restarts" /\ RestartsInit
  \/ asking = "health" /\ HealthInit
  \/ asking = "memory" /\ MemoryInit
  \/ asking = "forward" /\ ForwardInit

MetricsNext ==
  \/ ResolveStep \/ CancelResolve \/ RestartsStep \/ HealthStep \/ Aggregate
  \/ ForwardStep
-----------------------------------------------------------------------------
\* A workload is not found only if every workspace of a region that could be read
\* has been asked in vain, whatever else fails, waits or is cancelled; and one that
\* is found is the only one of those that answered completely.
WorkloadIsTrue ==
  asking = "workload" =>
    /\ step = "not found" =>
         \A w \in Workspaces :
           read[w].is \in {"region failed", "not asked for"} \/ truth.owned[w] \subseteq {"pending"}
    /\ step = "no such workspace" => truth.named \notin {0} \cup Workspaces
    /\ step = "resolved" =>
         \E w \in Workspaces, k \in {"ait", "aid"} :
           /\ k \in truth.owned[w] /\ Named(w)
           /\ \A v \in Workspaces : read[v].is = "whole" =>
                truth.owned[v] \ {"pending"} \subseteq (IF v = w THEN {k} ELSE {})

\* No restart is counted that did not happen since the last sample before the time
\* asked for (or the first one there is), nor twice because two views show it; and
\* while the counter is not begun anew, none is lost.
RestartsHappened ==
  asking = "restarts" /\ step = "reported" /\ OneView # {} =>
    LET earlier == {s \in OneView : ~InWindow(s)}
        first ==
          IF earlier # {} THEN CHOOSE s \in earlier : \A r \in earlier : s.at >= r.at
          ELSE CHOOSE s \in OneView : \A r \in OneView : s.at <= r.at
        last == CHOOSE s \in OneView : \A r \in OneView : s.at >= r.at
    IN /\ EventCount <= last.total - first.total
       /\ first.life = last.life => EventCount = last.total - first.total

\* A card is called broken only for an error of its own that was not corrected, and healthy only if its
\* error counter has been read; an error that was read is not passed over.
HealthIsItsOwn ==
  asking = "health" =>
    /\ step = "anomaly" =>
         \E d \in Dimensions : "own" \in truth.bad[d] /\ (d = "ecc" => truth.severe)
    /\ step = "healthy" =>
         /\ read["ecc"] = "available" /\ truth.uuid /\ truth.uuids
         /\ \A d \in Dimensions : read[d] = "available" => "own" \notin truth.bad[d]

\* No card is counted twice in the sum of its pod, however near its samples are; and
\* a container is only if two of its samples are too near each other.  No sample is
\* dropped by the sum, or counted in two; if all are sampled at nearly the same time,
\* none is missing.  Of cards that are asked for by a step, no step is left out.
CountedOnceEach ==
  asking = "memory" /\ step = "summed" =>
    /\ \A sum \in read : \A p, q \in sum.of :
         p[1] = q[1] /\ p[2] < q[2] => truth.command = "mem" /\ q[2] - p[2] <= Tolerance
    /\ \A p \in AllPoints :
         \E sum \in read : p \in sum.of /\ \A other \in read : p \in other.of => other = sum
    /\ LET times == {p[2] : p \in AllPoints}
       IN (\A t \in times, u \in times : t <= u => u - t <= Within) =>
            \A sum \in read : {p[1] : p \in sum.of} = Summands
    /\ truth.command = "gpu" /\ truth.stepped =>
         \A c \in Summands : \A t \in StampsOf(c) :
           \E sum \in read : sum.at = t /\ <<c, t>> \in sum.of

\* A client is made only of a kubectl that has said it forwards, and closing it, or
\* failing to make it, stops kubectl.
NoForwardIsLeft ==
  asking = "forward" =>
    /\ step \in {"forwarded", "closing", "closed"} => read
    /\ step = "closed" => truth.kubectl = "gone"
    /\ step \in {"failed", "closing"} => truth.cancelled

MetricsAreTrue == WorkloadIsTrue /\ HealthIsItsOwn /\ NoForwardIsLeft

\* Of the samples, none is lost, and none is taken twice: see RestartsHappened and
\* CountedOnceEach.
SamplesAreWhole == RestartsHappened /\ CountedOnceEach
=============================================================================
