--------------------------- MODULE JobStatistics ---------------------------
(***************************************************************************)
(* What jobs reported, as two views of the page show it: #/statistics with *)
(* its gauges and charts, and #/findmusic.  The rows of a job are only     *)
(* appended, in the order of their timestamps, so an answer of the server  *)
(* is the number of rows of each job at the time of its query; the query   *)
(* has no WHERE, whatever job the request names.                           *)
(*                                                                         *)
(* The figures themselves are left out.  What a view that was left has     *)
(* still asked for is answered to a scope that shows nothing any more.     *)
(***************************************************************************)
EXTENDS Naturals, SequencesExt

CONSTANTS
  Order,          \* the jobs, in the order in which Cassandra returns their rows
  None,
  MaxReports,     \* bounds: rows of each job, and in a behaviour:
  MaxVisits,      \* visits of a view,
  MaxClicks,      \* clicks on the pills,
  MaxFailures     \* queries that fail

Jobs == ToSet(Order)

ASSUME OrderAssumption ==
  Order \in Seq(Jobs) /\ Order # << >> /\ IsInjective(Order) /\ None \notin Jobs
ASSUME BoundsAssumption ==
  MaxReports \in Nat /\ MaxVisits \in Nat /\ MaxClicks \in Nat /\ MaxFailures \in Nat

Diagrams == {"Job time(s)", "Mean Squared Error"}
Views    == {"statistics", "findmusic"}
Requests == {"job1", "job2", "recommend", "jobstats"}
Rows     == [Jobs -> 0..MaxReports]

VARIABLES
  rows,           \* table statseries
  recommended,    \* table recommendations has a row of the user
  view,
  request,        \* of the view: "idle", "sent", "read", "failed" or "done"
  answer,         \* the rows that were read for it
  graphs,         \* $scope.graphsData, the two answers; << >>: undefined
  due,            \* the timeout of onLastRepeat is pending
  pill, heading,  \* the active pill, and what is written above the charts
  chart,          \* the diagram that is drawn
  gauge,          \* for each panel, the answer whose averages it shows; 0: none
  songs, jobData, \* what #/findmusic shows: any songs, and the job
  early,          \* observed: a pill was clicked before the gauges were drawn
  reported,       \* observed: there were rows when the view was opened
  visits, clicks, failures

charts == <<pill, heading, chart, gauge, early>>
found  == <<songs, jobData>>
bounds == <<visits, clicks, failures>>
vars   == <<rows, recommended, view, request, answer, graphs, due, charts, found, reported, bounds>>

Nothing == [j \in Jobs |-> 0]

Init == /\ rows = Nothing /\ recommended \in BOOLEAN /\ view = None
        /\ request = [r \in Requests |-> "idle"] /\ answer = [r \in Requests |-> Nothing]
        /\ graphs = << >> /\ due = FALSE
        /\ pill = "Job time(s)" /\ heading = None /\ chart = None
        /\ gauge = [i \in 1..2 |-> 0] /\ early = FALSE
        /\ songs = FALSE /\ jobData = None /\ reported = FALSE
        /\ visits = 0 /\ clicks = 0 /\ failures = 0

(* The job of the first row, rows[0].id.                                   *)
First(s) == LET i == SelectInSeq(Order, LAMBDA j : s[j] > 0)
            IN  IF i = 0 THEN None ELSE Order[i]

-----------------------------------------------------------------------------
(* A job writes a row.                                                     *)
Report(j) ==
  /\ rows[j] < MaxReports /\ rows' = [rows EXCEPT ![j] = @ + 1]
  /\ UNCHANGED <<recommended, view, request, answer, graphs, due, charts, found, reported, bounds>>

(* A controller of its own for each visit sends its two requests.          *)
Visit(v) ==
  LET asked == IF v = "statistics" THEN {"job1", "job2"} ELSE {"recommend", "jobstats"} IN
  /\ visits < MaxVisits /\ visits' = visits + 1
  /\ view' = v
  /\ request' = [r \in Requests |-> IF r \in asked THEN "sent" ELSE "idle"]
  /\ answer' = [r \in Requests |-> Nothing]
  /\ graphs' = << >> /\ due' = FALSE
  /\ pill' = "Job time(s)" /\ heading' = None /\ chart' = None
  /\ gauge' = [i \in 1..2 |-> 0] /\ early' = FALSE
  /\ songs' = FALSE /\ jobData' = None
  /\ reported' = (First(rows) # None)
  /\ UNCHANGED <<rows, recommended, clicks, failures>>

(* The handlers on the server: getTimeseriesStats answers any rows, also   *)
(* none; getJobStats takes get(0), and getUserRecommendations asks the row *)
(* for its text, which throws when there is none.                          *)
Answers(r) == CASE r = "jobstats"  -> First(rows) # None
                [] r = "recommend" -> recommended
                [] OTHER           -> TRUE

Read(r) ==
  /\ request[r] = "sent"
  /\ request' = [request EXCEPT ![r] = IF Answers(r) THEN "read" ELSE "failed"]
  /\ answer' = [answer EXCEPT ![r] = rows]
  /\ UNCHANGED <<rows, recommended, view, graphs, due, charts, found, reported, bounds>>

Fail(r) ==
  /\ request[r] = "sent" /\ failures < MaxFailures /\ failures' = failures + 1
  /\ request' = [request EXCEPT ![r] = "failed"]
  /\ UNCHANGED <<rows, recommended, view, answer, graphs, due, charts, found, reported, visits, clicks>>

(* Mutation of Collected: the second answer is taken in its turn only.     *)
CollectedInTurn(r) == r = "job2" /\ request["job1"] = "done"

(* $q.all: the answer of r is the last of the two.                         *)
Collected(r) ==
  r \in {"job1", "job2"} /\ \A s \in {"job1", "job2"} \ {r} : request[s] = "done"

(* The success handlers.  ng-repeat makes the panels, and its last one     *)
(* sets the timeout.                                                       *)
Arrive(r) ==
  /\ request[r] = "read" /\ request' = [request EXCEPT ![r] = "done"]
  /\ due' = (due \/ Collected(r))
  /\ graphs' = IF Collected(r) THEN <<answer["job1"], answer["job2"]>> ELSE graphs
  /\ songs' = (songs \/ r = "recommend")
  /\ jobData' = IF r = "jobstats" THEN First(answer[r]) ELSE jobData
  /\ UNCHANGED <<rows, recommended, view, answer, charts, reported, bounds>>

(* drawLineChart throws without graphsData, and without a first row of     *)
(* each answer, but has written the heading by then.                       *)
Drawable == Len(graphs) = 2 /\ \A i \in 1..2 : First(graphs[i]) # None

(* The panel that getElementById finds by the id of a job.                 *)
PanelOf(j) == CHOOSE i \in 1..2 : First(graphs[i]) = j /\ (i = 2 => First(graphs[1]) # j)

(* The handler of onRepeatLast: a gauge for each answer, then the chart of *)
(* the times, whatever pill is active.  An answer without rows throws.     *)
DrawGauges ==
  [i \in 1..2 |-> IF Drawable /\ PanelOf(First(graphs[2])) = i THEN 2
                  ELSE IF First(graphs[1]) # None /\ i = 1 THEN 1 ELSE gauge[i]]

Draw ==
  /\ due /\ due' = FALSE
  /\ gauge' = DrawGauges
  /\ IF Drawable THEN heading' = "Job time(s)" /\ chart' = "Job time(s)"
     ELSE UNCHANGED <<heading, chart>>
  /\ UNCHANGED <<rows, recommended, view, request, answer, graphs, pill, early, found, reported, bounds>>

(* Mutation of DrawChart: undefined data is drawn like any other.          *)
DrawChartAlways(d) == heading' = d /\ chart' = d

(* Mutation of DrawChart: the times are drawn under any heading.           *)
DrawChartOfTimes(d) ==
  /\ heading' = d
  /\ chart' = IF Drawable THEN "Job time(s)" ELSE chart

DrawChart(d) ==
  /\ heading' = d
  /\ chart' = IF Drawable THEN d ELSE chart

(* refreshDiagrams                                                         *)
Click(d) ==
  /\ view = "statistics" /\ clicks < MaxClicks /\ clicks' = clicks + 1
  /\ pill' = d
  /\ DrawChart(d)
  /\ early' = (early \/ graphs = << >> \/ due)
  /\ UNCHANGED <<rows, recommended, view, request, answer, graphs, due, gauge, found, reported,
                 visits, failures>>

(* Nothing more is asked for, reported or clicked.                         *)
Quiet == visits = MaxVisits /\ UNCHANGED vars

Next == \/ \E j \in Jobs : Report(j)
        \/ \E v \in Views : Visit(v)
        \/ \E r \in Requests : Read(r) \/ Fail(r) \/ Arrive(r)
        \/ \E d \in Diagrams : Click(d)
        \/ Draw \/ Quiet

(* The server answers, the browser gets the answers and fires its timeout. *)
Spec     == Init /\ [][Next]_vars
FairSpec == /\ Spec /\ WF_vars(Draw)
            /\ \A r \in Requests : WF_vars(Read(r)) /\ WF_vars(Arrive(r))

-----------------------------------------------------------------------------
(* The variables stay in their ranges, and nothing is drawn without data.  *)
TypeOK == /\ rows \in Rows /\ recommended \in BOOLEAN /\ view \in Views \cup {None}
          /\ request \in [Requests -> {"idle", "sent", "read", "failed", "done"}]
          /\ answer \in [Requests -> Rows]
          /\ graphs \in {<< >>} \cup (Rows \X Rows) /\ due \in BOOLEAN
          /\ pill \in Diagrams /\ heading \in Diagrams \cup {None}
          /\ chart \in Diagrams \cup {None} /\ gauge \in [1..2 -> 0..2]
          /\ songs \in BOOLEAN /\ jobData \in Jobs \cup {None}
          /\ early \in BOOLEAN /\ reported \in BOOLEAN
          /\ visits \in 0..MaxVisits /\ clicks \in 0..MaxClicks /\ failures \in 0..MaxFailures
          /\ chart # None \/ due \/ gauge # [i \in 1..2 |-> 0] => graphs # << >>

(* The chart is the one that the heading names, and that of the active     *)
(* pill unless a pill was clicked before the gauges were drawn, which      *)
(* draws the times again; the averages in a panel are those of an answer   *)
(* that begins with the job in its title.                                  *)
HeadingNamesChart == chart # None => heading = chart
PillNamesChart    == chart # None /\ ~early => pill = chart
GaugesMatchTitles == \A i \in 1..2 : gauge[i] # 0 => First(graphs[gauge[i]]) = First(graphs[i])
DrawnAgrees       == HeadingNamesChart /\ PillNamesChart /\ GaugesMatchTitles

(* A view of the statistics that was opened when some job had reported     *)
(* gets its chart unless a request fails or the view is left, whatever     *)
(* order the two answers come in and whatever is clicked meanwhile.        *)
ChartComes ==
  <>[](view = "statistics" /\ reported /\ (\A r \in Requests : request[r] # "failed")
         => chart # None)
=============================================================================
