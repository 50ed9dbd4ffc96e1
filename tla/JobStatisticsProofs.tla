------------------------ MODULE JobStatisticsProofs ------------------------
(***************************************************************************)
(* What #/statistics draws agrees with its heading, its pills and its      *)
(* titles, proved of JobStatistics for any jobs and any number of reports. *)
(***************************************************************************)
EXTENDS JobStatistics, WellFoundedInduction, TLAPS

Blank == [i \in 1..2 |-> 0]

(* graphsData is set once, by the second of two answers; a chart needs a   *)
(* first row in each of them; a pill that nobody clicked too early is that *)
(* of the times until they are drawn.                                      *)
DrawnInv ==
  /\ request \in [Requests -> {"idle", "sent", "read", "failed", "done"}]
  /\ gauge \in [1..2 -> 0..2]
  /\ due \in BOOLEAN /\ early \in BOOLEAN
  /\ graphs # << >> => request["job1"] = "done" /\ request["job2"] = "done"
  /\ graphs = << >> => gauge = Blank /\ chart = None /\ ~due
  /\ chart # None => Drawable
  /\ (graphs = << >> \/ due) /\ ~early => pill = "Job time(s)"
  /\ DrawnAgrees

LEMMA BlankIsBlank == Blank \in [1..2 -> 0..2] /\ \A i \in 1..2 : Blank[i] = 0
BY DEF Blank

(* The second panel is found by the id of its job unless the first has it. *)
LEMMA PanelIsFound ==
  ASSUME NEW j, \E i \in 1..2 : First(graphs[i]) = j
  PROVE  /\ PanelOf(j) \in 1..2
         /\ First(graphs[PanelOf(j)]) = j
<1> DEFINE P(i) == First(graphs[i]) = j /\ (i = 2 => First(graphs[1]) # j)
<1>1. \E i \in 1..2 : P(i)
  <2>1. PICK i \in 1..2 : First(graphs[i]) = j
    OBVIOUS
  <2>2. CASE First(graphs[1]) = j
    <3>1. P(1)
      BY <2>2
    <3> QED
      BY <3>1
  <2>3. CASE First(graphs[1]) # j
    <3>1. i = 2
      BY <2>1, <2>3
    <3>2. P(2)
      BY <2>1, <2>3, <3>1
    <3> QED
      BY <3>2
  <2> QED
    BY <2>2, <2>3
<1>2. PanelOf(j) = CHOOSE i \in 1..2 : P(i)
  BY DEF PanelOf
<1> HIDE DEF P
<1>3. PanelOf(j) \in 1..2 /\ P(PanelOf(j))
  BY <1>1, <1>2
<1> QED
  BY <1>3 DEF P

LEMMA InitialDrawing == Init => DrawnInv
<1> SUFFICES ASSUME Init PROVE DrawnInv
  OBVIOUS
<1>1. /\ request = [r \in Requests |-> "idle"] /\ gauge = Blank /\ chart = None
      /\ graphs = << >> /\ due = FALSE /\ early = FALSE /\ pill = "Job time(s)"
  BY DEF Init, charts, Blank
<1>2. gauge \in [1..2 -> 0..2] /\ \A i \in 1..2 : gauge[i] = 0
  BY <1>1, BlankIsBlank
<1>3. DrawnAgrees
  BY <1>1, <1>2 DEF DrawnAgrees, HeadingNamesChart, PillNamesChart, GaugesMatchTitles
<1> QED
  BY <1>1, <1>2, <1>3 DEF DrawnInv

(* What the invariant looks at but for the requests.                       *)
LEMMA UndrawnStep ==
  ASSUME DrawnInv, UNCHANGED <<graphs, due, charts>>,
         request' \in [Requests -> {"idle", "sent", "read", "failed", "done"}],
         \A r \in Requests : request[r] = "done" => request'[r] = "done"
  PROVE  DrawnInv'
<1>1. UNCHANGED <<graphs, due, pill, heading, chart, gauge, early>>
  BY DEF charts
<1>2. Drawable' <=> Drawable
  BY <1>1 DEF Drawable
<1>3. DrawnAgrees'
  BY <1>1 DEF DrawnInv, DrawnAgrees, HeadingNamesChart, PillNamesChart, GaugesMatchTitles
<1>4. graphs' # << >> => request'["job1"] = "done" /\ request'["job2"] = "done"
  BY <1>1 DEF DrawnInv, Requests
<1>5. Blank' = Blank
  BY DEF Blank
<1>6. /\ gauge' \in [1..2 -> 0..2]
      /\ graphs' = << >> => gauge' = Blank
  BY <1>1 DEF DrawnInv
<1>7. graphs' = << >> => chart' = None /\ ~due'
  <2>1. graphs = << >> => chart = None /\ ~due
    BY DEF DrawnInv
  <2>2. graphs' = graphs /\ chart' = chart /\ (due' <=> due)
    BY <1>1
  <2> QED
    BY <2>1, <2>2
<1>8. /\ chart' # None => Drawable'
      /\ due' \in BOOLEAN /\ early' \in BOOLEAN
  BY <1>1, <1>2 DEF DrawnInv
<1>9. (graphs' = << >> \/ due') /\ ~early' => pill' = "Job time(s)"
  <2>1. (graphs = << >> \/ due) /\ ~early => pill = "Job time(s)"
    BY DEF DrawnInv
  <2>2. graphs' = graphs /\ pill' = pill /\ (due' <=> due) /\ (early' <=> early)
    BY <1>1
  <2> QED
    BY <2>1, <2>2
<1> QED
  BY <1>3, <1>4, <1>5, <1>6, <1>7, <1>8, <1>9 DEF DrawnInv

LEMMA VisitDraws ==
  ASSUME NEW v \in Views, Visit(v)
  PROVE  DrawnInv'
<1>1. request' \in [Requests -> {"idle", "sent", "read", "failed", "done"}]
  BY DEF Visit
<1>2. /\ gauge' = Blank /\ chart' = None /\ graphs' = << >>
      /\ due' = FALSE /\ early' = FALSE /\ pill' = "Job time(s)"
  BY DEF Visit, Blank
<1>3. gauge' \in [1..2 -> 0..2] /\ \A i \in 1..2 : gauge'[i] = 0
  BY <1>2, BlankIsBlank
<1>4. DrawnAgrees'
  BY <1>2, <1>3 DEF DrawnAgrees, HeadingNamesChart, PillNamesChart, GaugesMatchTitles
<1> QED
  BY <1>1, <1>2, <1>3, <1>4 DEF DrawnInv

LEMMA ArriveDraws ==
  ASSUME DrawnInv, NEW r \in Requests, Arrive(r)
  PROVE  DrawnInv'
<1>1. /\ request[r] = "read" /\ request' = [request EXCEPT ![r] = "done"]
      /\ UNCHANGED <<pill, heading, chart, gauge, early>>
  BY DEF Arrive, charts
<1>2. request' \in [Requests -> {"idle", "sent", "read", "failed", "done"}]
  BY <1>1 DEF DrawnInv
<1>3. CASE ~Collected(r)
  <2>1. UNCHANGED <<graphs, due, charts>>
    BY <1>3 DEF Arrive, DrawnInv
  <2>2. \A s \in Requests : request[s] = "done" => request'[s] = "done"
    BY <1>1 DEF DrawnInv
  <2> QED
    BY <1>2, <2>1, <2>2, UndrawnStep
<1>4. CASE Collected(r)
  <2>1. graphs = << >> /\ gauge = Blank /\ chart = None
    BY <1>1, <1>4 DEF DrawnInv, Collected
  <2>2. request'["job1"] = "done" /\ request'["job2"] = "done"
    BY <1>1, <1>4 DEF DrawnInv, Collected, Requests
  <2>3. due' = TRUE /\ graphs' # << >>
    BY <1>4 DEF Arrive
  <2>4. \A i \in 1..2 : gauge'[i] = 0
    BY <1>1, <2>1, BlankIsBlank
  <2>5. DrawnAgrees'
    BY <1>1, <2>1, <2>4 DEF DrawnAgrees, HeadingNamesChart, PillNamesChart, GaugesMatchTitles
  <2> QED
    BY <1>1, <1>2, <2>1, <2>2, <2>3, <2>5 DEF DrawnInv
<1> QED
  BY <1>3, <1>4

LEMMA DrawDraws ==
  ASSUME DrawnInv, Draw
  PROVE  DrawnInv'
<1>1. /\ due /\ due' = FALSE /\ gauge' = DrawGauges
      /\ UNCHANGED <<request, graphs, pill, early>>
  BY DEF Draw
<1>2. graphs # << >> /\ graphs' # << >>
  BY <1>1 DEF DrawnInv
<1>3. Drawable' <=> Drawable
  BY <1>1 DEF Drawable
<1>4. /\ Drawable => heading' = "Job time(s)" /\ chart' = "Job time(s)"
      /\ ~Drawable => chart' = chart /\ chart = None
  BY DEF Draw, DrawnInv
<1>5. gauge' \in [1..2 -> 0..2]
  <2>1. \A i \in 1..2 : gauge[i] \in 0..2
    BY DEF DrawnInv
  <2>2. ASSUME NEW i \in 1..2
        PROVE  (IF Drawable /\ PanelOf(First(graphs[2])) = i THEN 2
                ELSE IF First(graphs[1]) # None /\ i = 1 THEN 1 ELSE gauge[i]) \in 0..2
    BY <2>1
  <2> QED
    BY <1>1, <2>2 DEF DrawGauges
<1>6. GaugesMatchTitles'
  <2> SUFFICES ASSUME NEW i \in 1..2, gauge'[i] # 0
               PROVE  First(graphs[gauge'[i]]) = First(graphs[i])
    BY <1>1 DEF GaugesMatchTitles
  <2>1. CASE Drawable /\ PanelOf(First(graphs[2])) = i
    <3>1. gauge'[i] = 2
      BY <1>1, <2>1 DEF DrawGauges
    <3>2. \E k \in 1..2 : First(graphs[k]) = First(graphs[2])
      OBVIOUS
    <3>3. First(graphs[PanelOf(First(graphs[2]))]) = First(graphs[2])
      BY <3>2, PanelIsFound
    <3> QED
      BY <2>1, <3>1, <3>3
  <2>2. CASE ~(Drawable /\ PanelOf(First(graphs[2])) = i) /\ First(graphs[1]) # None /\ i = 1
    BY <1>1, <2>2 DEF DrawGauges
  <2>3. CASE ~(Drawable /\ PanelOf(First(graphs[2])) = i) /\ ~(First(graphs[1]) # None /\ i = 1)
    <3>1. gauge'[i] = gauge[i]
      BY <1>1, <2>3 DEF DrawGauges
    <3> QED
      BY <3>1 DEF DrawnInv, DrawnAgrees, GaugesMatchTitles
  <2> QED
    BY <2>1, <2>2, <2>3
<1>7. HeadingNamesChart'
  BY <1>4 DEF HeadingNamesChart
<1>8. PillNamesChart'
  BY <1>1, <1>4 DEF DrawnInv, PillNamesChart
<1>9. (graphs' = << >> \/ due') /\ ~early' => pill' = "Job time(s)"
  BY <1>1, <1>2
<1> QED
  BY <1>1, <1>2, <1>3, <1>4, <1>5, <1>6, <1>7, <1>8, <1>9 DEF DrawnInv, DrawnAgrees

LEMMA ClickDraws ==
  ASSUME DrawnInv, NEW d \in Diagrams, Click(d)
  PROVE  DrawnInv'
<1>1. /\ pill' = d /\ heading' = d
      /\ chart' = IF Drawable THEN d ELSE chart
      /\ early' = (early \/ graphs = << >> \/ due)
      /\ UNCHANGED <<request, graphs, due, gauge>>
  BY DEF Click, DrawChart
<1>2. Drawable' <=> Drawable
  BY <1>1 DEF Drawable
<1>3. graphs = << >> => ~Drawable
  BY DEF Drawable
<1>5. chart' # None => Drawable /\ chart' = d
  BY <1>1 DEF DrawnInv
<1>6. HeadingNamesChart' /\ PillNamesChart'
  BY <1>1, <1>5 DEF HeadingNamesChart, PillNamesChart
<1>7. GaugesMatchTitles'
  BY <1>1 DEF DrawnInv, DrawnAgrees, GaugesMatchTitles
<1>8. graphs' = << >> => gauge' = Blank /\ chart' = None /\ ~due'
  BY <1>1, <1>3 DEF DrawnInv
<1>9. (graphs' = << >> \/ due') /\ ~early' => pill' = "Job time(s)"
  BY <1>1 DEF DrawnInv
<1> QED
  BY <1>1, <1>2, <1>5, <1>6, <1>7, <1>8, <1>9 DEF DrawnInv, DrawnAgrees

LEMMA DrawingStep == DrawnInv /\ [Next]_vars => DrawnInv'
<1> SUFFICES ASSUME DrawnInv, [Next]_vars PROVE DrawnInv'
  OBVIOUS
<1>1. ASSUME UNCHANGED vars
      PROVE  DrawnInv'
  BY <1>1, UndrawnStep DEF vars, DrawnInv
<1>2. ASSUME NEW j \in Jobs, Report(j)
      PROVE  DrawnInv'
  BY <1>2, UndrawnStep DEF Report, DrawnInv
<1>3. ASSUME NEW r \in Requests, Read(r) \/ Fail(r)
      PROVE  DrawnInv'
  <2>1. UNCHANGED <<graphs, due, charts>>
    BY <1>3 DEF Read, Fail
  <2>2. /\ request' \in [Requests -> {"idle", "sent", "read", "failed", "done"}]
        /\ \A s \in Requests : request[s] = "done" => request'[s] = "done"
    BY <1>3 DEF Read, Fail, DrawnInv
  <2> QED
    BY <2>1, <2>2, UndrawnStep
<1> QED
  BY <1>1, <1>2, <1>3, VisitDraws, ArriveDraws, DrawDraws, ClickDraws DEF Next, Quiet

(* Whatever order reports, answers, clicks and visits come in, what is     *)
(* drawn agrees with the heading, the titles and a pill not clicked early. *)
THEOREM DrawnAlwaysAgrees == Spec => []DrawnAgrees
<1>1. DrawnInv => DrawnAgrees
  BY DEF DrawnInv
<1> QED
  BY InitialDrawing, DrawingStep, <1>1, PTL DEF Spec
-----------------------------------------------------------------------------
(* Every non-empty set of naturals has a least element.                    *)
LEMMA LeastElement ==
  ASSUME NEW I, I \subseteq Nat, I # {}
  PROVE  \E x \in I : \A y \in I : x <= y
<1>1. \E R : /\ IsWellFoundedOn(R, Nat)
             /\ \A x, y \in Nat : y < x => <<y, x>> \in R
  <2>1. \A x, y \in Nat : y < x => <<y, x>> \in OpToRel(<, Nat)
    BY Zenon DEF OpToRel
  <2> QED
    BY <2>1, NatLessThanWellFounded, Zenon
<1>2. PICK R : /\ IsWellFoundedOn(R, Nat)
               /\ \A x, y \in Nat : y < x => <<y, x>> \in R
  BY <1>1
<1>3. PICK x \in I : \A y \in I : ~ (<<y, x>> \in R)
  BY <1>2, WFMin
<1>4. ASSUME NEW y \in I
      PROVE  x <= y
  <2>1. x \in Nat /\ y \in Nat
    OBVIOUS
  <2>2. ~ (y < x)
    BY <1>2, <1>3, <2>1, Zenon
  <2> QED
    BY <2>1, <2>2
<1> QED
  BY <1>4

(* The first row is that of a job, when there is a row at all.             *)
LEMMA FirstIsAJob ==
  ASSUME NEW s
  PROVE  First(s) \in Jobs \cup {None}
<1> DEFINE I == {i \in 1..Len(Order) : s[Order[i]] > 0}
           k == IF I # {} THEN Min(I) ELSE 0
<1>1. First(s) = IF k = 0 THEN None ELSE Order[k]
  BY DEF First, SelectInSeq
<1>2. Len(Order) \in Nat /\ \A i \in 1..Len(Order) : Order[i] \in Jobs
  BY OrderAssumption
<1>3. I # {} => Min(I) \in 1..Len(Order)
  <2> SUFFICES ASSUME I # {} PROVE Min(I) \in I
    OBVIOUS
  <2>1. I \subseteq Nat
    BY <1>2
  <2> HIDE DEF I
  <2>2. \E x \in I : \A y \in I : x <= y
    BY <2>1, LeastElement
  <2> QED
    BY <2>2 DEF Min
<1> HIDE DEF I
<1> QED
  BY <1>1, <1>2, <1>3

(* The last part of TypeOK is in DrawnInv; the other parts are the ranges. *)
Ranges == /\ rows \in Rows /\ recommended \in BOOLEAN /\ view \in Views \cup {None}
          /\ request \in [Requests -> {"idle", "sent", "read", "failed", "done"}]
          /\ answer \in [Requests -> Rows]
          /\ graphs \in {<< >>} \cup (Rows \X Rows) /\ due \in BOOLEAN
          /\ pill \in Diagrams /\ heading \in Diagrams \cup {None}
          /\ chart \in Diagrams \cup {None} /\ gauge \in [1..2 -> 0..2]
          /\ songs \in BOOLEAN /\ jobData \in Jobs \cup {None}
          /\ early \in BOOLEAN /\ reported \in BOOLEAN
          /\ visits \in 0..MaxVisits /\ clicks \in 0..MaxClicks /\ failures \in 0..MaxFailures

LEMMA NothingIsRows == Nothing \in Rows
  BY BoundsAssumption DEF Nothing, Rows

LEMMA InitialRanges == Init => Ranges
<1> SUFFICES ASSUME Init PROVE Ranges
  OBVIOUS
<1>1. /\ rows \in Rows /\ request \in [Requests -> {"idle", "sent", "read", "failed", "done"}]
      /\ answer \in [Requests -> Rows] /\ gauge \in [1..2 -> 0..2]
  <2>1. /\ rows = Nothing /\ request = [r \in Requests |-> "idle"]
        /\ answer = [r \in Requests |-> Nothing] /\ gauge = [i \in 1..2 |-> 0]
    BY DEF Init
  <2> QED
    BY <2>1, NothingIsRows
<1>2. /\ due = FALSE /\ songs = FALSE /\ early = FALSE /\ reported = FALSE
      /\ recommended \in BOOLEAN /\ view = None /\ graphs = << >>
      /\ pill = "Job time(s)" /\ heading = None /\ chart = None /\ jobData = None
  BY DEF Init
<1>3. visits \in 0..MaxVisits /\ clicks \in 0..MaxClicks /\ failures \in 0..MaxFailures
  <2>1. visits = 0 /\ clicks = 0 /\ failures = 0
    BY DEF Init
  <2> QED
    BY <2>1, BoundsAssumption
<1> QED
  BY <1>1, <1>2, <1>3 DEF Ranges, Diagrams

LEMMA RangesStep == Ranges /\ DrawnInv' /\ [Next]_vars => Ranges'
<1> SUFFICES ASSUME Ranges, DrawnInv', [Next]_vars PROVE Ranges'
  OBVIOUS
<1> USE DEF Ranges
<1>0. /\ request' \in [Requests -> {"idle", "sent", "read", "failed", "done"}]
      /\ gauge' \in [1..2 -> 0..2] /\ due' \in BOOLEAN /\ early' \in BOOLEAN
  BY DEF DrawnInv
<1>1. ASSUME UNCHANGED vars
      PROVE  Ranges'
  BY <1>1 DEF vars, charts, found, bounds
<1>2. ASSUME NEW j \in Jobs, Report(j)
      PROVE  Ranges'
  <2>1. rows' \in Rows
    BY <1>2, BoundsAssumption DEF Report, Rows
  <2> QED
    BY <1>0, <1>2, <2>1 DEF Report, charts, found, bounds
<1>3. ASSUME NEW v \in Views, Visit(v)
      PROVE  Ranges'
  <2>1. answer' \in [Requests -> Rows] /\ graphs' = << >>
    BY <1>3, NothingIsRows DEF Visit
  <2>2. /\ songs' = FALSE /\ jobData' = None /\ reported' = (First(rows) # None)
        /\ pill' = "Job time(s)" /\ heading' = None /\ chart' = None /\ view' = v
        /\ UNCHANGED <<rows, recommended, clicks, failures>>
    BY <1>3 DEF Visit
  <2>3. visits' \in 0..MaxVisits
    <3>1. visits < MaxVisits /\ visits' = visits + 1
      BY <1>3 DEF Visit
    <3> QED
      BY <3>1, BoundsAssumption
  <2> QED
    BY <1>0, <2>1, <2>2, <2>3 DEF Diagrams
<1>4. ASSUME NEW r \in Requests, Read(r)
      PROVE  Ranges'
  <2>1. answer' \in [Requests -> Rows]
    BY <1>4 DEF Read
  <2> QED
    BY <1>0, <1>4, <2>1 DEF Read, charts, found, bounds
<1>5. ASSUME NEW r \in Requests, Fail(r)
      PROVE  Ranges'
  BY <1>0, <1>5, BoundsAssumption DEF Fail, charts, found
<1>6. ASSUME NEW r \in Requests, Arrive(r)
      PROVE  Ranges'
  <2>1. jobData' \in Jobs \cup {None}
    BY <1>6, FirstIsAJob DEF Arrive
  <2>2. songs' \in BOOLEAN
    BY <1>6 DEF Arrive
  <2>3. graphs' \in {<< >>} \cup (Rows \X Rows)
    <3>1. answer["job1"] \in Rows /\ answer["job2"] \in Rows
      BY DEF Requests
    <3> QED
      BY <1>6, <3>1 DEF Arrive
  <2> QED
    BY <1>0, <1>6, <2>1, <2>2, <2>3 DEF Arrive, charts, bounds
<1>7. ASSUME NEW d \in Diagrams, Click(d)
      PROVE  Ranges'
  BY <1>0, <1>7, BoundsAssumption DEF Click, DrawChart, found
<1>8. CASE Draw
  <2>1. heading' \in Diagrams \cup {None} /\ chart' \in Diagrams \cup {None}
    BY <1>8 DEF Draw, Diagrams
  <2> QED
    BY <1>0, <1>8, <2>1 DEF Draw, found, bounds
<1> QED
  BY <1>1, <1>2, <1>3, <1>4, <1>5, <1>6, <1>7, <1>8 DEF Next, Quiet

(* Whatever the reports and the order of the answers, graphsData is        *)
(* undefined or holds two answers, what #/findmusic shows is a job or      *)
(* nothing, and nothing is drawn while graphsData is undefined.            *)
THEOREM TypeCorrect == Spec => []TypeOK
<1>1. Ranges /\ DrawnInv => TypeOK
  BY DEF Ranges, DrawnInv, TypeOK, Blank
<1> QED
  BY InitialRanges, RangesStep, InitialDrawing, DrawingStep, <1>1, PTL DEF Spec
=============================================================================
