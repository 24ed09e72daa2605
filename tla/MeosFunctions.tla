---------------------------- MODULE MeosFunctions ----------------------------
(***************************************************************************)
(* The MEOS physical functions as worker threads execute them, with the    *)
(* MEOS wrapper calls they make.                                           *)
(*                                                                         *)
(* TEMPORAL_INTERSECTS with six arguments builds two temporal points       *)
(* "SRID=4326;Point(lon lat)@ts", makes sure MEOS is initialised (once per *)
(* process, under meos_init_mutex), parses each with the TemporalGeometry  *)
(* constructor and calls eintersects.  The constructor tries tgeompoint_in, *)
(* then the same text with the case of "Point(" toggled, then             *)
(* tgeometry_in; every attempt holds meos_parse_mutex except the one that  *)
(* rewrites "POINT(" to "Point(".  A geometry that fails all three makes   *)
(* the function return 0.  The MEOS parser's outcome is not in this        *)
(* repository and is a nondeterministic success or failure.                *)
(*                                                                         *)
(* TEMPORAL_INTERSECTS with three arguments (TemporalIntersectsPhysical-   *)
(* Function) creates a Meos object once, through a function-local static   *)
(* pointer that it tests and sets without synchronisation, then builds two *)
(* TemporalInstants, each of which makes sure MEOS is initialised and      *)
(* parses "SRID=4326;POINT(lon lat)@ts" once under meos_parse_mutex, and   *)
(* calls eintersects on them, whether or not the parses succeeded.         *)
(*                                                                         *)
(* TEMPORAL_INTERSECTS with four arguments and TGEO_AT_STBOX do not call   *)
(* MEOS: a point-in-polygon test over the parsed polygon ring and a bounds *)
(* check over the parsed STBOX corners.  Both are pure operators here, on  *)
(* small integer coordinates, where the code's double arithmetic is exact. *)
(***************************************************************************)
EXTENDS Integers, Sequences, SequencesExt, FiniteSets, Functions

CONSTANTS
  Workers,      \* worker threads executing the functions
  MaxCalls,     \* function calls per worker, at most
  Polygons,     \* polygon rings (vertex sequences, as parsed from the WKT)
  Boxes,        \* STBOX literals as their two parsed (lon, lat) corners
  Points,       \* query points (lon, lat)
  NoOne         \* no thread holds the mutex

\* The parse attempts of the TemporalGeometry constructor, in order.
Attempts == 1..3     \* tgeompoint_in, tgeompoint_in with case toggled, tgeometry_in

VARIABLES
  initialized,  \* meos_initialized
  initCount,    \* history: meos_initialize() calls
  initLock,     \* holder of meos_init_mutex
  parseLock,    \* holder of meos_parse_mutex
  wpc,          \* [Workers -> control point of the worker's call]
  wcase,        \* [Workers -> {"Point", "POINT"}]: case of the WKT the worker built
  wside,        \* [Workers -> {"left", "right"}]: the geometry being constructed
  wattempt,     \* [Workers -> Attempts]: the constructor's current parse attempt
  inParser,     \* threads inside a MEOS parser call
  calls,        \* [Workers -> 0..MaxCalls]
  lastPure,     \* history: the last pure call, its input and result
  wfn,          \* [Workers -> {"six", "three"}]: the TEMPORAL_INTERSECTS variant running
  wsawNull,     \* [Workers -> BOOLEAN]: the three-argument call read meos_instance as null
  meosInstance, \* the static meos_instance pointer is set
  instances     \* history: Meos objects the three-argument function allocated

vars == <<initialized, initCount, initLock, parseLock, wpc, wcase, wside,
          wattempt, inParser, calls, lastPure, wfn, wsawNull, meosInstance,
          instances>>
meosVars == <<wfn, wsawNull, meosInstance, instances>>

NoPure == [fn |-> "none"]

\* Where ensureMeosInitialized returns to: the three-argument call that
\* found meos_instance null was in new Meos() and stores the pointer next;
\* every other call goes on to its parse.
AfterEnsure(w) == IF wfn[w] = "three" /\ wsawNull[w] THEN "publish" ELSE "parse"

-----------------------------------------------------------------------------
(* Reference definitions for the pure functions.                           *)

\* p lies on the closed segment ab: collinear, and its projection on ab
\* falls between a and b.
OnBoundaryRef(p, a, b) ==
  LET ux == b[1] - a[1]   uy == b[2] - a[2]
      vx == p[1] - a[1]   vy == p[2] - a[2]
  IN  /\ ux * vy - uy * vx = 0
      /\ 0 <= ux * vx + uy * vy
      /\ ux * vx + uy * vy <= ux * ux + uy * uy
      /\ (ux = 0 /\ uy = 0) => p = a

\* Winding number of the ring around p (crossings of the horizontal line
\* through p, signed by edge direction).
Winding(pts, p) ==
  LET n == Len(pts)
      Prev(i) == IF i = 1 THEN n ELSE i - 1
      IsLeft(a, b) == (b[1] - a[1]) * (p[2] - a[2]) - (p[1] - a[1]) * (b[2] - a[2])
      W(i) == LET a == pts[Prev(i)]  b == pts[i]
              IN  IF a[2] <= p[2] /\ b[2] > p[2] /\ IsLeft(a, b) > 0 THEN 1
                  ELSE IF a[2] > p[2] /\ b[2] <= p[2] /\ IsLeft(a, b) < 0 THEN -1
                  ELSE 0
  IN  SumFunction([i \in 1..n |-> W(i)])

\* A point of a simple polygon or of its boundary intersects it.
PipRef(pts, p) ==
  IF Len(pts) < 3 THEN 0
  ELSE IF \E i \in 1..Len(pts) :
            OnBoundaryRef(p, pts[IF i = 1 THEN Len(pts) ELSE i - 1], pts[i])
       THEN 1
  ELSE IF Winding(pts, p) # 0 THEN 1 ELSE 0

\* The point lies between the two corners in both coordinates, inclusive or
\* exclusive of the border.
Between(v, a, b, incl) ==
  IF incl THEN (a <= v /\ v <= b) \/ (b <= v /\ v <= a)
          ELSE (a < v /\ v < b) \/ (b < v /\ v < a)

AtStBoxRef(box, p, incl) ==
  IF Between(p[1], box[1][1], box[2][1], incl) /\ Between(p[2], box[1][2], box[2][2], incl)
  THEN 1 ELSE 0

-----------------------------------------------------------------------------
(* Fault-injection variants.                                               *)

\* onSegment keeps only its bounding-box test.
OnSegmentBoxOnly(p, a, b) ==
  /\ p[1] >= Min({a[1], b[1]}) /\ p[1] <= Max({a[1], b[1]})
  /\ p[2] >= Min({a[2], b[2]}) /\ p[2] <= Max({a[2], b[2]})

\* The six-argument path builds its WKT with "POINT(" instead of "Point(".
Execute6UpperCase(w) ==
  /\ wpc[w] = "idle" /\ calls[w] < MaxCalls
  /\ wpc' = [wpc EXCEPT ![w] = "ensure"]
  /\ wcase' = [wcase EXCEPT ![w] = "POINT"]
  /\ wside' = [wside EXCEPT ![w] = "left"]
  /\ wattempt' = [wattempt EXCEPT ![w] = 1]
  /\ calls' = [calls EXCEPT ![w] = @ + 1]
  /\ wfn' = [wfn EXCEPT ![w] = "six"]
  /\ UNCHANGED <<initialized, initCount, initLock, parseLock, inParser, lastPure,
                 wsawNull, meosInstance, instances>>

LastAttemptOffByOne == 4

-----------------------------------------------------------------------------
(* TemporalIntersectsGeometryPhysicalFunction, four arguments.             *)

\* onSegment: inside the segment's bounding box and collinear with it.
OnSegment(p, a, b) ==
  /\ p[1] >= Min({a[1], b[1]}) /\ p[1] <= Max({a[1], b[1]})
  /\ p[2] >= Min({a[2], b[2]}) /\ p[2] <= Max({a[2], b[2]})
  /\ (p[1] - a[1]) * (b[2] - a[2]) - (p[2] - a[2]) * (b[1] - a[1]) = 0

\* Ray casting: edge (j, i) toggles `inside` if it straddles the point's y
\* and crosses the ray to the right of the point.  The code divides by
\* yj - yi + 1e-300; the straddle test makes yj # yi, so the comparison is
\* done here multiplied out by yj - yi, flipping it when that is negative.
RayCrosses(p, a, b) ==
  LET d == a[2] - b[2]
      rhs == b[1] * d + (a[1] - b[1]) * (p[2] - b[2])
  IN  /\ (b[2] > p[2]) # (a[2] > p[2])
      /\ IF d > 0 THEN p[1] * d < rhs ELSE p[1] * d > rhs

\* The point-in-polygon test: fewer than three points give 0, a point on an
\* edge gives 1, otherwise the parity of the ray crossings.
PointInPolygon(pts, p) ==
  LET n == Len(pts)
      Prev(i) == IF i = 1 THEN n ELSE i - 1
  IN  IF n < 3 THEN 0
      ELSE IF \E i \in 1..n : OnSegment(p, pts[Prev(i)], pts[i]) THEN 1
      ELSE IF Cardinality({i \in 1..n : RayCrosses(p, pts[Prev(i)], pts[i])}) % 2 = 1
           THEN 1 ELSE 0

\* A four-argument call: the worker runs the test and returns.
Execute4(w, pts, p) ==
  /\ wpc[w] = "idle" /\ calls[w] < MaxCalls
  /\ lastPure' = [fn |-> "intersects4", poly |-> pts, pt |-> p,
                  result |-> PointInPolygon(pts, p)]
  /\ calls' = [calls EXCEPT ![w] = @ + 1]
  /\ UNCHANGED <<initialized, initCount, initLock, parseLock, wpc, wcase,
                 wside, wattempt, inParser, meosVars>>

-----------------------------------------------------------------------------
(* TemporalAtStBoxPhysicalFunction.                                        *)

\* Normalise the corners, then test the border-inclusive or exclusive box;
\* the time bounds are treated as satisfied.
AtStBox(box, p, incl) ==
  LET minLon == Min({box[1][1], box[2][1]})  maxLon == Max({box[1][1], box[2][1]})
      minLat == Min({box[1][2], box[2][2]})  maxLat == Max({box[1][2], box[2][2]})
      insideLon == IF incl THEN p[1] >= minLon /\ p[1] <= maxLon
                           ELSE p[1] > minLon /\ p[1] < maxLon
      insideLat == IF incl THEN p[2] >= minLat /\ p[2] <= maxLat
                           ELSE p[2] > minLat /\ p[2] < maxLat
  IN  IF insideLon /\ insideLat THEN 1 ELSE 0

ExecuteAtStBox(w, box, p, incl) ==
  /\ wpc[w] = "idle" /\ calls[w] < MaxCalls
  /\ lastPure' = [fn |-> "atstbox", box |-> box, pt |-> p, incl |-> incl,
                  result |-> AtStBox(box, p, incl)]
  /\ calls' = [calls EXCEPT ![w] = @ + 1]
  /\ UNCHANGED <<initialized, initCount, initLock, parseLock, wpc, wcase,
                 wside, wattempt, inParser, meosVars>>

-----------------------------------------------------------------------------
(* TemporalIntersectsGeometryPhysicalFunction, six arguments, and the MEOS *)
(* wrapper.                                                                *)

\* The function builds both WKT strings with "Point(" and calls
\* ensureMeosInitialized.
Execute6(w) ==
  /\ wpc[w] = "idle" /\ calls[w] < MaxCalls
  /\ wpc' = [wpc EXCEPT ![w] = "ensure"]
  /\ wcase' = [wcase EXCEPT ![w] = "Point"]
  /\ wside' = [wside EXCEPT ![w] = "left"]
  /\ wattempt' = [wattempt EXCEPT ![w] = 1]
  /\ calls' = [calls EXCEPT ![w] = @ + 1]
  /\ wfn' = [wfn EXCEPT ![w] = "six"]
  /\ UNCHANGED <<initialized, initCount, initLock, parseLock, inParser, lastPure,
                 wsawNull, meosInstance, instances>>

\* ensureMeosInitialized: under meos_init_mutex, nothing to do once
\* initialised, otherwise the environment set-up and meos_initialize()
\* follow with the mutex held.  The constructors' own calls of it find MEOS
\* initialised by this one and are not repeated here.
EnsureMeosInitialized(w) ==
  /\ wpc[w] = "ensure" /\ initLock = NoOne
  /\ IF initialized
       THEN /\ wpc' = [wpc EXCEPT ![w] = AfterEnsure(w)]
            /\ UNCHANGED initLock
       ELSE /\ initLock' = w
            /\ wpc' = [wpc EXCEPT ![w] = "meosInit"]
  /\ UNCHANGED <<initialized, initCount, parseLock, wcase, wside, wattempt,
                 inParser, calls, lastPure, meosVars>>

\* meos_initialize(), meos_initialized = true, atexit(cleanupMeos), unlock.
MeosInitialize(w) ==
  /\ wpc[w] = "meosInit"
  /\ initCount' = initCount + 1
  /\ initialized' = TRUE
  /\ initLock' = IF initLock = w THEN NoOne ELSE initLock
  /\ wpc' = [wpc EXCEPT ![w] = AfterEnsure(w)]
  /\ UNCHANGED <<parseLock, wcase, wside, wattempt, inParser, calls, lastPure,
                 meosVars>>

\* Every attempt holds meos_parse_mutex except the toggled-case retry of a
\* text that contains "POINT(".
ParseLocked(attempt, case) == attempt # 2 \/ case = "Point"

\* tgeometry_in is the constructor's last attempt.
LastAttempt == 3

\* A TemporalInstant parses once and keeps a null instant when the parse
\* fails; it has no fallback.
KeepsNullOnFailure(w) == wfn[w] = "three"

\* A parse attempt begins: the mutex is taken if the attempt holds it.
ParseBegin(w) ==
  /\ wpc[w] = "parse"
  /\ IF ParseLocked(wattempt[w], wcase[w])
       THEN parseLock = NoOne /\ parseLock' = w
       ELSE UNCHANGED parseLock
  /\ inParser' = inParser \cup {w}
  /\ wpc' = [wpc EXCEPT ![w] = "parsing"]
  /\ UNCHANGED <<initialized, initCount, initLock, wcase, wside, wattempt,
                 calls, lastPure, meosVars>>

\* The parser returns a geometry or null.  On success the next geometry is
\* constructed or eintersects follows; on failure the next attempt follows,
\* and after the last one the function returns 0.  A TemporalInstant keeps
\* a null instant and the three-argument call goes on either way, so for
\* it the first two disjuncts stand for both outcomes.
ParseEnd(w) ==
  /\ wpc[w] = "parsing"
  /\ parseLock' = IF parseLock = w THEN NoOne ELSE parseLock
  /\ inParser' = inParser \ {w}
  /\ \/ /\ wside[w] = "left"
        /\ wpc' = [wpc EXCEPT ![w] = "parse"]
        /\ wside' = [wside EXCEPT ![w] = "right"]
        /\ wattempt' = [wattempt EXCEPT ![w] = 1]
     \/ /\ wside[w] = "right"
        /\ wpc' = [wpc EXCEPT ![w] = "intersects"]
        /\ UNCHANGED <<wside, wattempt>>
     \/ /\ ~KeepsNullOnFailure(w) /\ wattempt[w] < LastAttempt
        /\ wattempt' = [wattempt EXCEPT ![w] = @ + 1]
        /\ wpc' = [wpc EXCEPT ![w] = "parse"]
        /\ UNCHANGED wside
     \/ /\ ~KeepsNullOnFailure(w) /\ wattempt[w] = LastAttempt
        /\ wpc' = [wpc EXCEPT ![w] = "idle"]
        /\ UNCHANGED <<wside, wattempt>>
  /\ UNCHANGED <<initialized, initCount, initLock, wcase, calls, lastPure,
                 meosVars>>

\* TemporalGeometry::intersects: eintersects_tgeo_tgeo, without a mutex;
\* the function returns its result.
Intersects(w) ==
  /\ wpc[w] = "intersects"
  /\ wpc' = [wpc EXCEPT ![w] = "idle"]
  /\ UNCHANGED <<initialized, initCount, initLock, parseLock, wcase, wside,
                 wattempt, inParser, calls, lastPure, meosVars>>

-----------------------------------------------------------------------------
(* TemporalIntersectsPhysicalFunction, three arguments.                    *)

\* The function builds its two TemporalInstants from "SRID=4326;POINT(",
\* each parsed once.
Execute3(w) ==
  /\ wpc[w] = "idle" /\ calls[w] < MaxCalls
  /\ wpc' = [wpc EXCEPT ![w] = "lazy"]
  /\ wfn' = [wfn EXCEPT ![w] = "three"]
  /\ wcase' = [wcase EXCEPT ![w] = "POINT"]
  /\ wside' = [wside EXCEPT ![w] = "left"]
  /\ wattempt' = [wattempt EXCEPT ![w] = 1]
  /\ calls' = [calls EXCEPT ![w] = @ + 1]
  /\ UNCHANGED <<initialized, initCount, initLock, parseLock, inParser, lastPure,
                 wsawNull, meosInstance, instances>>

\* if (!meos_instance): an unsynchronised read of the static pointer.  A
\* null pointer leads into new Meos(), whose constructor calls
\* ensureMeosInitialized; otherwise the first TemporalInstant's
\* constructor makes that call.
LazyInstance(w) ==
  /\ wpc[w] = "lazy"
  /\ wsawNull' = [wsawNull EXCEPT ![w] = ~meosInstance]
  /\ wpc' = [wpc EXCEPT ![w] = "ensure"]
  /\ UNCHANGED <<initialized, initCount, initLock, parseLock, wcase, wside,
                 wattempt, inParser, calls, lastPure, wfn, meosInstance, instances>>

\* meos_instance = new Meos(): the pointer is stored once the constructor
\* has returned; another worker that read null meanwhile stores its own.
Publish(w) ==
  /\ wpc[w] = "publish"
  /\ meosInstance' = TRUE
  /\ instances' = instances + 1
  /\ wsawNull' = [wsawNull EXCEPT ![w] = FALSE]
  /\ wpc' = [wpc EXCEPT ![w] = "parse"]
  /\ UNCHANGED <<initialized, initCount, initLock, parseLock, wcase, wside,
                 wattempt, inParser, calls, lastPure, wfn>>

-----------------------------------------------------------------------------
Init ==
  /\ initialized = FALSE
  /\ initCount = 0
  /\ initLock = NoOne
  /\ parseLock = NoOne
  /\ wpc = [w \in Workers |-> "idle"]
  /\ wcase = [w \in Workers |-> "Point"]
  /\ wside = [w \in Workers |-> "left"]
  /\ wattempt = [w \in Workers |-> 1]
  /\ inParser = {}
  /\ calls = [w \in Workers |-> 0]
  /\ lastPure = NoPure
  /\ wfn = [w \in Workers |-> "six"]
  /\ wsawNull = [w \in Workers |-> FALSE]
  /\ meosInstance = FALSE
  /\ instances = 0

WorkerStep(w) ==
  \/ Execute6(w)
  \/ Execute3(w) \/ LazyInstance(w) \/ Publish(w)
  \/ \E pts \in Polygons, p \in Points : Execute4(w, pts, p)
  \/ \E box \in Boxes, p \in Points, incl \in BOOLEAN : ExecuteAtStBox(w, box, p, incl)
  \/ EnsureMeosInitialized(w) \/ MeosInitialize(w)
  \/ ParseBegin(w) \/ ParseEnd(w) \/ Intersects(w)

\* Every worker has made its calls: the query's input is exhausted.
Finished ==
  /\ \A w \in Workers : wpc[w] = "idle" /\ calls[w] = MaxCalls
  /\ UNCHANGED vars

Next == (\E w \in Workers : WorkerStep(w)) \/ Finished

Spec == Init /\ [][Next]_vars /\ \A w \in Workers : WF_vars(WorkerStep(w))

-----------------------------------------------------------------------------
(* Properties                                                              *)

TypeOK ==
  /\ initialized \in BOOLEAN /\ initCount \in Nat
  /\ initLock \in Workers \cup {NoOne} /\ parseLock \in Workers \cup {NoOne}
  /\ wpc \in [Workers -> {"idle", "lazy", "ensure", "meosInit", "publish", "parse",
                           "parsing", "intersects"}]
  /\ wcase \in [Workers -> {"Point", "POINT"}]
  /\ wside \in [Workers -> {"left", "right"}]
  /\ wattempt \in [Workers -> Attempts]
  /\ inParser \subseteq Workers
  /\ calls \in [Workers -> 0..MaxCalls]
  /\ wfn \in [Workers -> {"six", "three"}] /\ wsawNull \in [Workers -> BOOLEAN]
  /\ meosInstance \in BOOLEAN /\ instances \in Nat

ParseSerialised == Cardinality(inParser) <= 1

\* The four-argument TEMPORAL_INTERSECTS reports 1 exactly for the points
\* inside a simple polygon or on its boundary, and TGEO_AT_STBOX exactly for
\* the points between the two corners, whichever way round they are given.
PureResultsMatchReference ==
  \/ lastPure = NoPure
  \/ lastPure.fn = "intersects4" /\ lastPure.result = PipRef(lastPure.poly, lastPure.pt)
  \/ lastPure.fn = "atstbox" /\ lastPure.result = AtStBoxRef(lastPure.box, lastPure.pt, lastPure.incl)

=============================================================================
