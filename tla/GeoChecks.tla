----------------------------- MODULE GeoChecks ------------------------------
(***************************************************************************)
(* The geospatial check functions (geo/check_funcs.py).  A geometry is a   *)
(* kind, the stretch lo..hi of a line that it covers (none when it is      *)
(* empty), its reference system and whether it is valid in the OGC sense;  *)
(* a cell holds a geometry, its text or bytes, or something unreadable.    *)
(***************************************************************************)
EXTENDS SparkSQL, Sequences

CONSTANTS
  Pending,
  Malformed,   \* a value that is not a geometry, or not a number
  Refused      \* InvalidParameterError

VARIABLES
  input,    \* the check and what it is applied to
  output    \* whether the row was flagged, for a dataset check the flagged rows

-----------------------------------------------------------------------------
(* The spatial functions of the engine, strict in their arguments *)

Wgs84 == 4326

Points(g) == g.lo..g.hi
Interior(g) == IF g.kind = "ST_Point" THEN Points(g) ELSE (g.lo + 1)..(g.hi - 1)

st_isempty(g) == IF g = Null THEN Null ELSE Points(g) = {}
st_dimension(g) == IF g.kind = "ST_Point" THEN 0 ELSE IF g.kind = "ST_LineString" THEN 1 ELSE 2
st_area(g) == IF g = Null THEN Null ELSE IF st_dimension(g) = 2 /\ g.lo <= g.hi THEN g.hi - g.lo ELSE 0
st_npoints(g) == IF g = Null THEN Null ELSE Cardinality({g.lo, g.hi} \cap Points(g))

Related(relationship, a, b) ==
  IF a = Null \/ b = Null THEN Null
  ELSE CASE relationship = "COVERS"     -> Points(b) # {} /\ Points(b) \subseteq Points(a)
         [] relationship = "CONTAINS"   -> Points(b) \subseteq Points(a) /\ Interior(a) \cap Interior(b) # {}
         [] relationship = "WITHIN"     -> Points(a) \subseteq Points(b) /\ Interior(a) \cap Interior(b) # {}
         [] relationship = "INTERSECTS" -> Points(a) \cap Points(b) # {}
         [] relationship = "TOUCHES"    -> Points(a) \cap Points(b) # {} /\ Interior(a) \cap Interior(b) = {}

\* The cells of the grid a geometry reaches into; the finer the resolution,
\* the smaller the cells.
Cells(g, resolution) == {x \div (IF resolution = 0 THEN 4 ELSE 2) : x \in Points(g)}

try_to_geometry(raw) == IF raw = Malformed THEN Null ELSE raw

-----------------------------------------------------------------------------
(* Row checks *)

\* is_latitude, is_longitude: a text that is no number casts to NULL.
NotBetween(raw, lo, hi) == LET x == IF raw = Malformed THEN Null ELSE raw IN Not(And(Geq(x, lo), Leq(x, hi)))

\* is_geometry, is_geography
NotParsed(raw) == IF raw = Null THEN Null ELSE try_to_geometry(raw) = Null

\* is_not_null_island
IsNullIsland(g) == IF g = Null THEN Null ELSE g.kind = "ST_Point" /\ Points(g) = {0}

\* Both bounds of an empty geometry are NULL.
OutsideRange(g, min, max) ==
  IF g = Null \/ (g # Null /\ Points(g) = {}) THEN Null ELSE g.hi > max \/ g.lo < min

\* is_point, is_linestring, is_polygon and the multi-part kinds
NotOfKind(g, kind) == IF g = Null THEN Null ELSE g.kind # kind

is_ogc_valid(g) == IF g = Null THEN Null ELSE ~g.valid
has_dimension(g, dimension) == IF g = Null THEN Null ELSE st_dimension(g) # dimension

PropertyViolation(c, g) ==
  CASE c.fn = "is_kind"          -> NotOfKind(g, c.kind)
    [] c.fn = "is_ogc_valid"     -> is_ogc_valid(g)
    [] c.fn = "is_non_empty"     -> st_isempty(g)
    [] c.fn = "is_not_null_island" -> IsNullIsland(g)
    [] c.fn = "has_dimension"    -> has_dimension(g, c.dimension)
    [] c.fn = "coordinate_between" -> OutsideRange(g, c.min, c.max)

\* _geometry_property_check, with try_to_geometry or on a geometry column.
GeometryProperty(c, raw) ==
  IF raw = Null THEN Null
  ELSE LET geom == try_to_geometry(raw) IN Or(geom = Null, PropertyViolation(c, geom))

\* _compare_spatial_sql_function_result
Compared(c, raw, quantity) ==
  IF raw = Null THEN Null
  ELSE Or(try_to_geometry(raw) = Null,
          CASE c.op = "ne" -> Not(Eq(quantity, c.value)) [] c.op = "eq" -> Eq(quantity, c.value)
            [] c.op = "gt" -> Gt(quantity, c.value) [] c.op = "lt" -> Lt(quantity, c.value))

\* is_area_equal_to, ..., is_num_points_equal_to, ...; the area is taken in
\* another reference system or on the spheroid, a matter of scale.
Area(c, raw) == Compared(c, raw, st_area(try_to_geometry(raw)))
NumPoints(c, raw) == Compared(c, raw, st_npoints(try_to_geometry(raw)))

-----------------------------------------------------------------------------
(* Checks against a reference geometry *)

Unparsed(raw) == raw # Null /\ try_to_geometry(raw) = Null

\* _has_topological_relationship_precise
Precise(relationship, raw, reference) ==
  IF raw = Null THEN Null
  ELSE Or(Unparsed(raw) \/ Unparsed(reference),
          Not(Related(relationship, try_to_geometry(reference), try_to_geometry(raw))))

\* _h3_cells: only for WGS 84, with a cell of its own for a point.
H3Cells(g, resolution) ==
  IF g = Null \/ (g # Null /\ g.srid \notin {0, Wgs84}) THEN Null ELSE Cells(g, resolution)
NoCells(cells) == cells = Null \/ cells = {}

IsInside(relationship, mine, theirs) ==
  IF relationship = "INTERSECTS" THEN mine \cap theirs # {} ELSE mine \subseteq theirs

\* _has_topological_relationship_approximate
Approximate(relationship, raw, reference, resolution) ==
  LET geom == try_to_geometry(raw)
      mine == H3Cells(geom, resolution)
      theirs == H3Cells(try_to_geometry(reference), resolution)
      bad == \/ Unparsed(raw) \/ Unparsed(reference)
             \/ (geom # Null /\ geom.srid \notin {0, Wgs84})
             \/ (reference # Null /\ NoCells(theirs))
             \/ (NoCells(mine) /\ st_isempty(geom) = FALSE)
  IN IF raw = Null THEN Null
     ELSE IF bad THEN TRUE
     ELSE IF reference = Null \/ NoCells(mine) THEN Null
     ELSE ~IsInside(relationship, mine, theirs)

\* is_geo_covers, is_geo_intersects
CoversOrIntersects(c, raw, reference) ==
  IF c.precise THEN Precise(c.relationship, raw, reference)
  ELSE Approximate(c.relationship, raw, reference, c.resolution)

\* is_geo_contains, is_geo_touches, is_geo_within are always precise.
Reference(c, raw, reference) ==
  IF c.relationship \in {"COVERS", "INTERSECTS"} THEN CoversOrIntersects(c, raw, reference)
  ELSE Precise(c.relationship, raw, reference)

\* is_geo_within_distance, between points only (_diagnose_point_operand).
Diagnosis(raw, g) ==
  IF g = Null THEN (IF Unparsed(raw) THEN TRUE ELSE Null)
  ELSE g.kind # "ST_Point" \/ g.srid \notin {0, Wgs84} \/ Points(g) = {}

WithinDistance(c, raw, reference) ==
  LET a == try_to_geometry(raw)  b == try_to_geometry(reference)
      unmeasurable == Or(Diagnosis(raw, a), Diagnosis(reference, b))
      distance == IF unmeasurable = FALSE THEN Abs(a.lo - b.lo) ELSE Null
  IN IF raw = Null THEN Null ELSE Or(unmeasurable, Gt(distance, c.distance))

\* _validate_distance and the parameters of the approximate mode.
Valid(c) ==
  /\ c.fn = "within_distance" => c.distance >= 0
  /\ c.fn = "reference" /\ ~c.precise /\ c.relationship \in {"COVERS", "INTERSECTS"} => c.resolution \in 0..15

-----------------------------------------------------------------------------
(* are_polygons_mutually_disjoint: rows have an identity hash *)

\* Two rows are duplicates when all their columns are equal.
Duplicates(df) == {i \in DOMAIN df : \E j \in DOMAIN df \ {i} : df[j] = df[i]}

Polygons(df) ==
  {i \in DOMAIN df : LET g == try_to_geometry(df[i].geom) IN g # Null /\ g.kind = "ST_Polygon"}

are_polygons_mutually_disjoint(c, df) ==
  LET taken == {i \in DOMAIN df : c.filtered => df[i].in}
  IN (Duplicates(df) \cap taken)
       \cup {i \in Polygons(df) \cap taken :
               \E j \in Polygons(df) \cap taken : df[j] # df[i] /\ Related("INTERSECTS", df[i].geom, df[j].geom) = TRUE}

-----------------------------------------------------------------------------
(* Inputs and evaluation *)

Empty(kind) == [kind |-> kind, lo |-> 1, hi |-> 0, srid |-> 0, valid |-> TRUE]
Places == {[kind |-> k, lo |-> l, hi |-> h, srid |-> s, valid |-> TRUE] :
             k \in {"ST_Polygon", "ST_LineString"}, l \in {0, 2}, h \in {3, 5}, s \in {0, Wgs84}}
          \cup {[kind |-> "ST_Point", lo |-> p, hi |-> p, srid |-> s, valid |-> TRUE] : p \in {0, 2, 4, 6}, s \in {Wgs84, 3857}}
          \cup {Empty("ST_Polygon"), [kind |-> "ST_Polygon", lo |-> 0, hi |-> 5, srid |-> 0, valid |-> FALSE]}
Raw == Places \cup {Null, Malformed}

Relationships == {"CONTAINS", "COVERS", "INTERSECTS", "TOUCHES", "WITHIN"}
Shapes == {[kind |-> "ST_Polygon", lo |-> l, hi |-> l + 2, srid |-> 0, valid |-> TRUE] : l \in {0, 1, 3}}
          \cup {[kind |-> "ST_Point", lo |-> p, hi |-> p, srid |-> 0, valid |-> TRUE] : p \in {1, 3}}

Inputs ==
  ([fn : {"is_latitude", "is_longitude"}] \X {-181, -91, -90, 0, 90, 91, Null, Malformed} \X {Null})
  \cup ([fn : {"is_geometry", "is_geography", "is_ogc_valid", "is_non_empty", "is_not_null_island"}] \X Raw \X {Null})
  \cup ([fn : {"is_kind"}, kind : {"ST_Point", "ST_Polygon"}] \X Raw \X {Null})
  \cup ([fn : {"has_dimension"}, dimension : 0..2] \X Raw \X {Null})
  \cup ([fn : {"coordinate_between"}, min : {0, 1}, max : {3, 5}] \X Raw \X {Null})
  \cup ([fn : {"compare"}, quantity : {"area", "points"}, op : {"ne", "eq", "gt", "lt"}, value : {2, Null}] \X Raw \X {Null})
  \cup ([fn : {"reference"}, relationship : Relationships, precise : BOOLEAN, resolution : {0, 1, 16}] \X Raw \X Raw)
  \cup ([fn : {"within_distance"}, distance : {-1, 0, 2}] \X Raw \X Raw)

Frames == UNION {[1..n -> [geom : Shapes \cup {Null, Malformed}, in : BOOLEAN]] : n \in 0..3}
DatasetInputs == [fn : {"disjoint"}, filtered : BOOLEAN] \X Frames \X {Null}

Condition(c, raw, reference) ==
  CASE c.fn = "is_latitude"     -> NotBetween(raw, -90, 90)
    [] c.fn = "is_longitude"    -> NotBetween(raw, -180, 180)
    [] c.fn \in {"is_geometry", "is_geography"} -> NotParsed(raw)
    [] c.fn = "compare"         -> IF c.quantity = "area" THEN Area(c, raw) ELSE NumPoints(c, raw)
    [] c.fn = "reference"       -> Reference(c, raw, reference)
    [] c.fn = "within_distance" -> WithinDistance(c, raw, reference)
    [] OTHER                    -> GeometryProperty(c, raw)

Init == input \in Inputs \cup DatasetInputs /\ output = Pending

CheckRow ==
  /\ output = Pending /\ input[1].fn # "disjoint"
  /\ output' = IF Valid(input[1]) THEN Condition(input[1], input[2], input[3]) = TRUE ELSE Refused
  /\ UNCHANGED input

CheckDataset ==
  /\ output = Pending /\ input[1].fn = "disjoint"
  /\ output' = are_polygons_mutually_disjoint(input[1], input[2])
  /\ UNCHANGED input

Next == CheckRow \/ CheckDataset

-----------------------------------------------------------------------------
(* Properties *)

Evaluated == output # Pending /\ output # Refused

\* A value that is not NULL and cannot be read as a geometry is reported by
\* every geometry check, also by those whose violation would be NULL for it
\* and by those that compare it with a reference, and a NULL never is.
UnreadableIsReported ==
  Evaluated /\ input[1].fn \notin {"is_latitude", "is_longitude", "disjoint"} =>
    /\ input[2] = Malformed => output = TRUE
    /\ input[2] = Null => output = FALSE

Measured(raw) == raw \notin {Null, Malformed} /\ raw.srid \in {0, Wgs84} /\ Points(raw) # {}

\* The approximate mode errs on one side: a geometry the precise check
\* accepts is accepted at every resolution (_h3_cells).
ApproximateAcceptsPrecise ==
  Evaluated /\ input[1].fn = "reference" /\ Measured(input[2]) /\ Measured(input[3])
    /\ input[1].relationship \in {"COVERS", "INTERSECTS"}
    /\ Precise(input[1].relationship, input[2], input[3]) = FALSE => output = FALSE

\* What the reference of are_polygons_mutually_disjoint says: NULLs and
\* invalid geometries are excluded from the check.
NullsAreExcluded ==
  Evaluated /\ input[1].fn = "disjoint" =>
    \A i \in output : input[2][i].geom \notin {Null, Malformed}

\* Two polygons that meet are both reported, whatever lies between them, and
\* a row alone with its polygon never is.
MeetingPolygonsAreReported ==
  Evaluated /\ input[1].fn = "disjoint" =>
    \A i \in Polygons(input[2]) :
      (i \in output) <=> /\ input[1].filtered => input[2][i].in
                         /\ \E j \in Polygons(input[2]) \ {i} :
                              /\ input[1].filtered => input[2][j].in
                              /\ Points(input[2][i].geom) \cap Points(input[2][j].geom) # {}
=============================================================================
