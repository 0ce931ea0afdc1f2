-------------------------- MODULE DistributedScan --------------------------
(***************************************************************************)
(* What a table scan over several tablets is computed from: logical spans  *)
(* and the progress made over them, the router of a table, the fragments   *)
(* of a span its tablets own, the re-resolution of a fragment after a      *)
(* topology change, and the page one tablet answers with.                  *)
(*                                                                         *)
(* Primary keys are numbers from 1.  A missing lower bound is 0 and a      *)
(* missing upper bound is Beyond, so that spans are half-open intervals;   *)
(* a missing cursor is 0.                                                  *)
(***************************************************************************)
EXTENDS Integers, Sequences, FiniteSets, SequencesExt, FiniteSetsExt

CONSTANTS
    Keys,       \* the primary keys of the table
    PageRows    \* TABLET_SCAN_PAGE_ROWS, and the intents one answer may carry

ASSUME ScanConstants == Keys \subseteq Nat \ {0} /\ IsFiniteSet(Keys) /\ PageRows \in Nat \ {0}

Beyond == Max(Keys) + 1
ScanSpan(start, end) == [start |-> start, end |-> end]
Unbounded == ScanSpan(0, Beyond)

spans_intersect(left, right) == left.start < right.end /\ right.start < left.end

subtract_span(span, covered) ==
    IF spans_intersect(span, covered)
    THEN {r \in {ScanSpan(span.start, covered.start), ScanSpan(covered.end, span.end)} :
            r.start < r.end}
    ELSE {span}

\* The parts of a span that a set of outstanding spans does not cover.
Uncovered(span, outstanding) ==
    FoldSet(LAMBDA o, pieces : UNION {subtract_span(p, o) : p \in pieces}, {span}, outstanding)

\* ScanProgress: a span may be completed only while all of it is outstanding.
MayComplete(remaining, span) == Uncovered(span, remaining) = {}
mark_completed(remaining, span) == UNION {subtract_span(r, span) : r \in remaining}

-----------------------------------------------------------------------------
(* The router of a table: [hash, tablets], the tablets in key order.        *)

Range0(t) == ScanSpan(t.start, t.end)

\* A router is built from a gap-free cover, or from hash buckets that all claim
\* the whole table; never from a mixture.
ValidRouter(router) ==
    /\ router.tablets # <<>>
    /\ \A i, j \in DOMAIN router.tablets :
         router.tablets[i].tablet = router.tablets[j].tablet => i = j
    /\ IF router.hash
       THEN \A i \in DOMAIN router.tablets : Range0(router.tablets[i]) = Unbounded
       ELSE /\ router.tablets[1].start = 0 /\ Last(router.tablets).end = Beyond
            /\ \A i \in 1..Len(router.tablets) - 1 :
                 router.tablets[i].end = router.tablets[i + 1].start

Bucket(router, key) == router.tablets[(key % Len(router.tablets)) + 1]

route_point(router, key) ==
    IF router.hash THEN Bucket(router, key).tablet
    ELSE (CHOOSE t \in ToSet(router.tablets) : t.start <= key /\ key < t.end).tablet

\* One route for each tablet that owns a part of the span, clipped to it.
route_scan_fragments(router, span) ==
    LET Clip(t) == [tablet |-> t.tablet, epoch |-> t.epoch,
                    span |-> IF router.hash THEN span
                             ELSE ScanSpan(Max({span.start, t.start}), Min({span.end, t.end}))]
        owners == SelectSeq(router.tablets, LAMBDA t : spans_intersect(Range0(t), span))
    IN  [i \in DOMAIN owners |-> Clip(owners[i])]

\* What the executor demands of the routes of a span: every route has all of it
\* (hash buckets, or one owner), or they follow each other from end to end.
validate_scan_route_cover(span, routes) ==
    /\ routes # <<>>
    /\ \A i, j \in DOMAIN routes : routes[i].tablet = routes[j].tablet => i = j
    /\ \/ \A i \in DOMAIN routes : routes[i].span = span
       \/ /\ routes[1].span.start = span.start /\ Last(routes).span.end = span.end
          /\ \A i \in 1..Len(routes) - 1 : routes[i].span.end = routes[i + 1].span.start

identical_hash_spans(routes) ==
    Len(routes) > 1 /\ \A i \in DOMAIN routes : routes[i].span = Unbounded

PendingScanFragment(route, resume, refreshes) ==
    [route |-> route, resume |-> resume, refreshes |-> refreshes]

\* The routes of a refreshed span: those that end at or before the cursor are
\* finished, and the cursor applies to those it lies in.
resume_scan_routes(routes, resume, refreshes) ==
    LET left == SelectSeq(routes, LAMBDA r : resume = 0 \/ r.span.end > resume)
    IN  [i \in DOMAIN left |->
           PendingScanFragment(left[i], IF left[i].span.start <= resume THEN resume ELSE 0, refreshes)]

-----------------------------------------------------------------------------
(* The answer of one tablet.  A row is <<key, writer>>.                     *)

\* Keys a request asks for: within the span and after the cursor.
Asked(fragment) ==
    {k \in Keys : /\ fragment.route.span.start <= k /\ k < fragment.route.span.end
                  /\ fragment.resume < k}

FirstOf(keys, n) == {k \in keys : Cardinality({j \in keys : j <= k}) <= n}

\* Conflicting intents come first and alone: the same cursor is asked again.
TabletScanBatch(intents, visible) ==
    LET page == FirstOf({r[1] : r \in visible}, PageRows)
    IN  [intents |-> FirstOf(intents, PageRows),
         rows |-> IF intents = {} THEN {r \in visible : r[1] \in page} ELSE {},
         exhausted |-> intents = {} /\ Cardinality(visible) <= PageRows,
         next |-> IF intents = {} /\ Cardinality(visible) > PageRows THEN Max(page) ELSE 0]
=============================================================================
