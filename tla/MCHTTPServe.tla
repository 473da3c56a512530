---------------------------- MODULE MCHTTPServe ----------------------------
(* Every kind of request body, of answer body, interim answers and a backup *)
(* backend, in combinations that put two of them into one request.  Routing *)
(* tables with up to four restrictions, before and behind another route.    *)
EXTENDS HTTPServe, SequencesExt

Shape(req, res, cont, backup) ==
  [reqBody |-> req, resBody |-> res, cont |-> cont, backup |-> backup]

MCShapes ==
  {Shape("sized", "sized", TRUE, FALSE), Shape("empty", "none", FALSE, TRUE),
   Shape("empty", "eof", TRUE, FALSE), Shape("unsized", "sized", FALSE, FALSE),
   Shape("bad", "sized", FALSE, TRUE), Shape("empty", "bad", FALSE, FALSE)}

RestrictBy(network, path, invert, andAfter) ==
  [network |-> network, path |-> path, invert |-> invert, andAfter |-> andAfter]

MCRestrictions ==
  {RestrictBy("inside", "none", FALSE, TRUE),
   RestrictBy("inside", "none", TRUE, FALSE),
   RestrictBy("none", "match", FALSE, FALSE),
   RestrictBy("none", "other", FALSE, TRUE)}

To(matches, list, b) ==
  [matches |-> matches, restrictions |-> list, backend |-> b]

Table(routes, b) == [routes |-> routes, default |-> b]

Before(l) == <<To(TRUE, l, "backend"), To(TRUE, <<>>, "backend")>>
Behind(l) == <<To(FALSE, <<>>, "none"), To(TRUE, l, "backend")>>

Lists == {l \in BoundedSeq(MCRestrictions, 4) : Tidy(l)}

MCTables ==
  {Table(Before(l), "none") : l \in Lists}
  \cup {Table(Behind(l), "backend") : l \in Lists}
  \cup {Table(<<To(TRUE, <<>>, "none")>>, "backend"),
        Table(<<>>, "none"), Table(<<>>, "backend")}

\* Restrictions whose last one has andafter.
MCTrailingTables ==
  {Table(Before(l), "none") : l \in BoundedSeq(MCRestrictions, 2) \ Lists}

=============================================================================
