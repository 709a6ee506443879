--------------------------- MODULE MCAlphaService ---------------------------
EXTENDS AlphaService

CONSTANTS a, b, c, d, e, is, has

MCNodes == {a, b, c, d, e}
MCRelations == {is, has}

\* One pair has both relations.
MCEdges == {<<a, b, is>>, <<a, b, has>>, <<b, c, is>>, <<c, d, is>>, <<a, c, is>>, <<d, e, is>>}

Row(x, y, table) == <<<<x, y, is>>, table>>

\* An index, one that was rebuilt and lost an edge's node, which replay has added to and
\* decay has taken from, and two with ghost tables, of which one lacks a shade.
MCCommits ==
    {[rows |-> {Row(a, b, "stats"), <<<<a, b, has>>, "stats">>, Row(a, c, "stats"),
                Row(c, d, "daemon"), Row(b, c, "replay")},
      index |-> {a, b, c}, learned |-> {a, c, d}, shades |-> {}],
     [rows |-> {Row(a, b, "stats"), Row(b, c, "daemon"), Row(b, c, "replay"),
                Row(c, d, "stats"), Row(d, e, "stats")},
      index |-> {a, b, d}, learned |-> {b}, shades |-> {}],
     [rows |-> {Row(a, b, "stats"), Row(b, c, "stats"), Row(a, b, "ghost"),
                Row(b, c, "ghost"), Row(c, d, "ghost")},
      index |-> MCNodes \ {e}, learned |-> {}, shades |-> MCNodes \ {e}],
     [rows |-> {Row(a, b, "ghost"), Row(b, c, "ghost"), Row(c, d, "ghost"),
                Row(d, e, "ghost")},
      index |-> {}, learned |-> {}, shades |-> {a, c, d}]}
=============================================================================
