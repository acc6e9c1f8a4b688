---------------------------- MODULE MCTableStreams ----------------------------
\* Three orders, two parts and four suppliers at scale factor 1, nation and region
\* as they are; partitions of one to 250 rows.  An integer of 128 values holds the
\* keys of the scale factors one half, one and three; of the orders, customers,
\* parts and suppliers of scale factor 40, with either generator, it does not hold
\* them all.
EXTENDS TableStreams
MCRows == [orders |-> 3, lineitem |-> 12, partsupp |-> 8, customer |-> 3, part |-> 2,
           supplier |-> 4, nation |-> 25, region |-> 5]
MCScales == {[num |-> 1, den |-> 2, wide |-> FALSE], [num |-> 1, den |-> 1, wide |-> FALSE],
             [num |-> 3, den |-> 1, wide |-> FALSE], [num |-> 40, den |-> 1, wide |-> FALSE],
             [num |-> 40, den |-> 1, wide |-> TRUE]}
MCTargets == {0, 1, 2, 3, 4, 7, 13, 25, 120, 250}
\* The parts and suppliers of TPC-H at scale factor 0.001.
TpchRows == [MCRows EXCEPT !["part"] = 200000, !["partsupp"] = 800000, !["supplier"] = 10000]
MCThousandth == {[num |-> 1, den |-> 1000, wide |-> FALSE]}
TpchTargets == {0, 100}
=============================================================================
