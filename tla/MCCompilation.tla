--------------------------- MODULE MCCompilation ---------------------------
(***************************************************************************)
(* Instances of Compilation for TLC. Hash values are chosen for the bucket *)
(* they fall into; the standard functions have a bucket each.              *)
(***************************************************************************)
EXTENDS Compilation

User == {"x", "y", "z"}
MCNames == StdFunctions \cup User
TwoIdentifiers == {"x", "y"}
FarIdentifiers == {"x", "z"}

StdHash ==
    "columns" :> 0 @@ "lines" :> 1 @@ "byIndex" :> 2 @@ "filter" :> 3
    @@ "toString" :> 4 @@ "at" :> 5

\* x and y share a bucket of a table of 16, and "lines" is in it too; the
\* bucket of z is one prev_scope does not reach.
DistinctHash == StdHash @@ "x" :> 17 @@ "y" :> 33 @@ "z" :> 14

\* y has the hash value of "lines", as "mHnes" has under djb2; x shares their
\* bucket.
CollidingHash == StdHash @@ "x" :> 17 @@ "y" :> 1 @@ "z" :> 14

\* Modulo 10, 20: the standard functions keep their buckets when the table
\* grows, x moves, z is in a bucket that the growth clears and that prev_scope
\* does not reach.
GrowingHash == StdHash @@ "x" :> 17 @@ "y" :> 26 @@ "z" :> 9

\* Modulo 8, 12, 16, the buckets when "at" is inserted, after that growth and
\* after the next one: it leaves its bucket and comes back to it.
ReturningHash ==
    [name \in {"at", "y", "z"} |->
        IF name = "at" THEN 16 ELSE IF name = "y" THEN 25 ELSE 26] @@ StdHash
ReturningIdentifiers == {"at", "y", "z"}
ReturningNames == StdFunctions \cup ReturningIdentifiers
============================================================================
