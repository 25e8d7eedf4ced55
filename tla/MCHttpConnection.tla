-------------------------- MODULE MCHttpConnection --------------------------
(* Scripts of two and three messages for HttpConnection.                   *)
EXTENDS HttpConnection

Plain == [line |-> TRUE, head |-> TRUE, old |-> FALSE, keep |-> "default",
          frame |-> "none", body |-> 0, form |-> "fine", expect |-> FALSE,
          refuse |-> 0, ranges |-> <<>>, route |-> TRUE]

Sized   == [Plain EXCEPT !.frame = "length", !.body = 1]
Chunks  == [Plain EXCEPT !.frame = "chunked", !.body = 1]
Upload  == [Sized EXCEPT !.expect = TRUE]

Messages ==
  { Plain, Sized, Chunks, Upload,
    [Plain EXCEPT !.line = FALSE],
    [Sized EXCEPT !.head = FALSE],
    [Chunks EXCEPT !.head = FALSE],
    [Plain EXCEPT !.old = TRUE],
    [Sized EXCEPT !.old = TRUE, !.keep = "keep-alive"],
    [Plain EXCEPT !.keep = "close"],
    [Plain EXCEPT !.frame = "length"],
    [Sized EXCEPT !.body = 2],
    [Chunks EXCEPT !.body = 2],
    [Chunks EXCEPT !.frame = "both"],
    [Sized EXCEPT !.frame = "other"],
    [Sized EXCEPT !.form = "unreadable"],
    [Chunks EXCEPT !.form = "broken"],
    [Sized EXCEPT !.form = "long"],
    [Sized EXCEPT !.refuse = 414],
    [Plain EXCEPT !.refuse = 416],
    [Upload EXCEPT !.route = FALSE],
    [Chunks EXCEPT !.route = FALSE],
    [Plain EXCEPT !.route = FALSE] }

(* Ranges: a prefix, a suffix, one that ends late, one that is too far;    *)
(* four that overlap; and one more than RangeMaxCount, each of them good.  *)
Ranged ==
  { [Plain EXCEPT !.ranges = rs] :
      rs \in { <<<<0, 0>>>>, <<<<-1, 1>>>>, <<<<-1, 4>>>>, <<<<1, 5>>>>, <<<<3, -1>>>>,
               <<<<0, 0>>, <<1, -1>>>>, <<<<0, 1>>, <<0, 1>>, <<1, 1>>>>,
               <<<<0, 1>>, <<0, 1>>, <<0, 0>>, <<1, 1>>>>,
               [i \in 1 .. RangeMaxCount + 1 |-> <<i % 3, i % 3>>] } }

MCScripts ==
  { <<a, b>> : a \in Messages, b \in {Plain, Sized, Chunks, Upload,
                                           [Plain EXCEPT !.line = FALSE]} }
    \cup { <<a>> : a \in Ranged }
    \cup { <<Sized, Chunks, Plain>>, <<Plain, Upload, Sized>> }
=============================================================================
