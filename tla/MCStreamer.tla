----------------------------- MODULE MCStreamer -----------------------------
(* Instances of Streamer for TLC.                                          *)
EXTENDS Streamer, TLC

CONSTANTS a1, a2

(* Three vertices, so that rg has edges to draw.  An edge belongs to the   *)
(* agent of its destination; in the second list vertex 1 has moved.        *)
Pairs == (0 .. 2) \X (0 .. 2)
TwoLists ==
  << [e \in Pairs |-> IF e[2] = 0 THEN a1 ELSE a2],
     [e \in Pairs |-> IF e[2] = 2 THEN a2 ELSE a1] >>

File(cs) == [op |-> "file", changes |-> cs]
Batch(b) == [op |-> "+batch", val |-> b]
WaitBatch == [op |-> "+wait+batch"]
Mb(n)    == [op |-> "+mb", val |-> n]
Ins(u, v) == <<<<u, v>>, TRUE>>
Del(u, v) == <<<<u, v>>, FALSE>>

Changes == <<Ins(0, 1), Ins(1, 0), Del(0, 1)>>

SomePrograms ==
  { << Batch(FALSE), WaitBatch, Mb(1), File(Changes), File(<<Ins(2, 1)>>) >>,
    << Batch(FALSE), WaitBatch, Mb(2), File(Changes) >>,
    << Batch(FALSE), WaitBatch, Mb(3), File(Changes \o <<Ins(2, 2)>>) >>,
    << Batch(FALSE), WaitBatch, File(Changes), File(<<Ins(0, 1)>>) >>,
    << File(Changes), Batch(FALSE), File(<<Ins(0, 1), <<"bad line">>>>) >>,
    << [op |-> "rg", N |-> 3, M |-> 5, r |-> 1, P |-> 2] >>,
    << Batch(FALSE), WaitBatch, Mb(1), [op |-> "rg", N |-> 2, M |-> 2, r |-> 0, P |-> 1],
       File(<<Ins(2, 1)>>) >>,
    << [op |-> "listen"] >>,
    << Batch(FALSE), [op |-> "listen"] >> }

SomeFeeds == { << <<<<0, 1>>>>, <<<<1, 2>>, <<2, 0>>>>, <<<<0, 1>>>> >> }
=============================================================================
