----------------------- MODULE MCDefaultCacheHandler -----------------------
(* Model checking of DefaultCacheHandler.  Thirds of a millisecond, so     *)
(* that rounding goes both ways.                                           *)
EXTENDS DefaultCacheHandler, TLC

CONSTANTS tag

\* Size and revalidate: an entry that fits, and whose revalidate time of six
\* ticks passes only at the end of the run.
MCShapes == {<<1, 6>>}
MCData ==
  {[size |-> s[1], tags |-> {tag}, timestamp |-> t, revalidate |-> s[2]] :
     s \in MCShapes, t \in 0..MaxTime}
MCSizeOf == [d \in MCData |-> d.size]
=============================================================================
